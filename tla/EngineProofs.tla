---------------------------- MODULE EngineProofs ----------------------------
(***************************************************************************)
(* Proofs about the engine and the two systems built on it, for every set  *)
(* of keys and every pipeline.                                             *)
(*                                                                         *)
(* Part 1, Pipeline: the type invariant, fail-fast, the wiring guarantee   *)
(* of Validate, the rerun contract, the inertness of a rehearsal, and that *)
(* a run leads nowhere but to its end.                                     *)
(*                                                                         *)
(* Part 2, DebugSession: a supervised run is a run, so all of part 1 holds *)
(* of it; supervision, the freshness of answers, the panel's picture and   *)
(* the verdict.                                                            *)
(*                                                                         *)
(* Part 3, Deploy: the steps keep the contract the engine was verified     *)
(* against, so part 1 carries over, and a rehearsal touches nothing; of    *)
(* deploys in the documented order, that the old release serves until the  *)
(* new one has proven itself; of every step, that its loops run out.       *)
(***************************************************************************)
EXTENDS Deploy, DebugSession, TLAPS, FiniteSetTheorems

-----------------------------------------------------------------------------
(* Part 1: Pipeline.                                                        *)

\* A pipeline is a sequence of steps.
LEMMA PipeShape ==
  ASSUME NEW q \in Pipelines
  PROVE  /\ q \in Seq(Step) /\ Len(q) \in Nat /\ DOMAIN q = 1..Len(q)
         /\ \A n \in DOMAIN q : q[n] \in Step
  BY PipelinesAssumption

\* The initial states have the type.
LEMMA TypeStart == Init => TypeOK
<1> SUFFICES ASSUME Init PROVE TypeOK
  OBVIOUS
<1>1. dbg \in BOOLEAN /\ cancelled \in BOOLEAN /\ runErr \in BOOLEAN
      /\ pauseOnSuccess \in BOOLEAN
  BY Zenon DEF Init
<1>2. Total \in Nat
  BY PipeShape DEF Init, Total
<1>3. QED
  BY <1>1, <1>2 DEF Init, TypeOK, PC, Bag, Absent

\* Every step of the engine keeps it.
LEMMA TypeStep == TypeOK /\ [Next]_vars => TypeOK'
<1> SUFFICES ASSUME TypeOK, [Next]_vars PROVE TypeOK'
  OBVIOUS
<1>p. Total \in Nat /\ DOMAIN pipe = 1..Total
  BY PipeShape DEF TypeOK, Total
<1> USE DEF TypeOK, PC, Total, args, bag, hist, Faults, Errors
<1>1. ASSUME NEW d \in BOOLEAN, NewState(d) PROVE TypeOK'
  BY <1>1 DEF NewState, AppliedMode, Asked, Forced
<1>2. ASSUME NEW e \in Errors \cup {"planned"}, Return(e) PROVE TypeOK'
  BY <1>2 DEF Return
<1>3. CASE Begin
  BY <1>3 DEF Begin
<1>4. CASE LoopEnds
  BY <1>4 DEF LoopEnds, Leave
<1>5. CASE StepStarts
  BY <1>5, <1>p DEF StepStarts
<1>6. ASSUME NEW ok \in BOOLEAN, NEW set \in SUBSET Key, StepReturns(ok, set) PROVE TypeOK'
  <2>1. /\ values' \in Bag /\ effects' \subseteq DOMAIN pipe
        /\ last' \in [DOMAIN pipe -> {"never", "ok", "failed"}]
    BY <1>6 DEF StepReturns, StepSets, Bag
  <2>2. runErr' \in BOOLEAN
    BY <1>6, Zenon DEF StepReturns
  <2>3. /\ i' \in 1..(Total + 1) /\ pc' \in PC
        /\ result' \in Errors \cup {"none", "ok", "planned"}
        /\ pc' \in {"running", "paused"} => i' \in DOMAIN pipe
    BY <1>6, <1>p DEF StepReturns, Advance, Leave
  <2>4. QED
    BY <1>6, <2>1, <2>2, <2>3 DEF StepReturns
<1>7. ASSUME NEW a \in Answer, PauseReturns(a) PROVE TypeOK'
  <2>1. /\ values' \in Bag /\ before' \in Bag
    BY <1>7 DEF PauseReturns, Rerun, Restore
  <2>2. /\ i' \in 1..(Total + 1) /\ pc' \in {"top", "finish"}
        /\ result' \in Errors \cup {"none", "ok", "planned"}
    BY <1>7, <1>p DEF PauseReturns, MoveOn, Rerun, Advance, Leave
  <2>3. pauseOnSuccess' \in BOOLEAN
    BY <1>7 DEF PauseReturns
  <2>4. QED
    BY <1>7, <2>1, <2>2, <2>3 DEF PauseReturns
<1>8. CASE Finish
  BY <1>8 DEF Finish
<1>9. CASE Cancel
  BY <1>9 DEF Cancel
<1>10. CASE UNCHANGED vars
  BY <1>10 DEF vars
<1>11. QED
  BY <1>1, <1>2, <1>3, <1>4, <1>5, <1>6, <1>7, <1>8, <1>9, <1>10
  DEF Next, Engine, StepRun, Reject, PrintPlan, PlanFails

\* Every variable keeps its type, for every pipeline, and the position stays
\* within the pipeline while a step runs or is paused on: neither a rerun nor
\* an advance steps outside it.
THEOREM PipelineTypeCorrect == Spec => []TypeOK
BY TypeStart, TypeStep, PTL DEF Spec

-----------------------------------------------------------------------------
\* The strengthening behind FailFast: every step before the current one has
\* succeeded, none after it has run, and a pause that may be moved on from is
\* a pause on a success.
Progress ==
    /\ pc \in {"new", "run"} => i = 1 /\ \A j \in DOMAIN pipe : last[j] = "never"
    /\ pc \in {"top", "running", "paused", "finish"} =>
           Validate(pipe, "none") /\ forced # "plan"
    /\ \A j \in DOMAIN pipe : (j < i => last[j] = "ok") /\ (j > i => last[j] = "never")
    /\ pc = "paused" => dbg /\ (runErr \/ last[i] = "ok")
    /\ result = "ok" => pc \in {"finish", "done"} /\ i > Total

LEMMA ProgressHolds == Spec => []Progress
<1>1. Init => Progress
  <2> SUFFICES ASSUME Init PROVE Progress
    OBVIOUS
  <2>1. DOMAIN pipe = 1..Len(pipe)
    BY PipeShape DEF Init
  <2>2. QED
    BY <2>1 DEF Init, Progress
<1>2. TypeOK /\ Progress /\ [Next]_vars => Progress'
  <2> SUFFICES ASSUME TypeOK, Progress, [Next]_vars PROVE Progress'
    OBVIOUS
  <2>p. Total \in Nat /\ DOMAIN pipe = 1..Total
    BY PipeShape DEF TypeOK, Total
  <2> USE DEF TypeOK, Progress, PC, Total, args, bag, hist
  <2>1. ASSUME NEW d \in BOOLEAN, NewState(d) PROVE Progress'
    BY <2>1 DEF NewState
  <2>2. ASSUME NEW e \in Errors \cup {"planned"}, Return(e) PROVE Progress'
    BY <2>2 DEF Return, Errors, Faults
  <2>3. CASE Begin
    BY <2>3 DEF Begin, Runnable
  <2>4. CASE LoopEnds
    BY <2>4 DEF LoopEnds, Leave
  <2>5. CASE StepStarts
    BY <2>5, <2>p DEF StepStarts
  <2>6. ASSUME NEW ok \in BOOLEAN, NEW set \in SUBSET Key, StepReturns(ok, set)
        PROVE  Progress'
    <3>1. /\ last' = [last EXCEPT ![i] = IF ok THEN "ok" ELSE "failed"]
          /\ pc = "running" /\ runErr' = ~ok
          /\ UNCHANGED <<pipe, forced, dbg>>
      BY <2>6 DEF StepReturns, StepSets
    <3>2. CASE Pauses(ok) /\ pc' = "paused" /\ UNCHANGED <<i, result>>
      BY <3>1, <3>2, <2>p DEF Pauses
    <3>3. CASE ok /\ Advance
      BY <3>1, <3>3, <2>p DEF Advance
    <3>4. CASE Leave("StepFailed") /\ UNCHANGED i
      BY <3>1, <3>4, <2>p DEF Leave
    <3>5. QED
      BY <2>6, <3>2, <3>3, <3>4 DEF StepReturns
  <2>7. ASSUME NEW a \in Answer, PauseReturns(a) PROVE Progress'
    <3>1. pc = "paused" /\ UNCHANGED <<pipe, forced, dbg, last>>
      BY <2>7 DEF PauseReturns
    <3>2. CASE ~runErr /\ Advance
      BY <3>1, <3>2, <2>p DEF Advance
    <3>3. CASE (\E e \in {"StepFailed", "Aborted"} : Leave(e)) /\ UNCHANGED i
      BY <3>1, <3>3, <2>p DEF Leave
    <3>4. CASE Rerun
      BY <3>1, <3>4, <2>p DEF Rerun
    <3>5. QED
      BY <2>7, <3>2, <3>3, <3>4 DEF PauseReturns, MoveOn
  <2>8. CASE Finish
    BY <2>8 DEF Finish
  <2>9. CASE Cancel
    BY <2>9 DEF Cancel
  <2>10. CASE UNCHANGED vars
    BY <2>10 DEF vars
  <2>11. QED
    BY <2>1, <2>2, <2>3, <2>4, <2>5, <2>6, <2>7, <2>8, <2>9, <2>10
    DEF Next, Engine, StepRun, Reject, PrintPlan, PlanFails, Errors
<1>3. QED
  BY <1>1, <1>2, PipelineTypeCorrect, PTL DEF Spec

\* Fail-fast (FailFast): whatever the steps return and the operator answers, no
\* step is reached past one that has not succeeded, and Run returns nil only
\* when every step has.
THEOREM PipelineFailFast == Spec => []FailFast
<1>1. TypeOK /\ Progress => FailFast
  <2> SUFFICES ASSUME TypeOK, Progress PROVE FailFast
    OBVIOUS
  <2>p. Total \in Nat /\ DOMAIN pipe = 1..Total
    BY PipeShape DEF TypeOK, Total
  <2>1. ASSUME NEW j \in DOMAIN pipe, last[j] # "never", NEW h \in 1..(j - 1)
        PROVE  last[h] = "ok"
    BY <2>p, <2>1 DEF TypeOK, Progress, Total
  <2>2. ASSUME result = "ok", NEW j \in DOMAIN pipe PROVE last[j] = "ok"
    BY <2>p, <2>2 DEF TypeOK, Progress, Total
  <2>3. QED
    BY <2>1, <2>2 DEF FailFast
<1>2. QED
  BY <1>1, PipelineTypeCorrect, ProgressHolds, PTL

-----------------------------------------------------------------------------
\* What Validate establishes about an accepted pipeline: requirements are met
\* by earlier steps, and no two steps provide one key.
LEMMA AcceptedIsWired ==
  ASSUME NEW q \in Pipelines, Validate(q, "none"), NEW n \in DOMAIN q
  PROVE  /\ \A key \in q[n].requires : \E j \in 1..(n - 1) : key \in Elems(q[j].provides)
         /\ \A j \in 1..(n - 1) : Elems(q[j].provides) \cap Elems(q[n].provides) = {}
<1>1. StepFault(q, n) = "none"
  BY DEF Validate
<1>2. ~NotWired(q, n) /\ ~DuplicateProvider(q, n)
  BY <1>1 DEF StepFault
<1>3. QED
  BY <1>2 DEF NotWired, DuplicateProvider, ProvidedBy

\* Bag v holds, for every key the first n - 1 steps provide, what the latest
\* run of its provider set.
Holds(v, n) ==
    \A j \in DOMAIN pipe : j < n => \A key \in Elems(pipe[j].provides) : v[key] = wrote[j]

\* The strengthening behind InputsWired.
Wiring ==
    /\ Holds(values, i)
    /\ dbg /\ pc \in {"running", "paused"} => Holds(before, i)
    /\ \A j \in DOMAIN pipe : j < i => wrote[j] # 0
    /\ pc \in {"running", "paused"} => wrote[i] = runs /\ runs # 0
    /\ pc = "paused" /\ ~runErr => \A key \in Elems(pipe[i].provides) : values[key] = wrote[i]

LEMMA WiringHolds == Spec => []Wiring
<1>1. Init => Wiring
  <2> SUFFICES ASSUME Init PROVE Wiring
    OBVIOUS
  <2>1. DOMAIN pipe = 1..Len(pipe)
    BY PipeShape DEF Init
  <2>2. QED
    BY <2>1 DEF Init, Wiring, Holds
<1>2. TypeOK /\ TypeOK' /\ Progress /\ Wiring /\ [Next]_vars => Wiring'
  <2> SUFFICES ASSUME TypeOK, TypeOK', Progress, Wiring, [Next]_vars PROVE Wiring'
    OBVIOUS
  <2>p. Total \in Nat /\ DOMAIN pipe = 1..Total
    BY PipeShape DEF TypeOK, Total
  <2>i. i \in Nat /\ runs \in Nat
    BY <2>p DEF TypeOK
  \* Most steps leave the bag and the history alone and start no step.
  <2>u. ASSUME UNCHANGED <<pipe, dbg, i, values, before, wrote, runs>>,
               pc' \notin {"running", "paused"}
        PROVE  Wiring'
    BY <2>u DEF Wiring, Holds
  <2> USE DEF args, bag, hist
  <2>1. ASSUME NEW d \in BOOLEAN, NewState(d) PROVE Wiring'
    <3>1. i = 1 /\ i' = 1 /\ pc' = "run"
      BY <2>1 DEF NewState, Progress
    <3>2. QED
      BY <3>1, <2>p, <2>1 DEF NewState, Wiring, Holds
  <2>2. ASSUME NEW e, Return(e) PROVE Wiring'
    BY <2>2, <2>u DEF Return
  <2>3. CASE Begin
    BY <2>3, <2>u DEF Begin
  <2>4. CASE LoopEnds
    BY <2>4, <2>u DEF LoopEnds, Leave
  <2>5. CASE StepStarts
    <3>1. /\ pc' = "running" /\ i' = i /\ i \in DOMAIN pipe /\ runs' = runs + 1
          /\ wrote' = [wrote EXCEPT ![i] = runs + 1]
          /\ UNCHANGED <<pipe, dbg, values>> /\ (dbg => before' = values)
      BY <2>5, <2>p, <2>i DEF StepStarts, TypeOK, Total
    <3>2. wrote'[i] = runs'
      BY <3>1 DEF TypeOK
    <3>3. \A j \in DOMAIN pipe : j < i => wrote'[j] = wrote[j]
      BY <3>1, <2>p, <2>i DEF TypeOK
    <3>4. QED
      BY <3>1, <3>2, <3>3, <2>i DEF Wiring, Holds
  <2>6. ASSUME NEW ok \in BOOLEAN, NEW set \in SUBSET Key, StepReturns(ok, set)
        PROVE  Wiring'
    <3>1. /\ pc = "running" /\ i \in DOMAIN pipe /\ runErr' = ~ok
          /\ UNCHANGED <<pipe, dbg, before, wrote, runs>>
          /\ set \subseteq Elems(pipe[i].provides)
          /\ ok => set = Elems(pipe[i].provides)
          /\ values' = [key \in Key |-> IF key \in set THEN runs ELSE values[key]]
          /\ wrote[i] = runs /\ runs # 0
      BY <2>6 DEF StepReturns, StepSets, TypeOK, Wiring
    <3>k. \A j \in DOMAIN pipe : Elems(pipe[j].provides) \subseteq Key
      BY PipeShape DEF TypeOK, Step, Elems
    \* What earlier steps provided is not touched: keys have one provider.
    <3>2. Holds(values', i)
      <4> SUFFICES ASSUME NEW j \in DOMAIN pipe, j < i, NEW key \in Elems(pipe[j].provides)
                   PROVE  values'[key] = wrote[j]
        BY DEF Holds
      <4>1. j \in 1..(i - 1)
        BY <2>p, <3>1
      <4>2. key \notin set
        BY <4>1, <3>1, AcceptedIsWired DEF TypeOK, Progress
      <4>3. QED
        BY <4>2, <3>1, <3>k DEF Wiring, Holds
    <3>3. ok => \A key \in Elems(pipe[i].provides) : values'[key] = wrote[i]
      BY <3>1, <3>k
    <3>4. CASE pc' = "paused" /\ i' = i
      <4>1. ~runErr' => \A key \in Elems(pipe[i].provides) : values'[key] = wrote[i]
        BY <3>1, <3>3, Zenon
      <4>2. Holds(values, i)' /\ (dbg => Holds(before, i)')
        BY <3>1, <3>2, <3>4 DEF Wiring, Holds
      <4>3. QED
        BY <3>1, <3>4, <4>1, <4>2 DEF Wiring
    <3>5. CASE ok /\ pc' = "top" /\ i' = i + 1
      <4>1. \A j \in DOMAIN pipe : j < i + 1 => j < i \/ j = i
        BY <2>p, <3>1
      <4>2. QED
        BY <3>1, <3>2, <3>3, <3>5, <4>1 DEF Wiring, Holds
    <3>6. CASE pc' = "finish" /\ i' = i
      BY <3>1, <3>2, <3>6 DEF Wiring, Holds
    <3>7. QED
      BY <2>6, <3>4, <3>5, <3>6 DEF StepReturns, Advance, Leave
  <2>7. ASSUME NEW a \in Answer, PauseReturns(a) PROVE Wiring'
    <3>1. /\ pc = "paused" /\ dbg /\ i \in DOMAIN pipe
          /\ UNCHANGED <<pipe, dbg, wrote, runs, runErr>>
      BY <2>7 DEF PauseReturns, TypeOK, Progress
    <3>2. CASE pc' = "finish" /\ UNCHANGED <<i, values, before>>
      BY <3>1, <3>2 DEF Wiring, Holds
    <3>3. CASE ~runErr /\ Advance /\ UNCHANGED <<values, before>>
      <4>1. \A j \in DOMAIN pipe : j < i + 1 => j < i \/ j = i
        BY <2>p, <3>1
      <4>2. QED
        BY <3>1, <3>3, <4>1 DEF Wiring, Holds, Advance
    <3>4. CASE Rerun
      BY <3>1, <3>4 DEF Wiring, Holds, Rerun, Restore
    <3>5. QED
      BY <2>7, <3>2, <3>3, <3>4 DEF PauseReturns, MoveOn, Leave
  <2>8. CASE Finish
    BY <2>8, <2>u DEF Finish
  <2>9. CASE Cancel
    BY <2>9 DEF Cancel, Wiring, Holds
  <2>10. CASE UNCHANGED vars
    BY <2>10 DEF vars, Wiring, Holds
  <2>11. QED
    BY <2>1, <2>2, <2>3, <2>4, <2>5, <2>6, <2>7, <2>8, <2>9, <2>10
    DEF Next, Engine, StepRun, Reject, PrintPlan, PlanFails
<1>3. QED
  BY <1>1, <1>2, PipelineTypeCorrect, ProgressHolds, PTL DEF Spec

\* The wiring guarantee of Validate (InputsWired): in every accepted pipeline, a
\* running step finds every key it requires, set by the latest run of its one
\* provider, through failures, partial writes, reruns and restores.
THEOREM PipelineInputsWired == Spec => []InputsWired
<1>1. TypeOK /\ Progress /\ Wiring => InputsWired
  <2> SUFFICES ASSUME TypeOK, Progress, Wiring, pc = "running", NEW key \in pipe[i].requires
               PROVE  /\ values[key] # Absent
                      /\ \A j \in DOMAIN pipe :
                           j < i /\ key \in Elems(pipe[j].provides) => values[key] = wrote[j]
    BY DEF InputsWired
  <2>p. Total \in Nat /\ DOMAIN pipe = 1..Total /\ i \in DOMAIN pipe
    BY PipeShape DEF TypeOK, Total
  <2>1. PICK j \in 1..(i - 1) : key \in Elems(pipe[j].provides)
    BY <2>p, AcceptedIsWired DEF TypeOK, Progress
  <2>2. j \in DOMAIN pipe /\ j < i
    BY <2>1, <2>p
  <2>3. values[key] = wrote[j] /\ wrote[j] # 0
    BY <2>1, <2>2 DEF Wiring, Holds
  <2>4. QED
    BY <2>3 DEF Wiring, Holds, Absent
<1>2. QED
  BY <1>1, PipelineTypeCorrect, ProgressHolds, WiringHolds, PTL

-----------------------------------------------------------------------------
\* The strengthening behind RerunSeesOriginalInputs: the snapshot is the bag of
\* the step's first run, and a rerun is on its way with that bag restored.
Replay ==
    /\ pc = "top" /\ i \in DOMAIN pipe /\ last[i] # "never" => values = firstIn[i]
    /\ pc = "running" => values = firstIn[i]
    /\ dbg /\ pc \in {"running", "paused"} => before = firstIn[i]

LEMMA ReplayHolds == Spec => []Replay
<1>1. Init => Replay
  BY DEF Init, Replay
<1>2. TypeOK /\ Progress /\ Replay /\ [Next]_vars => Replay'
  <2> SUFFICES ASSUME TypeOK, Progress, Replay, [Next]_vars PROVE Replay'
    OBVIOUS
  <2>p. Total \in Nat /\ DOMAIN pipe = 1..Total
    BY PipeShape DEF TypeOK, Total
  <2> USE DEF args, bag, hist, Replay
  <2>1. ASSUME NEW d \in BOOLEAN, NewState(d) PROVE Replay'
    BY <2>1 DEF NewState
  <2>2. ASSUME NEW e, Return(e) PROVE Replay'
    BY <2>2 DEF Return
  <2>3. CASE Begin
    BY <2>3 DEF Begin, Progress
  <2>4. CASE LoopEnds
    BY <2>4 DEF LoopEnds, Leave
  <2>5. CASE StepStarts
    <3>1. i \in DOMAIN pipe
      BY <2>5, <2>p DEF StepStarts, TypeOK, Total
    <3>2. QED
      BY <2>5, <3>1 DEF StepStarts, TypeOK
  <2>6. ASSUME NEW ok \in BOOLEAN, NEW set \in SUBSET Key, StepReturns(ok, set)
        PROVE  Replay'
    <3>1. /\ pc = "running" /\ i \in DOMAIN pipe
          /\ last' = [last EXCEPT ![i] = IF ok THEN "ok" ELSE "failed"]
          /\ UNCHANGED <<pipe, dbg, before, firstIn>>
      BY <2>6 DEF StepReturns, StepSets, TypeOK
    <3>2. CASE pc' = "paused" /\ i' = i
      BY <3>1, <3>2
    \* The step after has never run.
    <3>3. CASE pc' = "top" /\ i' = i + 1
      <4>1. i + 1 \in DOMAIN pipe => last'[i + 1] = "never"
        BY <3>1, <2>p DEF TypeOK, Progress
      <4>2. QED
        BY <3>1, <3>3, <4>1
    <3>4. CASE pc' = "finish"
      BY <3>4
    <3>5. QED
      BY <2>6, <3>2, <3>3, <3>4 DEF StepReturns, Advance, Leave
  <2>7. ASSUME NEW a \in Answer, PauseReturns(a) PROVE Replay'
    <3>1. /\ pc = "paused" /\ dbg /\ i \in DOMAIN pipe
          /\ UNCHANGED <<pipe, dbg, last, firstIn>>
      BY <2>7 DEF PauseReturns, TypeOK, Progress
    <3>2. CASE pc' = "finish"
      BY <3>2
    <3>3. CASE Advance
      <4>1. i + 1 \in DOMAIN pipe => last[i + 1] = "never"
        BY <3>1, <2>p DEF TypeOK, Progress
      <4>2. QED
        BY <3>1, <3>3, <4>1 DEF Advance
    <3>4. CASE Rerun
      BY <3>1, <3>4 DEF Rerun, Restore
    <3>5. QED
      BY <2>7, <3>2, <3>3, <3>4 DEF PauseReturns, MoveOn, Leave
  <2>8. CASE Finish
    BY <2>8 DEF Finish
  <2>9. CASE Cancel
    BY <2>9 DEF Cancel
  <2>10. CASE UNCHANGED vars
    BY <2>10 DEF vars
  <2>11. QED
    BY <2>1, <2>2, <2>3, <2>4, <2>5, <2>6, <2>7, <2>8, <2>9, <2>10
    DEF Next, Engine, StepRun, Reject, PrintPlan, PlanFails
<1>3. QED
  BY <1>1, <1>2, PipelineTypeCorrect, ProgressHolds, PTL DEF Spec

\* The rerun contract (RerunSeesOriginalInputs): every run of a step, first or
\* repeated, sees the bag its first run saw.
THEOREM PipelineRerunSeesOriginalInputs == Spec => []RerunSeesOriginalInputs
<1>1. Replay => RerunSeesOriginalInputs
  BY DEF Replay, RerunSeesOriginalInputs
<1>2. QED
  BY <1>1, ReplayHolds, PTL

-----------------------------------------------------------------------------
\* A rehearsal is inert (RehearsalIsInert): under a forced plan no step runs,
\* and under a forced dry run none has side effects, whatever mode the
\* definition asked NewState for.
THEOREM PipelineRehearsalIsInert == Spec => []RehearsalIsInert
<1> DEFINE Inert == RehearsalIsInert /\ (pc # "new" /\ forced # "" => mode = "dry-run")
<1>1. Init => Inert
  BY DEF Init, RehearsalIsInert
<1>2. TypeOK /\ Progress /\ Inert /\ [Next]_vars => Inert'
  <2> SUFFICES ASSUME TypeOK, Progress, Inert, [Next]_vars PROVE Inert'
    OBVIOUS
  <2> USE DEF args, bag, hist, RehearsalIsInert
  <2>1. ASSUME NEW d \in BOOLEAN, NewState(d) PROVE Inert'
    BY <2>1 DEF NewState, AppliedMode, TypeOK, Forced
  <2>2. ASSUME NEW e, Return(e) PROVE Inert'
    BY <2>2 DEF Return
  <2>3. CASE StepStarts
    BY <2>3 DEF StepStarts, Progress
  <2>4. ASSUME NEW ok \in BOOLEAN, NEW set \in SUBSET Key, StepReturns(ok, set)
        PROVE  Inert'
    BY <2>4 DEF StepReturns, StepSets
  <2>5. ASSUME NEW a \in Answer, PauseReturns(a) PROVE Inert'
    BY <2>5 DEF PauseReturns
  <2>6. CASE Begin \/ LoopEnds \/ Finish \/ Cancel \/ UNCHANGED vars
    BY <2>6 DEF Begin, LoopEnds, Finish, Cancel, vars
  <2>7. QED
    BY <2>1, <2>2, <2>3, <2>4, <2>5, <2>6
    DEF Next, Engine, StepRun, Reject, PrintPlan, PlanFails
<1>3. Inert => RehearsalIsInert
  OBVIOUS
<1>4. QED
  BY <1>1, <1>2, <1>3, PipelineTypeCorrect, ProgressHolds, PTL DEF Spec

-----------------------------------------------------------------------------
\* A step begins only through StepStarts, which looks at ctx.
LEMMA NoStepBegins == Next /\ cancelled => runs' = runs
<1> SUFFICES ASSUME Next, cancelled PROVE runs' = runs
  OBVIOUS
<1> USE DEF hist
<1>1. ASSUME NEW d \in BOOLEAN, NewState(d) PROVE runs' = runs
  BY <1>1 DEF NewState
<1>2. ASSUME NEW e, Return(e) PROVE runs' = runs
  BY <1>2 DEF Return
<1>3. ~StepStarts
  BY DEF StepStarts, Interrupted
<1>4. ASSUME NEW ok \in BOOLEAN, NEW set \in SUBSET Key, StepReturns(ok, set)
      PROVE  runs' = runs
  BY <1>4 DEF StepReturns
<1>5. ASSUME NEW a \in Answer, PauseReturns(a) PROVE runs' = runs
  BY <1>5 DEF PauseReturns
<1>6. CASE Begin \/ LoopEnds \/ Finish \/ Cancel
  BY <1>6 DEF Begin, LoopEnds, Finish, Cancel
<1>7. QED
  BY <1>1, <1>2, <1>3, <1>4, <1>5, <1>6
  DEF Next, Engine, StepRun, Reject, PrintPlan, PlanFails

\* Cancellation is final (NoStepAfterCancel): from the signal on no step begins,
\* neither the next one nor one that an operator asks to have run again.
THEOREM PipelineNoStepAfterCancel == Spec => NoStepAfterCancel
<1>1. [Next]_vars => [cancelled => runs' = runs]_vars
  BY NoStepBegins
<1>2. QED
  BY <1>1, PTL DEF Spec, NoStepAfterCancel

-----------------------------------------------------------------------------
\* The engine has no loop of its own (Descends): a natural number bounds what is
\* left of a run, every step lessens it except an answered rerun, and once ctx is
\* cancelled no step begins.
THEOREM PipelineDescends == Spec => Descends
<1>1. TypeOK /\ Next => PauseReturns("rerun") \/ ToDo' \in 0 .. ToDo - 1
  <2> SUFFICES ASSUME TypeOK, Next, ~PauseReturns("rerun") PROVE ToDo' \in 0 .. ToDo - 1
    OBVIOUS
  <2>1. /\ Total \in Nat /\ i \in 1 .. Total + 1 /\ pc \in PC /\ cancelled \in BOOLEAN
        /\ pc \in {"running", "paused"} => i <= Total
    BY PipeShape DEF TypeOK, Total
  <2>2. UNCHANGED pipe => Total' = Total
    BY DEF Total
  <2> DEFINE Ahead(n) == 7 * (Total + 1 - n)
  <2> DEFINE Pending(c) == IF c THEN 0 ELSE 1
  <2>3. ASSUME UNCHANGED <<pipe, cancelled>>, pc # pc', pc' \in PC,
               \/ i' = i /\ Stage' < Stage
               \/ i <= Total /\ i' = i + 1
        PROVE  ToDo' \in 0 .. ToDo - 1
    <3>1. Stage \in 0 .. 6 /\ Stage' \in 0 .. 6
      BY <2>1, <2>3 DEF Stage, PC
    <3>2. ToDo = Ahead(i) + Stage + Pending(cancelled)
      BY DEF ToDo
    <3>3. ToDo' = Ahead(i') + Stage' + Pending(cancelled)
      BY <2>2, <2>3 DEF ToDo
    <3>4. Pending(cancelled) \in 0 .. 1
      BY <2>1
    <3> HIDE DEF Pending
    <3>5. QED
      BY <2>1, <2>3, <3>1, <3>2, <3>3, <3>4
  <2> USE DEF args, PC
  <2>4. ASSUME NEW d \in BOOLEAN, NewState(d) PROVE ToDo' \in 0 .. ToDo - 1
    BY <2>3, <2>4 DEF NewState, Stage
  <2>5. ASSUME NEW r, Return(r) PROVE ToDo' \in 0 .. ToDo - 1
    BY <2>3, <2>5 DEF Return, Stage
  <2>6. CASE Begin \/ LoopEnds \/ Finish
    BY <2>3, <2>6 DEF Begin, LoopEnds, Leave, Finish, Stage
  <2>7. CASE StepStarts
    BY <2>3, <2>7 DEF StepStarts, Stage
  <2>8. ASSUME NEW ok \in BOOLEAN, NEW set \in SUBSET Key, StepReturns(ok, set)
        PROVE  ToDo' \in 0 .. ToDo - 1
    <3>1. /\ UNCHANGED <<pipe, cancelled>> /\ pc = "running"
          /\ \/ pc' \in {"paused", "finish"} /\ i' = i
             \/ pc' = "top" /\ i' = i + 1
      BY <2>8 DEF StepReturns, Advance, Leave
    <3>2. QED
      BY <2>1, <2>3, <3>1 DEF Stage
  <2>9. ASSUME NEW a \in Answer, PauseReturns(a) PROVE ToDo' \in 0 .. ToDo - 1
    <3>1. a # "rerun"
      BY <2>9
    <3>2. /\ UNCHANGED <<pipe, cancelled>> /\ pc = "paused"
          /\ \/ pc' = "finish" /\ i' = i
             \/ pc' = "top" /\ i' = i + 1
      BY <2>9, <3>1 DEF PauseReturns, MoveOn, Advance, Leave
    <3>3. QED
      BY <2>1, <2>3, <3>2 DEF Stage
  <2>10. CASE Cancel
    <3>1. UNCHANGED <<pipe, pc, i>> /\ ~cancelled /\ cancelled'
      BY <2>10 DEF Cancel
    <3>2. Stage \in 0 .. 6 /\ Stage' = Stage
      BY <2>1, <3>1 DEF Stage
    <3>3. Pending(cancelled) = 1 /\ Pending(cancelled') = 0
      BY <3>1
    <3>4. ToDo = Ahead(i) + Stage + Pending(cancelled)
      BY DEF ToDo
    <3>5. ToDo' = Ahead(i) + Stage + Pending(cancelled')
      <4>1. Total' = Total /\ i' = i
        BY <2>2, <3>1
      <4>2. ToDo' = 7 * (Total' + 1 - i') + Stage' + Pending(cancelled')
        BY Zenon DEF ToDo
      <4> HIDE DEF Pending
      <4>3. QED
        BY <3>2, <4>1, <4>2
    <3>6. QED
      BY <2>1, <3>2, <3>3, <3>4, <3>5
  <2>11. QED
    BY <2>4, <2>5, <2>6, <2>7, <2>8, <2>9, <2>10
    DEF Next, Engine, StepRun, Reject, PrintPlan, PlanFails
<1>2. TypeOK /\ [Next]_vars => [/\ PauseReturns("rerun") \/ ToDo' \in 0 .. ToDo - 1
                                /\ cancelled => runs' = runs]_vars
  BY <1>1, NoStepBegins
<1>3. QED
  BY <1>2, PipelineTypeCorrect, PTL DEF Spec, Descends

-----------------------------------------------------------------------------
(* Part 2: DebugSession.                                                    *)

\* What travels between the two processes, and what the client keeps.
WireOK ==
    /\ events \in Seq(Event) /\ controls \in Seq(Control)
    /\ shown \in Event /\ client \in {"away", "reading", "prompt", "gone"}
    /\ serial \in Nat /\ answered \in Nat /\ reruns \in Nat

\* Every step but one that begins now was let through by an answer.
Paced ==
    /\ pc \in {"new", "run"} => runs = 0
    /\ dbg /\ pauseOnSuccess =>
           /\ runs <= answered + 1
           /\ pc = "top" /\ i <= Total => runs <= answered

\* Nothing is said of the end before the end.
Candid ==
    /\ \A e \in Elems(events) : e.kind = "finished" => pc = "done" /\ (e.failed \/ result = "ok")
    /\ verdict = "ok" => pc = "done" /\ result = "ok"
    /\ armed /\ ~dbg /\ pc # "new" => openErr
    /\ exit = "ok" => pc = "new" \/ (pc = "done" /\ ~openErr /\ result \in {"ok", "planned"})

\* n and s name a pause as good as the engine knows it: an earlier one, or the
\* one it is at.
Dated(n, s) ==
    /\ pc \in {"new", "run", "top", "running"} => n < i
    /\ pc = "paused" => n <= i /\ (n = i => s = serial)

\* Until a rerun is asked for, positions tell pauses apart.
Fresh ==
    reruns = 0 =>
        /\ \A e \in Elems(events) : e.kind = "paused" => Dated(e.n, e.serial)
        /\ Dated(shown.n, shown.serial)
        /\ \A c \in Elems(controls) : c.cmd # "rerun" /\ Dated(c.ack, c.serial)

\* Pauses are announced in order, and the one the engine is at is the last
\* thing it said.
Announced ==
    /\ shown.serial <= serial
    /\ \A m \in DOMAIN events : events[m].kind = "paused" =>
           /\ shown.serial < events[m].serial /\ events[m].serial <= serial
           /\ \A h \in DOMAIN events :
                  h > m /\ events[h].kind = "paused" => events[h].serial > events[m].serial
           /\ pc = "paused" /\ events[m].serial = serial => m = Len(events)
    /\ pc = "paused" /\ shown.serial = serial => events = <<>>

\* What the engine knows of step n, and what an event about it says.
Outcome(n) ==
    IF pc = "running" /\ n = i THEN "running"
    ELSE IF last[n] = "never" THEN "" ELSE IF last[n] = "ok" THEN "ok" ELSE "FAILED"

Told(e) ==
    CASE e.kind = "start" -> "running" [] e.kind = "done" -> "ok"
      [] e.kind = "paused" -> IF e.failed THEN "FAILED" ELSE "ok"

About(e, n) == e.kind \in {"start", "done", "paused"} /\ e.n = n

\* The last event about step n among es says o; st is o if there is none.
Truthful(es, st, o, n) ==
    /\ (\A m \in DOMAIN es : ~About(es[m], n)) => st = o
    /\ \A m \in DOMAIN es : About(es[m], n) =>
           Told(es[m]) = o \/ \E h \in DOMAIN es : h > m /\ About(es[h], n)

\* The screen shows each step's outcome, or will when it has read what is on its way.
Screen ==
    (dbg \/ pc = "new") /\ ~Gone =>
        \A n \in DOMAIN pipe : Truthful(events, status[n], Outcome(n), n)

StatusOK == status \in [DOMAIN pipe -> {"", "running", "ok", "FAILED"}]

-----------------------------------------------------------------------------
(* Sequences.                                                               *)

\* What two queues hold together is in one of them.
LEMMA ElemsConcat ==
  ASSUME NEW S, NEW s \in Seq(S), NEW t \in Seq(S)
  PROVE  Elems(s \o t) \subseteq Elems(s) \cup Elems(t)
<1> SUFFICES ASSUME NEW n \in DOMAIN (s \o t) PROVE (s \o t)[n] \in Elems(s) \cup Elems(t)
  BY DEF Elems
<1>1. CASE n <= Len(s)
  <2>1. n \in DOMAIN s /\ (s \o t)[n] = s[n]
    BY <1>1
  <2>2. QED
    BY <2>1 DEF Elems
<1>2. CASE n > Len(s)
  <2>1. n - Len(s) \in DOMAIN t /\ (s \o t)[n] = t[n - Len(s)]
    BY <1>2
  <2>2. QED
    BY <2>1 DEF Elems
<1>3. QED
  BY <1>1, <1>2

\* A queue with one more in it holds that one and the old ones.
LEMMA ElemsAppend ==
  ASSUME NEW S, NEW s \in Seq(S), NEW x \in S
  PROVE  Elems(Append(s, x)) \subseteq Elems(s) \cup {x}
<1> SUFFICES ASSUME NEW n \in DOMAIN Append(s, x) PROVE Append(s, x)[n] \in Elems(s) \cup {x}
  BY DEF Elems
<1>1. CASE n <= Len(s)
  <2>1. n \in DOMAIN s /\ Append(s, x)[n] = s[n]
    BY <1>1
  <2>2. QED
    BY <2>1 DEF Elems
<1>2. CASE n > Len(s)
  BY <1>2
<1>3. QED
  BY <1>1, <1>2

\* Taking the head of a queue leaves what was in it.
LEMMA ElemsTail ==
  ASSUME NEW S, NEW s \in Seq(S), s # <<>>
  PROVE  Head(s) \in Elems(s) /\ Head(s) \in S /\ Tail(s) \in Seq(S) /\ Elems(Tail(s)) \subseteq Elems(s)
<1>1. 1 \in DOMAIN s /\ Head(s) = s[1] /\ Tail(s) \in Seq(S)
  OBVIOUS
<1>2. ASSUME NEW n \in DOMAIN Tail(s) PROVE Tail(s)[n] \in Elems(s)
  <2>1. n + 1 \in DOMAIN s /\ Tail(s)[n] = s[n + 1]
    BY <1>1
  <2>2. QED
    BY <2>1 DEF Elems
<1>3. QED
  BY <1>1, <1>2 DEF Elems

-----------------------------------------------------------------------------
(* The ways a session moves.                                                *)

Hush == UNCHANGED <<controls, cli, serial, answered>>

\* Nobody says anything, and no step begins or ends.
Calm ==
    /\ UNCHANGED <<pipe, i, runs, last, pauseOnSuccess, wire, shown, status, serial, answered, reruns>>
    /\ client' \in {"away", "reading", "prompt", "gone"} /\ (Gone => client' = "gone")
    /\ client' = "prompt" => client = "prompt"
    /\ \/ pc' = pc /\ dbg' = dbg
       \/ pc = "new" /\ pc' = "run"
       \/ pc \in {"run", "top", "paused"} /\ pc' \in {"finish", "done"} /\ dbg' = dbg

\* The client answers the pause it last saw.
Sends(a) ==
    /\ SendControl(a) /\ ~Gone /\ client' = "reading"
    /\ UNCHANGED <<vars, events, shown, status, serial, answered>>

Speaks ==
    \/ Begin /\ Send(<<Ev("plan", 0, FALSE, 0)>>) /\ Hush
    \/ StepStarts /\ Send(<<Ev("start", i, FALSE, 0)>>) /\ Hush
    \/ Finish /\ Send(Farewell) /\ Hush

\* Every step of a session is one of a few kinds: the invariants below are
\* checked kind by kind.
LEMMA Ways ==
  ASSUME WireOK, [SessionNext]_svars
  PROVE  \/ Calm \/ Speaks \/ StepProcess \/ Discard \/ Obey \/ ReadEvent
         \/ \E a \in Action : Sends(a)
<1> USE DEF Calm, Gone, wire, cli, srv, vars, args, bag, hist
<1>0. client \in {"away", "reading", "prompt", "gone"}
  BY DEF WireOK
<1>1. ASSUME NEW ok \in BOOLEAN, TargetEnds(ok) PROVE Calm
  BY <1>0, <1>1 DEF TargetEnds
<1>2. CASE AcceptStarts \/ WatcherStops \/ WatcherFires \/ Exit
  BY <1>0, <1>2 DEF AcceptStarts, WatcherStops, WatcherFires, Exit
<1>3. CASE Unarmed \/ AcceptClient \/ AcceptFails
  BY <1>0, <1>3 DEF Unarmed, AcceptClient, AcceptFails, NewState
<1>4. CASE Prepare
  <2>1. ASSUME NEW e, Return(e), UNCHANGED events, Hush PROVE Calm
    BY <1>0, <2>1 DEF Return, Hush
  <2>2. QED
    BY <1>4, <2>1 DEF Prepare, Speaks, Hush, Reject, PrintPlan, PlanFails
<1>5. CASE Walk
  <2>1. ASSUME LoopEnds, UNCHANGED events, Hush PROVE Calm
    BY <1>0, <2>1 DEF LoopEnds, Leave, Hush
  <2>2. QED
    BY <1>5, <2>1 DEF Walk, Speaks, Hush
<1>6. CASE Lost
  BY <1>0, <1>6 DEF Lost, LostAnswer, PauseReturns, Leave
<1>7. CASE Goodbye
  BY <1>7 DEF Goodbye, Speaks, Hush
<1>8. CASE Signal
  BY <1>0, <1>8 DEF Signal, Cancel
<1>9. CASE Dial \/ ReadEOF \/ Vanish
  BY <1>0, <1>9 DEF Dial, ReadEOF, Vanish, Leaves
<1>10. ASSUME NEW a \in Action, Prompt(a) PROVE Calm \/ Sends(a)
  BY <1>0, <1>10 DEF Prompt, Leaves, Sends
<1>11. ASSUME NEW a \in Action, Types(a) PROVE Sends(a)
  BY <1>11 DEF Types, Sends
<1>12. CASE UNCHANGED svars
  BY <1>0, <1>12 DEF svars
<1>13. QED
  BY <1>1, <1>2, <1>3, <1>4, <1>5, <1>6, <1>7, <1>8, <1>9, <1>10, <1>11, <1>12
  DEF SessionNext, Server, Client

-----------------------------------------------------------------------------
(* A supervised run is a run.                                               *)

\* An event as the server makes it is an event.
LEMMA EventShape ==
  ASSUME NEW kind \in {"plan", "start", "done", "paused", "finished"},
         NEW n \in Nat, NEW failed \in BOOLEAN, NEW s \in Nat
  PROVE  Ev(kind, n, failed, s) \in Event
BY DEF Ev, Event

\* A step of a session is a step of the engine, or leaves it alone.
LEMMA SessionStepIsRunStep == WireOK /\ [SessionNext]_svars => [Next]_vars
<1> SUFFICES ASSUME WireOK, [SessionNext]_svars PROVE [Next]_vars
  OBVIOUS
<1>1. CASE Unarmed \/ AcceptClient \/ AcceptFails
  BY <1>1 DEF Unarmed, AcceptClient, AcceptFails, Next
<1>2. CASE Prepare \/ Walk \/ Goodbye \/ Signal
  BY <1>2 DEF Prepare, Walk, Goodbye, Signal, Next, Engine
<1>3. CASE StepProcess
  BY <1>3 DEF StepProcess, StepEnds, Next, StepRun
<1>4. CASE Obey
  <2>1. Head(controls) \in Control
    BY <1>4, ElemsTail DEF Obey, WireOK
  <2>2. Head(controls).cmd \in Answer
    BY <2>1 DEF Control, Answer
  <2>3. QED
    BY <1>4, <2>2 DEF Obey, Next
<1>5. CASE Lost
  BY <1>5 DEF Lost, LostAnswer, Next, Answer
<1>6. CASE AcceptStarts \/ WatcherStops \/ WatcherFires \/ Exit \/ Discard
  BY <1>6 DEF AcceptStarts, WatcherStops, WatcherFires, Exit, Discard
<1>7. CASE ReadEvent \/ ReadEOF \/ Dial \/ Vanish
  BY <1>7 DEF ReadEvent, ReadEOF, Dial, Vanish
<1>8. ASSUME NEW a \in Action, Prompt(a) \/ Types(a) PROVE UNCHANGED vars
  BY <1>8 DEF Prompt, Types
<1>9. ASSUME NEW ok \in BOOLEAN, TargetEnds(ok) PROVE UNCHANGED vars
  BY <1>9 DEF TargetEnds
<1>10. CASE UNCHANGED svars
  BY <1>10 DEF svars
<1>11. QED
  BY <1>1, <1>2, <1>3, <1>4, <1>5, <1>6, <1>7, <1>8, <1>9, <1>10
  DEF SessionNext, Server, Client

\* What the pipeline's process says when a step ends.
Report(ok) ==
    (IF ok THEN <<Ev("done", i, FALSE, 0)>> ELSE <<>>)
        \o (IF Pauses(ok) THEN <<Ev("paused", i, ~ok, serial + 1)>> ELSE <<>>)

\* What the server reports of a step is a queue of events.
LEMMA ReportShape ==
  ASSUME TypeOK, WireOK, NEW ok \in BOOLEAN
  PROVE  /\ Report(ok) \in Seq(Event)
         /\ \A e \in Elems(Report(ok)) :
                /\ e.kind # "finished"
                /\ e.kind = "paused" => Pauses(ok) /\ e.n = i /\ e.serial = serial + 1
<1>1. i \in Nat /\ serial + 1 \in Nat /\ 0 \in Nat
  BY DEF TypeOK, WireOK
<1>2. (~ok) \in BOOLEAN /\ FALSE \in BOOLEAN
  BY Zenon
<1> DEFINE d == Ev("done", i, FALSE, 0)
           p == Ev("paused", i, ~ok, serial + 1)
<1>3. d \in Event /\ p \in Event
  BY <1>1, <1>2, EventShape, Zenon
<1>4. d.kind = "done" /\ p.kind = "paused" /\ p.n = i /\ p.serial = serial + 1
  BY DEF Ev
<1> DEFINE s == IF ok THEN <<d>> ELSE <<>>
           t == IF Pauses(ok) THEN <<p>> ELSE <<>>
<1>5. Report(ok) = s \o t
  BY Zenon DEF Report
<1> HIDE DEF d, p
<1>6. \A e \in Event : <<e>> \in Seq(Event) /\ Elems(<<e>>) = {e}
  BY DEF Elems
<1>7. <<>> \in Seq(Event) /\ Elems(<<>>) = {}
  BY DEF Elems
<1>8. s \in Seq(Event) /\ Elems(s) \subseteq {d}
  BY <1>3, <1>6, <1>7
<1>9. t \in Seq(Event) /\ Elems(t) \subseteq {p} /\ (Elems(t) # {} => Pauses(ok))
  BY <1>3, <1>6, <1>7
<1> HIDE DEF s, t
<1>10. s \o t \in Seq(Event) /\ Elems(s \o t) \subseteq Elems(s) \cup Elems(t)
  BY <1>8, <1>9, ElemsConcat
<1>11. QED
  BY <1>4, <1>5, <1>8, <1>9, <1>10

\* The queues and the panel keep their types.
LEMMA WireStep == TypeOK /\ WireOK /\ [SessionNext]_svars => WireOK'
<1> SUFFICES ASSUME TypeOK, WireOK, [SessionNext]_svars PROVE WireOK'
  OBVIOUS
<1>t. i \in Nat /\ serial \in Nat /\ events \in Seq(Event) /\ controls \in Seq(Control) /\ shown \in Event
  BY DEF TypeOK, WireOK
<1>e. ASSUME NEW es \in Seq(Event), Send(es) PROVE events' \in Seq(Event)
  BY <1>t, <1>e DEF Send
<1>s. ASSUME NEW e \in Event PROVE <<e>> \in Seq(Event)
  OBVIOUS
<1>1. CASE Calm
  BY <1>1 DEF Calm, WireOK, wire
<1>2. CASE Speaks
  <2>1. /\ Ev("plan", 0, FALSE, 0) \in Event /\ Ev("start", i, FALSE, 0) \in Event
        /\ Ev("finished", 0, result # "ok", 0) \in Event
    BY <1>t, EventShape
  <2>2. events' \in Seq(Event)
    BY <1>2, <1>e, <1>s, <2>1 DEF Speaks, Farewell
  <2>3. Hush
    BY <1>2 DEF Speaks
  <2>4. QED
    BY <2>2, <2>3 DEF WireOK, Hush, cli
<1>3. ASSUME NEW ok \in BOOLEAN, NEW set \in SUBSET Key, StepEnds(ok, set) PROVE WireOK'
  <2>2. Report(ok) \in Seq(Event)
    BY ReportShape
  <2>3. Send(Report(ok))
    BY <1>3 DEF StepEnds, Report
  <2>4. events' \in Seq(Event)
    BY <1>e, <2>2, <2>3
  <2>5. QED
    BY <1>3, <2>4 DEF StepEnds, WireOK, cli
<1>4. CASE Discard \/ Obey
  <2>1. controls' \in Seq(Control)
    BY <1>4, <1>t, ElemsTail DEF Discard, Obey
  <2>2. QED
    BY <1>4, <2>1 DEF Discard, Obey, WireOK, cli
<1>5. CASE ReadEvent
  <2>1. events' \in Seq(Event) /\ Head(events) \in Event
    BY <1>5, <1>t, ElemsTail DEF ReadEvent
  <2>2. shown' \in Event /\ client' \in {"away", "reading", "prompt", "gone"}
    BY <1>5, <1>t, <2>1 DEF ReadEvent, Leaves
  <2>3. QED
    BY <1>5, <2>1, <2>2 DEF ReadEvent, WireOK
<1>6. ASSUME NEW a \in Action, Sends(a) PROVE WireOK'
  <2>1. [cmd |-> a, ack |-> shown.n, serial |-> shown.serial] \in Control
    BY <1>t DEF Control, Event
  <2>2. controls' \in Seq(Control) /\ reruns' \in Nat
    BY <1>6, <1>t, <2>1 DEF Sends, SendControl, WireOK
  <2>3. QED
    BY <1>6, <2>2 DEF Sends, WireOK
<1>7. QED
  BY <1>1, <1>2, <1>3, <1>4, <1>5, <1>6, Ways DEF StepProcess

\* A session keeps the engine's types and its own.
LEMMA SessionTypes == SessionSpec => []TypeOK /\ []WireOK
<1>1. SessionInit => WireOK
  <2>1. NoPause \in Event
    BY EventShape DEF NoPause
  <2>2. <<>> \in Seq(Event) /\ <<>> \in Seq(Control)
    OBVIOUS
  <2>3. 0 \in Nat
    OBVIOUS
  <2>4. QED
    BY <2>1, <2>2, <2>3, Zenon DEF SessionInit, WireOK
<1>2. SessionInit => TypeOK
  BY TypeStart DEF SessionInit
<1>3. TypeOK /\ WireOK /\ [SessionNext]_svars => TypeOK' /\ WireOK'
  BY WireStep, SessionStepIsRunStep, TypeStep
<1>4. QED
  BY <1>1, <1>2, <1>3, PTL DEF SessionSpec

\* Under supervision the engine does nothing that it could not do without: what
\* is proved of every run holds of this one.
THEOREM SessionImplementsPipeline == SessionSpec => Spec
<1>1. SessionInit => Init
  BY DEF SessionInit
<1>2. QED
  BY <1>1, SessionStepIsRunStep, SessionTypes, PTL DEF SessionSpec, Spec

-----------------------------------------------------------------------------
\* Consent's strengthening is kept: no step begins without an answer.
LEMMA PacedStep == TypeOK /\ WireOK /\ Paced /\ [SessionNext]_svars => Paced'
<1> SUFFICES ASSUME TypeOK, WireOK, Paced, [SessionNext]_svars PROVE Paced'
  OBVIOUS
<1>t. runs \in Nat /\ answered \in Nat /\ Total \in Nat /\ i \in Nat
  BY PipeShape DEF TypeOK, WireOK, Total
<1> USE DEF Paced, Total
<1>1. CASE Calm
  BY <1>1, <1>t DEF Calm
<1>2. CASE Speaks
  BY <1>2, <1>t DEF Speaks, Begin, StepStarts, Finish, Hush, args, bag, hist
<1>3. ASSUME NEW ok \in BOOLEAN, NEW set \in SUBSET Key, StepEnds(ok, set) PROVE Paced'
  BY <1>3, <1>t DEF StepEnds, StepReturns, Pauses, Advance, Leave, args, TypeOK
<1>4. CASE Discard \/ ReadEvent
  BY <1>4 DEF Discard, ReadEvent, vars, args, hist
<1>5. CASE Obey
  BY <1>5, <1>t DEF Obey, PauseReturns, MoveOn, Rerun, Advance, Leave, args, hist
<1>6. ASSUME NEW a \in Action, Sends(a) PROVE Paced'
  BY <1>6 DEF Sends, vars, args, hist
<1>7. QED
  BY <1>1, <1>2, <1>3, <1>4, <1>5, <1>6, Ways DEF StepProcess

\* Supervision (debugger.go's pauses, serve.go's controls): as long as nobody
\* said continue, at most one step more has run than pauses were answered,
\* whatever keys were queued, and whether or not the client is still there.
THEOREM SessionConsent == SessionSpec => []Consent
<1>1. SessionInit => Paced
  BY DEF SessionInit, Init, Paced
<1>2. Paced => Consent
  BY DEF Paced, Consent
<1>3. QED
  BY <1>1, <1>2, PacedStep, SessionTypes, PTL DEF SessionSpec

-----------------------------------------------------------------------------
\* A run that has returned has returned.
LEMMA DoneStays == [Next]_vars /\ pc = "done" => pc' = "done" /\ result' = result
<1> SUFFICES ASSUME [Next]_vars, pc = "done" PROVE pc' = "done" /\ result' = result
  OBVIOUS
<1>1. CASE Cancel \/ UNCHANGED vars
  BY <1>1 DEF Cancel, vars
<1>2. CASE Engine \/ StepRun \/ (\E d \in BOOLEAN : NewState(d)) \/ \E a \in Answer : PauseReturns(a)
  BY <1>2 DEF Engine, StepRun, NewState, StepReturns, PauseReturns, Reject, PrintPlan, PlanFails,
              Return, Begin, LoopEnds, StepStarts, Finish
<1>3. QED
  BY <1>1, <1>2 DEF Next

\* No kind of step announces an end that has not come.
LEMMA CandidEvents ==
  ASSUME TypeOK, WireOK, Candid, [SessionNext]_svars
  PROVE  \A e \in Elems(events') : e.kind = "finished" => pc' = "done" /\ (e.failed \/ result' = "ok")
<1>1. pc = "done" => pc' = "done" /\ result' = result
  BY DoneStays, SessionStepIsRunStep
<1>2. ASSUME NEW e \in Elems(events), e.kind = "finished"
      PROVE  pc' = "done" /\ (e.failed \/ result' = "ok")
  BY <1>1, <1>2 DEF Candid
<1>3. CASE Elems(events') \subseteq Elems(events)
  BY <1>2, <1>3
<1>4. ASSUME NEW es \in Seq(Event), Send(es), \A e \in Elems(es) : e.kind # "finished"
      PROVE  \A e \in Elems(events') : e.kind = "finished" => pc' = "done" /\ (e.failed \/ result' = "ok")
  <2>1. Elems(events') \subseteq Elems(events) \cup Elems(es)
    BY <1>4, ElemsConcat DEF Send, WireOK
  <2>2. QED
    BY <1>2, <1>4, <2>1
<1>5. CASE Calm \/ Discard \/ Obey
  BY <1>3, <1>5 DEF Calm, Discard, Obey, wire
<1>6. CASE ReadEvent
  BY <1>3, <1>6, ElemsTail DEF ReadEvent, WireOK
<1>7. ASSUME NEW a \in Action, Sends(a)
      PROVE  Elems(events') \subseteq Elems(events)
  BY <1>7 DEF Sends
<1>8. ASSUME NEW e \in Event PROVE <<e>> \in Seq(Event) /\ Elems(<<e>>) = {e}
  BY DEF Elems
<1>9. ASSUME NEW ok \in BOOLEAN, NEW set \in SUBSET Key, StepEnds(ok, set)
      PROVE  \A e \in Elems(events') : e.kind = "finished" => pc' = "done" /\ (e.failed \/ result' = "ok")
  <2>1. Send(Report(ok))
    BY <1>9 DEF StepEnds, Report
  <2>2. Report(ok) \in Seq(Event) /\ \A e \in Elems(Report(ok)) : e.kind # "finished"
    BY ReportShape
  <2>3. QED
    BY <1>4, <2>1, <2>2
<1>10. CASE Speaks
  <2>1. /\ Ev("plan", 0, FALSE, 0) \in Event /\ Ev("start", i, FALSE, 0) \in Event
        /\ Ev("finished", 0, result # "ok", 0) \in Event
    <3>1. i \in Nat
      BY DEF TypeOK
    <3>2. QED
      BY <3>1, EventShape
  <2>2. Ev("plan", 0, FALSE, 0).kind # "finished" /\ Ev("start", i, FALSE, 0).kind # "finished"
    BY DEF Ev
  <2>3. CASE Finish /\ Send(Farewell)
    <3>0. Farewell \in Seq(Event)
      BY <2>1, <1>8 DEF Farewell
    <3>1. Elems(events') \subseteq Elems(events) \cup Elems(Farewell)
      <4>1. events' = events \o Farewell \/ events' = events
        BY <2>3 DEF Send
      <4>2. QED
        BY <3>0, <4>1, ElemsConcat DEF WireOK
    <3>2. pc' = "done" /\ result' = result
      BY <2>3 DEF Finish
    <3>3. ASSUME NEW e \in Elems(Farewell) PROVE e.failed \/ result = "ok"
      <4>1. e = Ev("finished", 0, result # "ok", 0)
        BY <1>8, <2>1 DEF Farewell
      <4>2. QED
        BY <4>1 DEF Ev
    <3>4. QED
      BY <1>2, <3>1, <3>2, <3>3
  <2>4. QED
    BY <1>10, <1>4, <1>8, <2>1, <2>2, <2>3 DEF Speaks
<1>11. QED
  BY <1>3, <1>5, <1>6, <1>7, <1>9, <1>10, Ways DEF StepProcess

\* HonestVerdict's strengthening is kept.
LEMMA CandidStep == TypeOK /\ WireOK /\ Candid /\ [SessionNext]_svars => Candid'
<1> SUFFICES ASSUME TypeOK, WireOK, Candid, [SessionNext]_svars
             PROVE  /\ (verdict = "ok" => pc = "done" /\ result = "ok")'
                    /\ (armed /\ ~dbg /\ pc # "new" => openErr)'
                    /\ (exit = "ok" => pc = "new" \/ (pc = "done" /\ ~openErr /\ result \in {"ok", "planned"}))'
  BY CandidEvents DEF Candid
<1>1. pc = "done" => pc' = "done" /\ result' = result
  BY DoneStays, SessionStepIsRunStep
<1> USE DEF Candid, Running, srv, cli, vars, args
<1>2. ASSUME NEW ok \in BOOLEAN, TargetEnds(ok) PROVE Candid'
  BY <1>2, CandidEvents DEF TargetEnds
<1>3. CASE AcceptStarts \/ WatcherStops \/ WatcherFires
  BY <1>3 DEF AcceptStarts, WatcherStops, WatcherFires
<1>4. CASE Exit
  <2>1. UNCHANGED <<vars, verdict, armed, openErr>> /\ pc = "done" /\ exit' = ExitCode
    BY <1>4 DEF Exit
  <2>2. ExitCode = "ok" => ~openErr /\ result \in {"ok", "planned"}
    BY Zenon DEF ExitCode
  <2>3. QED
    BY <2>1, <2>2
<1>5. CASE Unarmed \/ AcceptClient \/ AcceptFails
  <2>1. exit' = exit /\ exit = "none" /\ verdict' = verdict /\ armed' = armed
    BY <1>5 DEF Unarmed, AcceptClient, AcceptFails, Accepting
  <2>2. ~armed \/ dbg' \/ openErr'
    BY <1>5, Zenon DEF Unarmed, AcceptClient, AcceptFails, NewState
  <2>3. pc # "done"
    BY <1>5 DEF Unarmed, AcceptClient, AcceptFails, NewState
  <2>4. QED
    BY <2>1, <2>2, <2>3
<1>6. CASE Prepare \/ Walk \/ Goodbye \/ Signal \/ Lost \/ Obey
  <2>1. UNCHANGED <<srv, cli>> /\ exit = "none"
    BY <1>6 DEF Prepare, Walk, Goodbye, Signal, Lost, Obey
  <2>2. dbg' = dbg /\ (pc = "new" => pc' = "new")
    BY <1>6 DEF Prepare, Walk, Goodbye, Signal, Lost, Obey, Reject, PrintPlan, PlanFails, Return,
                Begin, LoopEnds, StepStarts, Finish, Cancel, PauseReturns
  <2>3. QED
    BY <1>1, <2>1, <2>2
<1>7. ASSUME NEW ok \in BOOLEAN, NEW set \in SUBSET Key, StepEnds(ok, set) PROVE Candid'
  BY <1>7, CandidEvents DEF StepEnds, StepReturns
<1>8. CASE Discard \/ ReadEOF \/ Dial \/ Vanish
  BY <1>8 DEF Discard, ReadEOF, Dial, Vanish, Leaves
<1>9. ASSUME NEW a \in Action, Prompt(a) \/ Types(a) PROVE Candid'
  BY <1>9, CandidEvents DEF Prompt, Types, Leaves
<1>10. CASE ReadEvent
  <2>1. Head(events) \in Elems(events) /\ UNCHANGED <<vars, srv>>
    BY <1>10, ElemsTail DEF ReadEvent, WireOK
  <2>2. verdict' = "ok" => verdict = "ok" \/ (Head(events).kind = "finished" /\ ~Head(events).failed)
    BY <1>10 DEF ReadEvent, Leaves
  <2>3. QED
    BY <2>1, <2>2
<1>11. CASE UNCHANGED svars
  BY <1>11 DEF svars
<1>12. QED
  BY <1>2, <1>3, <1>4, <1>5, <1>6, <1>7, <1>8, <1>9, <1>10, <1>11
  DEF SessionNext, Server, Client, StepProcess

\* The panel reports success only of a run that succeeded, and the process
\* exits 0 after a pipeline only when it did, supervised if that was asked,
\* however events and exits interleave.
THEOREM SessionHonestVerdict == SessionSpec => []HonestVerdict
<1>1. SessionInit => Candid
  <2> SUFFICES ASSUME SessionInit PROVE Candid
    OBVIOUS
  <2>1. events = <<>> /\ verdict = "none" /\ exit = "none"
    BY DEF SessionInit
  <2>0. Elems(events) = {}
    BY <2>1 DEF Elems
  <2>2. pc = "new"
    BY DEF SessionInit, Init
  <2>3. QED
    BY <2>0, <2>1, <2>2 DEF Candid
<1>2. Candid => HonestVerdict
  BY DEF Candid, HonestVerdict
<1>3. QED
  BY <1>1, <1>2, CandidStep, SessionTypes, PTL DEF SessionSpec

-----------------------------------------------------------------------------
\* The engine goes on to other positions, unless a rerun is obeyed.
LEMMA DatedMoves ==
  ASSUME TypeOK, WireOK, [SessionNext]_svars, ~(Obey /\ Head(controls).cmd = "rerun"),
         NEW n \in Nat, NEW s, Dated(n, s)
  PROVE  Dated(n, s)'
<1>t. i \in Nat /\ pc \in PC
  BY DEF TypeOK
<1> USE DEF Dated
<1>1. CASE Calm
  BY <1>1, <1>t DEF Calm, PC
<1>2. CASE Speaks
  BY <1>2, <1>t DEF Speaks, Begin, StepStarts, Finish, Hush
<1>3. ASSUME NEW ok \in BOOLEAN, NEW set \in SUBSET Key, StepEnds(ok, set) PROVE Dated(n, s)'
  BY <1>3, <1>t DEF StepEnds, StepReturns, Advance, Leave
<1>4. CASE Obey
  BY <1>4, <1>t DEF Obey, PauseReturns, MoveOn, Advance, Leave
<1>5. CASE Discard \/ ReadEvent
  BY <1>5 DEF Discard, ReadEvent, vars
<1>6. ASSUME NEW a \in Action, Sends(a) PROVE Dated(n, s)'
  BY <1>6 DEF Sends, vars
<1>7. QED
  BY <1>1, <1>2, <1>3, <1>4, <1>5, <1>6, Ways DEF StepProcess

\* The events a step of the pipeline's process adds.
LEMMA Uttered ==
  ASSUME TypeOK, WireOK, [SessionNext]_svars, NEW e \in Elems(events'), e.kind = "paused",
         e \notin Elems(events)
  PROVE  pc' = "paused" /\ i' = i /\ e.n = i /\ e.serial = serial'
<1>t. i \in Nat /\ events \in Seq(Event)
  BY DEF TypeOK, WireOK
<1>1. CASE Calm \/ Discard \/ Obey \/ \E a \in Action : Sends(a)
  BY <1>1 DEF Calm, Discard, Obey, Sends, wire
<1>2. CASE ReadEvent
  BY <1>2, <1>t, ElemsTail DEF ReadEvent
<1>3. CASE Speaks
  <2>1. PICK x \in Event : Send(<<x>>) /\ x.kind # "paused"
    <3>1. /\ Ev("plan", 0, FALSE, 0) \in Event /\ Ev("start", i, FALSE, 0) \in Event
          /\ Ev("finished", 0, result # "ok", 0) \in Event
      BY <1>t, EventShape
    <3>2. /\ Ev("plan", 0, FALSE, 0).kind # "paused" /\ Ev("start", i, FALSE, 0).kind # "paused"
          /\ Ev("finished", 0, result # "ok", 0).kind # "paused"
      BY DEF Ev
    <3>3. QED
      BY <1>3, <3>1, <3>2 DEF Speaks, Farewell
  <2>2. <<x>> \in Seq(Event) /\ Elems(<<x>>) = {x}
    BY DEF Elems
  <2>3. Elems(events') \subseteq Elems(events) \cup {x}
    BY <1>t, <2>1, <2>2, ElemsConcat DEF Send
  <2>4. QED
    BY <2>1, <2>3
<1>4. ASSUME NEW ok \in BOOLEAN, NEW set \in SUBSET Key, StepEnds(ok, set)
      PROVE  pc' = "paused" /\ i' = i /\ e.n = i /\ e.serial = serial'
  <2>1. Send(Report(ok)) /\ Report(ok) \in Seq(Event)
    BY <1>4, ReportShape DEF StepEnds, Report
  <2>2. e \in Elems(Report(ok))
    BY <1>t, <2>1, ElemsConcat DEF Send
  <2>3. Pauses(ok) /\ e.n = i /\ e.serial = serial + 1
    BY <2>2, ReportShape
  <2>4. QED
    BY <1>4, <2>3 DEF StepEnds, StepReturns
<1>5. QED
  BY <1>1, <1>2, <1>3, <1>4, Ways DEF StepProcess

\* FreshAnswers' invariant is kept: no answer on its way is dated later than
\* its pause.
LEMMA FreshStep == TypeOK /\ WireOK /\ Fresh /\ [SessionNext]_svars => Fresh'
<1> SUFFICES ASSUME TypeOK, WireOK, Fresh, [SessionNext]_svars, reruns' = 0
             PROVE  /\ \A e \in Elems(events') : e.kind = "paused" => Dated(e.n, e.serial)'
                    /\ Dated(shown.n, shown.serial)'
                    /\ \A c \in Elems(controls') : c.cmd # "rerun" /\ Dated(c.ack, c.serial)'
  BY DEF Fresh
<1>t. events \in Seq(Event) /\ controls \in Seq(Control) /\ shown \in Event /\ reruns \in Nat
  BY DEF WireOK
<1>0. reruns = 0
  <2>1. CASE Calm \/ Discard \/ Obey \/ ReadEvent
    BY <2>1 DEF Calm, Discard, Obey, ReadEvent, cli
  <2>2. CASE Speaks \/ StepProcess
    BY <2>2 DEF Speaks, StepProcess, StepEnds, Hush, cli
  <2>3. ASSUME NEW a \in Action, Sends(a) PROVE reruns = 0
    BY <1>t, <2>3 DEF Sends, SendControl
  <2>4. QED
    BY <2>1, <2>2, <2>3, Ways
<1>1. ~(Obey /\ Head(controls).cmd = "rerun")
  BY <1>0, <1>t, ElemsTail DEF Obey, Fresh
<1>2. ASSUME NEW e \in Elems(events), e.kind = "paused" PROVE Dated(e.n, e.serial) /\ Dated(e.n, e.serial)'
  <2>1. e \in Event
    BY <1>t, <1>2 DEF Elems
  <2>2. e.n \in Nat
    BY <2>1 DEF Event
  <2>3. QED
    BY <1>0, <1>1, <1>2, <2>2, DatedMoves DEF Fresh
<1>3. Dated(shown.n, shown.serial) /\ shown.n \in Nat
  BY <1>0, <1>t DEF Fresh, Event
<1>n. \A n \in Nat : \A s : Dated(n, s) => Dated(n, s)'
  BY <1>1, DatedMoves
<1>4. ASSUME NEW c \in Elems(controls) PROVE c.cmd # "rerun" /\ Dated(c.ack, c.serial)'
  <2>1. c \in Control
    BY <1>t, <1>4 DEF Elems
  <2>2. c.ack \in Nat
    BY <2>1 DEF Control
  <2>3. QED
    BY <1>0, <1>n, <1>4, <2>2 DEF Fresh
<1>5. \A e \in Elems(events') : e.kind = "paused" => Dated(e.n, e.serial)'
  <2> SUFFICES ASSUME NEW e \in Elems(events'), e.kind = "paused", e \notin Elems(events)
               PROVE  Dated(e.n, e.serial)'
    BY <1>2
  <2>1. pc' = "paused" /\ i' = i /\ e.n = i /\ e.serial = serial'
    BY Uttered
  <2>2. i \in Nat
    BY DEF TypeOK
  <2>3. QED
    BY <2>1, <2>2 DEF Dated
<1>6. Dated(shown.n, shown.serial)'
  <2>1. CASE shown' = shown
    BY <1>3, <1>n, <2>1 DEF Dated
  <2>2. CASE shown' # shown
    <3>1. ReadEvent
      BY <2>2, Ways DEF Calm, Speaks, StepProcess, StepEnds, Discard, Obey, Sends, Hush, cli
    <3>2. shown' \in Elems(events) /\ shown'.kind = "paused"
      BY <3>1, <2>2, <1>t, ElemsTail DEF ReadEvent
    <3>3. QED
      BY <1>2, <3>2 DEF Dated
  <2>3. QED
    BY <2>1, <2>2
<1>7. ASSUME NEW c \in Elems(controls') PROVE c.cmd # "rerun" /\ Dated(c.ack, c.serial)'
  <2>1. CASE c \in Elems(controls)
    BY <1>4, <2>1
  <2>2. CASE Calm \/ Speaks \/ StepProcess \/ ReadEvent
    BY <2>1, <2>2, <1>7 DEF Calm, Speaks, StepProcess, StepEnds, ReadEvent, Hush, wire
  <2>3. CASE Discard \/ Obey
    BY <2>1, <2>3, <1>7, <1>t, ElemsTail DEF Discard, Obey
  <2>4. ASSUME NEW a \in Action, Sends(a) PROVE c.cmd # "rerun" /\ Dated(c.ack, c.serial)'
    <3> DEFINE x == [cmd |-> a, ack |-> shown.n, serial |-> shown.serial]
    <3>1. x \in Control /\ controls' = Append(controls, x)
      BY <2>4, <1>t DEF Sends, SendControl, Control, Event
    <3>2. c \in Elems(controls) \cup {x}
      BY <3>1, <1>7, <1>t, ElemsAppend
    <3>3. a # "rerun"
      BY <1>t, <2>4 DEF Sends, SendControl
    <3>4. QED
      BY <1>3, <1>n, <2>1, <3>2, <3>3
  <2>5. QED
    BY <2>2, <2>3, <2>4, Ways
<1>8. QED
  BY <1>5, <1>6, <1>7

\* Until a rerun is asked for, every command serve.go obeys was typed by
\* someone looking at the very pause it is obeyed at: the ack rejects all
\* others, whatever is queued in either direction.
THEOREM SessionFreshAnswers == SessionSpec => FreshAnswers
<1>1. SessionInit => Fresh
  <2> SUFFICES ASSUME SessionInit PROVE Fresh
    OBVIOUS
  <2>1. events = <<>> /\ controls = <<>> /\ shown.n = 0 /\ shown.kind = "paused"
    BY DEF SessionInit, NoPause, Ev
  <2>2. Elems(events) = {} /\ Elems(controls) = {}
    BY <2>1 DEF Elems
  <2>3. pc = "new" /\ i = 1
    BY DEF SessionInit, Init
  <2>4. QED
    BY <2>1, <2>2, <2>3 DEF Fresh, Dated
<1>2. TypeOK /\ WireOK /\ Fresh /\ [SessionNext]_svars
        => [answered' # answered /\ reruns = 0 => Head(controls).serial = serial]_svars
  <2> SUFFICES ASSUME TypeOK, WireOK, Fresh, SessionNext, answered' # answered, reruns = 0
               PROVE  Head(controls).serial = serial
    OBVIOUS
  <2>1. Obey
    BY Ways DEF Calm, Speaks, StepProcess, StepEnds, Discard, ReadEvent, Sends, Hush
  <2>2. Head(controls) \in Elems(controls)
    BY <2>1, ElemsTail DEF Obey, WireOK
  <2>3. pc = "paused" /\ Head(controls).ack = i
    BY <2>1 DEF Obey, PauseReturns, Stale
  <2>4. QED
    BY <2>2, <2>3 DEF Fresh, Dated
<1>3. QED
  BY <1>1, <1>2, FreshStep, SessionTypes, PTL DEF SessionSpec, FreshAnswers

-----------------------------------------------------------------------------
\* Where each element of a concatenation comes from.
LEMMA ConcatIndex ==
  ASSUME NEW S, NEW s \in Seq(S), NEW t \in Seq(S)
  PROVE  /\ Len(s) \in Nat /\ Len(t) \in Nat /\ DOMAIN s = 1..Len(s) /\ DOMAIN t = 1..Len(t)
         /\ Len(s \o t) = Len(s) + Len(t) /\ DOMAIN (s \o t) = 1..(Len(s) + Len(t))
         /\ \A m \in DOMAIN s : m \in DOMAIN (s \o t) /\ (s \o t)[m] = s[m]
         /\ \A m \in DOMAIN t : Len(s) + m \in DOMAIN (s \o t) /\ (s \o t)[Len(s) + m] = t[m]
         /\ \A m \in DOMAIN (s \o t) :
                m \in DOMAIN s \/ \E x \in DOMAIN t : m = Len(s) + x
<1>1. /\ Len(s) \in Nat /\ Len(t) \in Nat /\ DOMAIN s = 1..Len(s) /\ DOMAIN t = 1..Len(t)
      /\ Len(s \o t) = Len(s) + Len(t) /\ DOMAIN (s \o t) = 1..(Len(s) + Len(t))
  OBVIOUS
<1>2. \A m \in DOMAIN s : m \in DOMAIN (s \o t) /\ (s \o t)[m] = s[m]
  OBVIOUS
<1>3. \A m \in DOMAIN t : Len(s) + m \in DOMAIN (s \o t) /\ (s \o t)[Len(s) + m] = t[m]
  BY <1>1
<1>4. ASSUME NEW m \in DOMAIN (s \o t), m \notin DOMAIN s PROVE \E x \in DOMAIN t : m = Len(s) + x
  <2>1. m - Len(s) \in DOMAIN t /\ m = Len(s) + (m - Len(s))
    BY <1>1, <1>4
  <2>2. QED
    BY <2>1
<1>5. QED
  BY <1>1, <1>2, <1>3, <1>4

\* Where each element of a tail comes from.
LEMMA TailIndex ==
  ASSUME NEW S, NEW s \in Seq(S), s # <<>>
  PROVE  /\ Len(s) \in Nat \ {0} /\ DOMAIN s = 1..Len(s) /\ Head(s) = s[1]
         /\ Len(Tail(s)) = Len(s) - 1 /\ DOMAIN Tail(s) = 1..(Len(s) - 1)
         /\ \A m \in DOMAIN Tail(s) : m + 1 \in DOMAIN s /\ Tail(s)[m] = s[m + 1]
         /\ \A m \in DOMAIN s : m > 1 => m - 1 \in DOMAIN Tail(s) /\ Tail(s)[m - 1] = s[m]
<1>1. /\ Len(s) \in Nat \ {0} /\ DOMAIN s = 1..Len(s) /\ Head(s) = s[1]
      /\ Len(Tail(s)) = Len(s) - 1 /\ DOMAIN Tail(s) = 1..(Len(s) - 1)
  OBVIOUS
<1>2. \A m \in DOMAIN Tail(s) : m + 1 \in DOMAIN s /\ Tail(s)[m] = s[m + 1]
  BY <1>1
<1>3. ASSUME NEW m \in DOMAIN s, m > 1 PROVE m - 1 \in DOMAIN Tail(s) /\ Tail(s)[m - 1] = s[m]
  <2>1. m - 1 \in DOMAIN Tail(s) /\ (m - 1) + 1 = m
    BY <1>1, <1>3
  <2>2. QED
    BY <1>2, <2>1
<1>4. QED
  BY <1>1, <1>2, <1>3

\* Which events a report consists of, and in which order.
LEMMA ReportSays ==
  ASSUME TypeOK, WireOK, NEW ok \in BOOLEAN
  PROVE  /\ \A x \in DOMAIN Report(ok) :
                /\ About(Report(ok)[x], i)
                /\ Told(Report(ok)[x]) = IF ok THEN "ok" ELSE "FAILED"
                /\ Report(ok)[x].kind = "paused" =>
                       Pauses(ok) /\ x = Len(Report(ok)) /\ Report(ok)[x].serial = serial + 1
         /\ dbg => 1 \in DOMAIN Report(ok)
<1>1. i \in Nat /\ serial + 1 \in Nat /\ 0 \in Nat
  BY DEF TypeOK, WireOK
<1>2. (~ok) \in BOOLEAN /\ FALSE \in BOOLEAN
  BY Zenon
<1> DEFINE d == Ev("done", i, FALSE, 0)
           p == Ev("paused", i, ~ok, serial + 1)
<1>3. d \in Event /\ p \in Event
  BY <1>1, <1>2, EventShape, Zenon
<1>4. /\ d.kind = "done" /\ d.n = i
      /\ p.kind = "paused" /\ p.n = i /\ p.serial = serial + 1 /\ p.failed = ~ok
  BY DEF Ev
<1> DEFINE s == IF ok THEN <<d>> ELSE <<>>
           t == IF Pauses(ok) THEN <<p>> ELSE <<>>
<1>5. Report(ok) = s \o t
  BY Zenon DEF Report
<1> HIDE DEF d, p
<1>6. About(d, i) /\ About(p, i) /\ Told(d) = "ok" /\ Told(p) = IF ok THEN "ok" ELSE "FAILED"
  BY <1>4 DEF About, Told
<1>7. \A e \in Event : <<e>> \in Seq(Event) /\ Len(<<e>>) = 1 /\ DOMAIN <<e>> = {1} /\ <<e>>[1] = e
  OBVIOUS
<1>8. <<>> \in Seq(Event) /\ Len(<<>>) = 0 /\ DOMAIN <<>> = {}
  OBVIOUS
<1>9. s \in Seq(Event) /\ (ok => Len(s) = 1) /\ \A m \in DOMAIN s : ok /\ m = 1 /\ s[m] = d
  BY <1>3, <1>7, <1>8
<1>10. /\ t \in Seq(Event) /\ (Pauses(ok) => Len(t) = 1)
       /\ \A m \in DOMAIN t : Pauses(ok) /\ m = 1 /\ Len(t) = 1 /\ t[m] = p
  BY <1>3, <1>7, <1>8
<1>11. dbg => ok \/ Pauses(ok)
  BY DEF Pauses
<1> HIDE DEF s, t
<1>12. ASSUME NEW x \in DOMAIN (s \o t)
       PROVE  \/ ok /\ (s \o t)[x] = d
              \/ Pauses(ok) /\ x = Len(s \o t) /\ (s \o t)[x] = p
  BY <1>9, <1>10, ConcatIndex
<1>13. Len(s) \in Nat /\ Len(t) \in Nat /\ DOMAIN (s \o t) = 1..(Len(s) + Len(t))
  BY <1>9, <1>10, ConcatIndex
<1>14. dbg => 1 \in DOMAIN (s \o t)
  BY <1>9, <1>10, <1>11, <1>13
<1>15. QED
  BY <1>4, <1>5, <1>6, <1>12, <1>14

\* Saying more leaves the order of the announcements.
LEMMA AnnouncedGrows ==
  ASSUME WireOK, Announced, NEW es \in Seq(Event), events' = events \o es, shown' = shown,
         \/ serial' = serial /\ pc' # "paused"
         \/ serial' = serial + 1,
         \A x \in DOMAIN es : es[x].kind = "paused" =>
             x = Len(es) /\ es[x].serial = serial + 1 /\ serial' = serial + 1
  PROVE  Announced'
<1>t. events \in Seq(Event) /\ serial \in Nat /\ shown.serial \in Nat
  BY DEF WireOK, Event
<1>s. \A m \in DOMAIN events : events[m].serial \in Nat
  <2>1. \A m \in DOMAIN events : events[m] \in Event
    BY <1>t
  <2>2. \A e \in Event : e.serial \in Nat
    BY DEF Event
  <2>3. QED
    BY <2>1, <2>2
<1>1. /\ Len(events) \in Nat /\ Len(es) \in Nat /\ DOMAIN events = 1..Len(events)
      /\ Len(events') = Len(events) + Len(es) /\ DOMAIN es = 1..Len(es)
      /\ \A m \in DOMAIN events : m \in DOMAIN events' /\ events'[m] = events[m]
      /\ \A m \in DOMAIN events' :
             m \in DOMAIN events \/ \E x \in DOMAIN es : m = Len(events) + x
      /\ \A x \in DOMAIN es : events'[Len(events) + x] = es[x]
  BY <1>t, ConcatIndex
<1>2. ASSUME NEW m \in DOMAIN events', events'[m].kind = "paused"
      PROVE  \/ /\ m \in DOMAIN events /\ events[m].kind = "paused" /\ events'[m] = events[m]
                /\ shown.serial < events[m].serial /\ events[m].serial <= serial
             \/ m = Len(events') /\ m > Len(events) /\ events'[m].serial = serial + 1 /\ serial' = serial + 1
  <2>1. CASE m \in DOMAIN events
    BY <1>1, <1>2, <2>1 DEF Announced
  <2>2. ASSUME NEW x \in DOMAIN es, m = Len(events) + x
        PROVE  m = Len(events') /\ m > Len(events) /\ events'[m].serial = serial + 1 /\ serial' = serial + 1
    <3>1. events'[m] = es[x]
      BY <1>1, <2>2
    <3>2. x = Len(es) /\ es[x].serial = serial + 1 /\ serial' = serial + 1
      BY <3>1, <1>2
    <3>3. QED
      BY <1>1, <2>2, <3>1, <3>2
  <2>3. QED
    BY <1>1, <1>2, <2>1, <2>2
<1>3. ASSUME NEW m \in DOMAIN events', events'[m].kind = "paused"
      PROVE  /\ shown.serial < events'[m].serial /\ events'[m].serial <= serial'
             /\ \A h \in DOMAIN events' :
                    h > m /\ events'[h].kind = "paused" => events'[h].serial > events'[m].serial
             /\ pc' = "paused" /\ events'[m].serial = serial' => m = Len(events')
  <2>1. shown.serial < events'[m].serial /\ events'[m].serial <= serial'
    BY <1>2, <1>3, <1>t, <1>s DEF Announced
  <2>2. ASSUME NEW h \in DOMAIN events', h > m, events'[h].kind = "paused"
        PROVE  events'[h].serial > events'[m].serial
    <3>1. m \in DOMAIN events /\ events'[m] = events[m] /\ events[m].serial <= serial /\ events[m].kind = "paused"
      BY <1>1, <1>2, <1>3, <2>2
    <3>2. CASE h \in DOMAIN events
      BY <3>1, <3>2, <1>1, <2>2 DEF Announced
    <3>3. CASE h \notin DOMAIN events
      BY <3>1, <3>3, <1>2, <2>2, <1>t, <1>s
    <3>4. QED
      BY <3>2, <3>3
  <2>3. pc' = "paused" /\ events'[m].serial = serial' => m = Len(events')
    BY <1>2, <1>3, <1>t, <1>s
  <2>4. QED
    BY <2>1, <2>2, <2>3
<1>4. shown'.serial <= serial' /\ ~(pc' = "paused" /\ shown'.serial = serial')
  BY <1>t DEF Announced
<1>5. QED
  BY <1>3, <1>4 DEF Announced

\* What a step says between pauses.
LEMMA SpeaksOnce ==
  ASSUME TypeOK, Speaks
  PROVE  \E x \in Event :
             /\ x.kind # "paused" /\ Send(<<x>>) /\ UNCHANGED <<i, last>>
             /\ \/ (\A n : ~About(x, n)) /\ pc # "running" /\ pc' \in {"top", "done"}
                \/ pc' = "running" /\ x.kind = "start" /\ x.n = i
<1>1. i \in Nat
  BY DEF TypeOK
<1> DEFINE a == Ev("plan", 0, FALSE, 0)
           b == Ev("start", i, FALSE, 0)
           c == Ev("finished", 0, result # "ok", 0)
<1>2. a \in Event /\ b \in Event /\ c \in Event
  BY <1>1, EventShape
<1>3. a.kind = "plan" /\ b.kind = "start" /\ c.kind = "finished" /\ b.n = i
  BY DEF Ev
<1>4. CASE Begin /\ Send(<<a>>)
  <2>1. UNCHANGED <<i, last>> /\ pc # "running" /\ pc' = "top"
    BY <1>4 DEF Begin, hist
  <2> HIDE DEF a
  <2>2. QED
    BY <1>2, <1>3, <1>4, <2>1 DEF About
<1>5. CASE StepStarts /\ Send(<<b>>)
  <2>1. UNCHANGED <<i, last>> /\ pc' = "running"
    BY <1>5 DEF StepStarts
  <2> HIDE DEF b
  <2>2. QED
    BY <1>2, <1>3, <1>5, <2>1
<1>6. CASE Finish /\ Send(<<c>>)
  <2>1. UNCHANGED <<i, last>> /\ pc # "running" /\ pc' = "done"
    BY <1>6 DEF Finish, hist
  <2> HIDE DEF c
  <2>2. QED
    BY <1>2, <1>3, <1>6, <2>1 DEF About
<1>7. QED
  BY <1>4, <1>5, <1>6 DEF Speaks, Farewell

\* The order of announcements is kept.
LEMMA AnnouncedStep == TypeOK /\ WireOK /\ Announced /\ [SessionNext]_svars => Announced'
<1> SUFFICES ASSUME TypeOK, WireOK, Announced, [SessionNext]_svars PROVE Announced'
  OBVIOUS
<1>t. events \in Seq(Event) /\ serial \in Nat /\ shown.serial \in Nat
  BY DEF WireOK, Event
<1>s. \A m \in DOMAIN events : events[m].serial \in Nat
  <2>1. \A m \in DOMAIN events : events[m] \in Event
    BY <1>t
  <2>2. \A e \in Event : e.serial \in Nat
    BY DEF Event
  <2>3. QED
    BY <2>1, <2>2
<1>1. ASSUME UNCHANGED <<events, shown, serial>>, pc' = "paused" => pc = "paused" PROVE Announced'
  BY <1>1 DEF Announced
<1>2. CASE Calm \/ Discard \/ Obey \/ \E a \in Action : Sends(a)
  BY <1>1, <1>2 DEF Calm, Discard, Obey, Sends, wire, cli, vars, PauseReturns, MoveOn, Rerun, Advance, Leave
<1>3. CASE Speaks
  <2>1. PICK x \in Event : x.kind # "paused" /\ Send(<<x>>) /\ pc' # "paused"
    BY <1>3, SpeaksOnce
  <2>2. shown' = shown /\ serial' = serial
    BY <1>3 DEF Speaks, Hush, cli
  <2>3. <<x>> \in Seq(Event) /\ DOMAIN <<x>> = {1} /\ <<x>>[1] = x
    OBVIOUS
  <2>4. CASE events' = events
    BY <1>1, <2>1, <2>2, <2>4
  <2>5. CASE events' = events \o <<x>>
    BY <2>1, <2>2, <2>3, <2>5, AnnouncedGrows
  <2>6. QED
    BY <2>1, <2>4, <2>5 DEF Send
<1>4. ASSUME NEW ok \in BOOLEAN, NEW set \in SUBSET Key, StepEnds(ok, set) PROVE Announced'
  <2>1. /\ Send(Report(ok)) /\ shown' = shown
        /\ serial' = IF Pauses(ok) THEN serial + 1 ELSE serial
        /\ pc' = "paused" => Pauses(ok)
    BY <1>4 DEF StepEnds, Report, cli, StepReturns, Advance, Leave
  <2>2. Report(ok) \in Seq(Event)
    BY ReportShape
  <2>3. CASE events' = events \o Report(ok)
    BY <2>1, <2>2, <2>3, ReportSays, AnnouncedGrows
  <2>4. CASE events' = events
    <3>1. CASE Pauses(ok)
      BY <1>t, <1>s, <2>1, <2>4, <3>1 DEF Announced
    <3>2. CASE ~Pauses(ok)
      BY <1>1, <2>1, <2>4, <3>2
    <3>3. QED
      BY <3>1, <3>2
  <2>5. QED
    BY <2>1, <2>3, <2>4 DEF Send
<1>5. CASE ReadEvent
  <2>1. UNCHANGED <<pc, serial>> /\ events # <<>> /\ events' = Tail(events)
    BY <1>5 DEF ReadEvent, vars
  <2>2. \/ Head(events).kind = "paused" /\ shown' = Head(events)
        \/ Head(events).kind # "paused" /\ shown' = shown
    BY <1>5 DEF ReadEvent
  <2>3. /\ Len(events) \in Nat \ {0} /\ DOMAIN events = 1..Len(events) /\ Head(events) = events[1]
        /\ Len(events') = Len(events) - 1
        /\ \A m \in DOMAIN events' : m + 1 \in DOMAIN events /\ events'[m] = events[m + 1]
        /\ DOMAIN events' = 1..(Len(events) - 1)
    BY <1>t, <2>1, TailIndex
  <2>4. ASSUME NEW m \in DOMAIN events', events'[m].kind = "paused"
        PROVE  /\ shown'.serial < events'[m].serial /\ events'[m].serial <= serial'
               /\ \A h \in DOMAIN events' :
                      h > m /\ events'[h].kind = "paused" => events'[h].serial > events'[m].serial
               /\ pc' = "paused" /\ events'[m].serial = serial' => m = Len(events')
    <3>1. m + 1 \in DOMAIN events /\ events'[m] = events[m + 1] /\ 1 \in DOMAIN events /\ m + 1 > 1
      BY <2>3, <2>4
    <3>2. shown'.serial < events'[m].serial /\ events'[m].serial <= serial'
      BY <2>1, <2>2, <2>3, <2>4, <3>1 DEF Announced
    <3>3. ASSUME NEW h \in DOMAIN events', h > m, events'[h].kind = "paused"
          PROVE  events'[h].serial > events'[m].serial
      BY <2>3, <2>4, <3>1, <3>3 DEF Announced
    <3>4. pc' = "paused" /\ events'[m].serial = serial' => m = Len(events')
      BY <2>1, <2>3, <2>4, <3>1 DEF Announced
    <3>5. QED
      BY <3>2, <3>3, <3>4
  <2>5. shown'.serial <= serial'
    BY <2>1, <2>2, <2>3 DEF Announced
  <2>6. ASSUME pc' = "paused", shown'.serial = serial' PROVE events' = <<>>
    <3>1. Head(events).kind = "paused" /\ shown' = events[1]
      BY <2>1, <2>2, <2>3, <2>6 DEF Announced
    <3>2. Len(events) = 1
      BY <2>1, <2>3, <2>6, <3>1 DEF Announced
    <3>3. Tail(events) \in Seq(Event) /\ Len(Tail(events)) = 0
      BY <1>t, <2>1, <2>3, <3>2, ElemsTail
    <3>4. QED
      BY <2>1, <3>3
  <2>7. QED
    BY <2>4, <2>5, <2>6 DEF Announced
<1>6. QED
  BY <1>2, <1>3, <1>4, <1>5, Ways DEF StepProcess

-----------------------------------------------------------------------------
\* What is said of a step is its outcome, or nothing is said of it.
LEMMA TruthfulGrows ==
  ASSUME NEW s \in Seq(Event), NEW t \in Seq(Event), NEW n, NEW st, NEW o, NEW q,
         Truthful(s, st, o, n),
         \/ q = o /\ \A x \in DOMAIN t : ~About(t[x], n)
         \/ /\ \A x \in DOMAIN t : About(t[x], n) => Told(t[x]) = q
            /\ \E x \in DOMAIN t : About(t[x], n)
  PROVE  Truthful(s \o t, st, q, n)
<1> DEFINE u == s \o t
<1>1. /\ Len(s) \in Nat /\ DOMAIN s = 1..Len(s) /\ DOMAIN t = 1..Len(t)
      /\ \A m \in DOMAIN s : m \in DOMAIN u /\ u[m] = s[m]
      /\ \A m \in DOMAIN u : m \in DOMAIN s \/ \E x \in DOMAIN t : m = Len(s) + x
      /\ \A x \in DOMAIN t : Len(s) + x \in DOMAIN u /\ u[Len(s) + x] = t[x]
  BY ConcatIndex
<1> HIDE DEF u
<1>2. CASE q = o /\ \A x \in DOMAIN t : ~About(t[x], n)
  <2>1. \A m \in DOMAIN u : About(u[m], n) => m \in DOMAIN s /\ u[m] = s[m]
    BY <1>1, <1>2
  <2>2. (\A m \in DOMAIN u : ~About(u[m], n)) => st = q
    BY <1>1, <1>2 DEF Truthful
  <2>3. ASSUME NEW m \in DOMAIN u, About(u[m], n)
        PROVE  Told(u[m]) = q \/ \E h \in DOMAIN u : h > m /\ About(u[h], n)
    BY <1>1, <1>2, <2>1, <2>3 DEF Truthful
  <2>4. QED
    BY <2>2, <2>3 DEF Truthful, u
<1>3. CASE /\ \A x \in DOMAIN t : About(t[x], n) => Told(t[x]) = q
           /\ \E x \in DOMAIN t : About(t[x], n)
  <2>1. PICK x \in DOMAIN t : About(t[x], n)
    BY <1>3
  <2>2. Len(s) + x \in DOMAIN u /\ About(u[Len(s) + x], n)
    BY <1>1, <2>1
  <2>3. ASSUME NEW m \in DOMAIN u, About(u[m], n)
        PROVE  Told(u[m]) = q \/ \E h \in DOMAIN u : h > m /\ About(u[h], n)
    <3>1. CASE m \in DOMAIN s
      <4>1. Len(s) + x > m
        BY <1>1, <3>1
      <4>2. QED
        BY <2>2, <4>1
    <3>2. ASSUME NEW y \in DOMAIN t, m = Len(s) + y PROVE Told(u[m]) = q
      BY <1>1, <1>3, <2>3, <3>2
    <3>3. QED
      BY <1>1, <3>1, <3>2
  <2>4. QED
    BY <2>2, <2>3 DEF Truthful, u
<1>4. QED
  BY <1>2, <1>3

\* Reading one event, and painting it, is as truthful.
LEMMA TruthfulTail ==
  ASSUME NEW s \in Seq(Event), s # <<>>, NEW n, NEW st, NEW o, Truthful(s, st, o, n)
  PROVE  Truthful(Tail(s), IF About(Head(s), n) THEN Told(Head(s)) ELSE st, o, n)
<1> DEFINE t == Tail(s)
<1>1. /\ Len(s) \in Nat \ {0} /\ DOMAIN s = 1..Len(s) /\ Head(s) = s[1]
      /\ \A m \in DOMAIN t : m + 1 \in DOMAIN s /\ t[m] = s[m + 1]
      /\ DOMAIN t = 1..(Len(s) - 1)
      /\ \A m \in DOMAIN s : m > 1 => m - 1 \in DOMAIN t /\ t[m - 1] = s[m]
  BY TailIndex
<1> HIDE DEF t
<1>2. ASSUME \A m \in DOMAIN t : ~About(t[m], n)
      PROVE  o = IF About(Head(s), n) THEN Told(Head(s)) ELSE st
  <2>1. \A m \in DOMAIN s : m > 1 => ~About(s[m], n)
    BY <1>1, <1>2
  <2>2. CASE About(s[1], n)
    BY <1>1, <2>1, <2>2 DEF Truthful
  <2>3. CASE ~About(s[1], n)
    <3>1. \A m \in DOMAIN s : m = 1 \/ m > 1
      BY <1>1
    <3>2. QED
      BY <1>1, <2>1, <2>3, <3>1 DEF Truthful
  <2>4. QED
    BY <2>2, <2>3
<1>3. ASSUME NEW m \in DOMAIN t, About(t[m], n)
      PROVE  Told(t[m]) = o \/ \E h \in DOMAIN t : h > m /\ About(t[h], n)
  <2>1. m + 1 \in DOMAIN s /\ t[m] = s[m + 1]
    BY <1>1
  <2>2. ASSUME NEW h \in DOMAIN s, h > m + 1, About(s[h], n)
        PROVE  \E g \in DOMAIN t : g > m /\ About(t[g], n)
    <3>1. h - 1 \in DOMAIN t /\ t[h - 1] = s[h] /\ h - 1 > m
      BY <1>1, <2>2
    <3>2. QED
      BY <2>2, <3>1
  <2>3. QED
    BY <1>3, <2>1, <2>2 DEF Truthful
<1>4. QED
  BY <1>2, <1>3 DEF Truthful, t

\* The panel paints what it reads.
LEMMA PaintedTells ==
  ASSUME StatusOK, NEW e
  PROVE  /\ Painted(e) \in [DOMAIN pipe -> {"", "running", "ok", "FAILED"}]
         /\ \A n \in DOMAIN pipe : Painted(e)[n] = IF About(e, n) THEN Told(e) ELSE status[n]
<1>1. CASE e.kind = "start"
  BY <1>1 DEF StatusOK, Painted, About, Told
<1>2. CASE e.kind = "done"
  BY <1>2 DEF StatusOK, Painted, About, Told
<1>3. CASE e.kind = "paused"
  BY <1>3 DEF StatusOK, Painted, About, Told
<1>4. CASE e.kind \notin {"start", "done", "paused"}
  BY <1>4 DEF StatusOK, Painted, About
<1>5. QED
  BY <1>1, <1>2, <1>3, <1>4

\* Steps of the engine alone leave what the screen is compared with.
LEMMA ScreenNext ==
  ASSUME (dbg' \/ pc' = "new") /\ client' # "gone" =>
             \A n \in DOMAIN pipe' : Truthful(events', status'[n], Outcome(n)', n)
  PROVE  Screen'
BY DEF Screen, Gone, Truthful, About, Told, Outcome

\* PanelInSync's strengthening is kept.
LEMMA ScreenStep ==
  TypeOK /\ WireOK /\ StatusOK /\ Screen /\ [SessionNext]_svars => StatusOK' /\ Screen'
<1> SUFFICES ASSUME TypeOK, WireOK, StatusOK, Screen, [SessionNext]_svars PROVE StatusOK' /\ Screen'
  OBVIOUS
<1>t. events \in Seq(Event) /\ last \in [DOMAIN pipe -> {"never", "ok", "failed"}]
  BY DEF WireOK, TypeOK
<1>1. ASSUME UNCHANGED <<events, status, pipe, last>>, Gone => client' = "gone",
             (pc' = pc /\ i' = i) \/ (pc # "running" /\ pc' # "running"),
             dbg' \/ pc' = "new" => dbg \/ pc = "new"
      PROVE  StatusOK' /\ Screen'
  <2>1. \A n \in DOMAIN pipe : Outcome(n)' = Outcome(n)
    BY <1>1 DEF Outcome
  <2>2. Screen'
    BY <1>1, <2>1, ScreenNext DEF Screen, Gone
  <2>3. QED
    BY <1>1, <2>2 DEF StatusOK
<1>2. CASE Calm
  BY <1>1, <1>2 DEF Calm, wire, Gone
<1>3. CASE Obey
  <2>1. UNCHANGED <<events, status, pipe, last, dbg, client>> /\ pc = "paused" /\ pc' \in {"top", "finish"}
    BY <1>3 DEF Obey, PauseReturns, MoveOn, Rerun, Advance, Leave, cli, args, hist
  <2>2. QED
    BY <1>1, <2>1 DEF Gone
<1>4. CASE Discard \/ \E a \in Action : Sends(a)
  BY <1>1, <1>4 DEF Discard, Sends, Gone, vars, args, hist, cli
<1>5. CASE ReadEvent
  <2>1. /\ status' = Painted(Head(events)) /\ UNCHANGED <<pipe, pc, i, last, dbg>>
        /\ events # <<>> /\ events' = Tail(events) /\ ~Gone
    BY <1>5 DEF ReadEvent, vars, args, hist, Gone
  <2>2. StatusOK'
    BY <2>1, PaintedTells DEF StatusOK
  <2>3. ASSUME NEW n \in DOMAIN pipe, dbg \/ pc = "new"
        PROVE  Truthful(events', status'[n], Outcome(n)', n)
    <3>1. Outcome(n)' = Outcome(n)
      BY <2>1 DEF Outcome
    <3>2. Truthful(events, status[n], Outcome(n), n)
      BY <2>1, <2>3 DEF Screen
    <3>3. status'[n] = IF About(Head(events), n) THEN Told(Head(events)) ELSE status[n]
      BY <2>1, PaintedTells
    <3>4. QED
      BY <1>t, <2>1, <3>1, <3>2, <3>3, TruthfulTail
  <2>4. QED
    BY <2>1, <2>2, <2>3, ScreenNext
<1>6. CASE Speaks
  <2>1. /\ UNCHANGED <<status, client, pipe, dbg>> /\ pc' # "new" /\ pc # "new"
        /\ pc \in {"run", "top", "finish"}
    BY <1>6 DEF Speaks, Hush, cli, Begin, StepStarts, Finish, args
  <2>2. PICK x \in Event :
             /\ Send(<<x>>) /\ UNCHANGED <<i, last>>
             /\ \/ (\A n : ~About(x, n)) /\ pc # "running" /\ pc' \in {"top", "done"}
                \/ pc' = "running" /\ x.kind = "start" /\ x.n = i
    BY <1>6, SpeaksOnce
  <2>3. <<x>> \in Seq(Event) /\ DOMAIN <<x>> = {1} /\ <<x>>[1] = x
    OBVIOUS
  <2>4. ASSUME dbg, ~Gone, NEW n \in DOMAIN pipe
        PROVE  Truthful(events', status'[n], Outcome(n)', n)
    <3>1. events' = events \o <<x>> /\ status'[n] = status[n]
      BY <2>1, <2>2, <2>4 DEF Send
    <3>2. Truthful(events, status[n], Outcome(n), n)
      BY <2>4 DEF Screen
    <3>3. \/ Outcome(n)' = Outcome(n) /\ ~About(x, n)
          \/ Told(x) = Outcome(n)' /\ About(x, n)
      <4>1. CASE pc' = "running" /\ x.kind = "start" /\ x.n = i
        BY <2>1, <2>2, <4>1 DEF Outcome, About, Told
      <4>2. CASE (\A m : ~About(x, m)) /\ pc # "running" /\ pc' \in {"top", "done"}
        BY <2>2, <4>2 DEF Outcome
      <4>3. QED
        BY <2>2, <4>1, <4>2
    <3>4. QED
      BY <1>t, <2>3, <3>1, <3>2, <3>3, TruthfulGrows
  <2>5. QED
    BY <2>1, <2>4, ScreenNext DEF StatusOK, Gone
<1>7. ASSUME NEW ok \in BOOLEAN, NEW set \in SUBSET Key, StepEnds(ok, set)
      PROVE  StatusOK' /\ Screen'
  <2>1. /\ Send(Report(ok)) /\ UNCHANGED <<status, client, pipe, dbg>>
        /\ pc = "running" /\ pc' \in {"paused", "top", "finish"}
        /\ last' = [last EXCEPT ![i] = IF ok THEN "ok" ELSE "failed"]
    BY <1>7 DEF StepEnds, Report, cli, StepReturns, StepSets, Advance, Leave, args
  <2>2. ASSUME dbg, ~Gone, NEW n \in DOMAIN pipe
        PROVE  Truthful(events', status'[n], Outcome(n)', n)
    <3>1. events' = events \o Report(ok) /\ Report(ok) \in Seq(Event) /\ status'[n] = status[n]
      BY <2>1, <2>2, ReportShape DEF Send
    <3>2. Truthful(events, status[n], Outcome(n), n)
      BY <2>2 DEF Screen
    <3>3. /\ 1 \in DOMAIN Report(ok)
          /\ \A x \in DOMAIN Report(ok) :
                 About(Report(ok)[x], i) /\ Told(Report(ok)[x]) = IF ok THEN "ok" ELSE "FAILED"
      BY <2>2, ReportSays
    <3>4. CASE n = i
      <4>1. Outcome(n)' = IF ok THEN "ok" ELSE "FAILED"
        <5>1. last'[n] = IF ok THEN "ok" ELSE "failed"
          BY <1>t, <2>1, <2>2, <3>4
        <5>2. CASE ok
          BY <2>1, <5>1, <5>2 DEF Outcome
        <5>3. CASE ~ok
          BY <2>1, <5>1, <5>3 DEF Outcome
        <5>4. QED
          BY <5>2, <5>3
      <4>2. QED
        BY <1>t, <3>1, <3>2, <3>3, <3>4, <4>1, TruthfulGrows
    <3>5. CASE n # i
      <4>1. Outcome(n)' = Outcome(n)
        BY <1>t, <2>1, <2>2, <3>5 DEF Outcome
      <4>2. \A x \in DOMAIN Report(ok) : ~About(Report(ok)[x], n)
        BY <3>3, <3>5 DEF About
      <4>3. QED
        BY <1>t, <3>1, <3>2, <4>1, <4>2, TruthfulGrows
    <3>6. QED
      BY <3>4, <3>5
  <2>3. QED
    BY <2>1, <2>2, ScreenNext DEF StatusOK, Gone
<1>8. QED
  BY <1>2, <1>3, <1>4, <1>5, <1>6, <1>7, Ways DEF StepProcess

\* When the panel prompts for the pause the engine is at, the step list the
\* operator decides by is the engine's own record of every step, though it was
\* painted from events that arrived one at a time.
THEOREM SessionPanelInSync == SessionSpec => []PanelInSync
<1>1. SessionInit => Announced /\ StatusOK /\ Screen
  <2> SUFFICES ASSUME SessionInit PROVE Announced /\ StatusOK /\ Screen
    OBVIOUS
  <2>1. events = <<>> /\ shown.serial = 0 /\ serial = 0 /\ status = [n \in DOMAIN pipe |-> ""]
    BY DEF SessionInit, NoPause, Ev
  <2>2. pc = "new" /\ last = [n \in DOMAIN pipe |-> "never"]
    BY DEF SessionInit, Init
  <2>3. \A m \in DOMAIN events : FALSE
    <3>1. DOMAIN <<>> = {}
      OBVIOUS
    <3>2. QED
      BY <2>1, <3>1
  <2>4. Announced
    <3>0. 0 <= 0
      OBVIOUS
    <3>1. shown.serial <= serial /\ pc # "paused"
      BY <2>1, <2>2, <3>0, Zenon
    <3>2. QED
      BY <2>3, <3>1, Zenon DEF Announced
  <2>5. StatusOK
    BY <2>1 DEF StatusOK
  <2>6. \A n \in DOMAIN pipe : status[n] = Outcome(n)
    BY <2>1, <2>2 DEF Outcome
  <2>7. QED
    BY <2>3, <2>4, <2>5, <2>6 DEF Screen, Truthful
<1>2. TypeOK /\ Progress /\ Announced /\ Screen => PanelInSync
  <2> SUFFICES ASSUME TypeOK, Progress, Announced, Screen, client = "prompt", pc = "paused",
                      shown.serial = serial, NEW n \in DOMAIN pipe
               PROVE  status[n] = Outcome(n)
    BY DEF PanelInSync, Outcome, TypeOK
  <2>1. events = <<>> /\ dbg
    BY DEF Announced, Progress
  <2>2. \A m \in DOMAIN events : FALSE
    <3>1. DOMAIN <<>> = {}
      OBVIOUS
    <3>2. QED
      BY <2>1, <3>1
  <2>3. QED
    BY <2>1, <2>2 DEF Screen, Gone, Truthful
<1>3. SessionSpec => []Progress
  BY SessionImplementsPipeline, ProgressHolds, PTL
<1>4. QED
  BY <1>1, <1>2, <1>3, AnnouncedStep, ScreenStep, SessionTypes, PTL DEF SessionSpec

-----------------------------------------------------------------------------
(* Part 3: Deploy.                                                          *)

\* One step of a deploy is a step of the engine or leaves it alone.
LEMMA StepIsEngineStep == TypeOK /\ [DeployNext]_deployVars => [Next]_vars
<1> SUFFICES ASSUME TypeOK, [DeployNext]_deployVars PROVE [Next]_vars
  OBVIOUS
<1>1. ASSUME NEW ok \in BOOLEAN, NEW set, StepReturns(ok, set) PROVE Next
  <2>1. pipe[i] \in Step
    BY <1>1, PipeShape DEF TypeOK, StepReturns
  <2>2. Elems(pipe[i].provides) \subseteq Key
    BY <2>1 DEF Step, Elems
  <2>3. set \in SUBSET Key
    BY <1>1, <2>2 DEF StepReturns, StepSets
  <2>4. QED
    BY <1>1, <2>3 DEF Next, StepRun
<1>2. ASSUME NEW set, Succeeds(set) PROVE Next
  BY <1>1, <1>2 DEF Succeeds
<1>3. ASSUME NEW set, Fails(set) PROVE Next
  BY <1>1, <1>3 DEF Fails
<1>4. CASE EngineActs
  BY <1>4 DEF EngineActs, Next, Engine
<1>5. CASE EnterStep
  BY <1>5 DEF EnterStep, Next, Engine
<1>6. CASE Operator
  BY <1>6 DEF Operator, Next
<1>7. ASSUME NEW n \in Fragile, CrashLoop(n) PROVE UNCHANGED vars
  BY <1>7 DEF CrashLoop
<1>8. CASE StepActs
  <2> USE DEF Continues, Quietly
  <2>1. ASSUME NEW ok \in BOOLEAN,
               ResolveCommit(ok) \/ ResolveEnv(ok) \/ UseImage(ok) \/ Prune(ok) \/ Build(ok)
        PROVE  Next
    BY <1>2, <1>3, <2>1 DEF ResolveCommit, ResolveEnv, UseImage, Prune, Build
  <2>2. CASE Rehearse \/ RetryStops \/ Attempt
    BY <1>2, <2>2 DEF Rehearse, RetryStops, Attempt
  <2>3. ASSUME NEW said \in Said, NEW effect \in BOOLEAN, AttemptReturns(said, effect)
        PROVE  [Next]_vars
    BY <1>2, <1>3, <2>3 DEF AttemptReturns, GivesUp
  <2>4. ASSUME NEW ok \in BOOLEAN, NEW effect \in BOOLEAN,
               RunOnce(ok, effect) \/ Switch(ok, effect) \/ RemoveOne(ok, effect)
        PROVE  [Next]_vars
    BY <1>2, <1>3, <2>4 DEF RunOnce, Switch, RemoveOne
  <2>5. ASSUME NEW effect \in BOOLEAN, ReplaceStop(effect) \/ ReplaceRemove(effect)
        PROVE  [Next]_vars
    BY <2>5 DEF ReplaceStop, ReplaceRemove
  <2>6. ASSUME NEW ok \in BOOLEAN, NEW left, RunContainer(ok, left) PROVE [Next]_vars
    BY <1>3, <2>6 DEF RunContainer
  <2>7. CASE StartEnds \/ WaitTimesOut \/ WaitEnds \/ DrainCut \/ StopEnds \/ DrainEnds
    BY <1>2, <1>3, <2>7 DEF StartEnds, WaitTimesOut, WaitEnds, DrainCut, StopEnds, DrainEnds
  <2>8. ASSUME NEW seen, Poll(seen) PROVE [Next]_vars
    BY <1>3, <2>8 DEF Poll
  <2>9. ASSUME NEW ok \in BOOLEAN, ListPrevious(ok) PROVE [Next]_vars
    BY <1>2, <1>3, <2>9 DEF ListPrevious
  <2>10. ASSUME NEW n, NEW ok \in BOOLEAN, NEW effect \in BOOLEAN, StopOne(n, ok, effect)
         PROVE  [Next]_vars
    BY <1>3, <2>10 DEF StopOne
  <2>11. QED
    BY <1>8, <2>1, <2>2, <2>3, <2>4, <2>5, <2>6, <2>7, <2>8, <2>9, <2>10 DEF StepActs
<1>9. CASE UNCHANGED deployVars
  BY <1>9 DEF deployVars
<1>10. QED
  BY <1>4, <1>5, <1>6, <1>7, <1>8, <1>9 DEF DeployNext

\* The docker steps keep the Step contract: every deploy, seen by the engine,
\* is a behaviour of the engine with arbitrary steps, for every plan, every
\* host and every outcome of the docker commands.
THEOREM DeployImplementsPipeline == DeploySpec => Spec
<1>1. DeployInit => Init
  BY DEF DeployInit
<1>2. QED
  BY <1>1, StepIsEngineStep, TypeStart, TypeStep, PTL DEF DeploySpec, Spec

\* So a deploy is fail-fast: no docker step is reached unless the latest run
\* of every step before it succeeded.
THEOREM DeployFailFast == DeploySpec => []FailFast
BY DeployImplementsPipeline, PipelineFailFast, PTL

-----------------------------------------------------------------------------
(* A rehearsal.  StopPrevious is the one step that talks to docker under a *)
(* dry run; what keeps it harmless is that it never gets past its listing. *)

HostOK == host \in [Name -> Live \cup {"absent", "stopped"}]

ListsOnly == dry /\ At("stop-previous") => sub = "begin"

Rehearsed == HostOK /\ ListsOnly

\* What a step of a rehearsal may do to the world.
Inert ==
    mode = "dry-run" =>
        /\ UNCHANGED <<upstreams, acted>>
        /\ \A n \in Name : host'[n] # host[n] => host[n] = "up" /\ host'[n] = "looping"

\* The docker commands keep the host a host, whichever name they are given.
LEMMA HostCommands ==
    ASSUME HostOK, NEW n
    PROVE  /\ Stop(n) \in [Name -> Live \cup {"absent", "stopped"}]
           /\ Remove(n) \in [Name -> Live \cup {"absent", "stopped"}]
           /\ \A left \in Live \cup {"absent", "stopped"} :
                  [host EXCEPT ![n] = left] \in [Name -> Live \cup {"absent", "stopped"}]
BY DEF HostOK, Stop, Remove, Live

\* A Run that returns is not running: it is paused, over, or at the loop's top.
LEMMA ReturnsLeave == \A ok, set : StepReturns(ok, set) => pc' # "running" /\ UNCHANGED mode
BY DEF StepReturns, Advance, Leave

LEMMA RehearsedStep ==
    ASSUME Rehearsed, [DeployNext]_deployVars
    PROVE  Rehearsed' /\ Inert
<1> DEFINE Quiets == UNCHANGED <<host, upstreams, acted>>
           Parks == pc' # "running"
           Stays == UNCHANGED <<vars, plan>>
<1>a. Quiets => HostOK' /\ Inert
  BY DEF Rehearsed, HostOK, Inert
<1>b. Parks => ListsOnly'
  BY DEF ListsOnly, At
<1>c. \A ok, set : StepReturns(ok, set) => Parks
  BY ReturnsLeave
<1>d. \A set : Succeeds(set) \/ Fails(set) => Parks
  BY <1>c DEF Succeeds, Fails
<1>1. CASE EngineActs
  <2>1. Quiets /\ Parks
    BY <1>1 DEF EngineActs, deploy, world, NewState, Reject, PrintPlan, PlanFails, Return,
                Begin, LoopEnds, Leave, Finish
  <2>2. QED
    BY <2>1, <1>a, <1>b DEF Rehearsed
<1>2. CASE EnterStep
  <2>1. Quiets /\ sub' = "begin"
    BY <1>2 DEF EnterStep, world
  <2>2. QED
    BY <2>1, <1>a DEF Rehearsed, ListsOnly
<1>3. CASE Operator
  <2>1. Quiets /\ UNCHANGED <<sub, plan>>
    BY <1>3 DEF Operator, deploy, world, local, config
  <2>2. Parks \/ UNCHANGED <<pc, i, mode>>
    BY <1>3 DEF Operator, Cancel, PauseReturns, MoveOn, Leave, Advance, Rerun
  <2>3. ListsOnly'
    BY <2>1, <2>2, <1>b DEF Rehearsed, ListsOnly, At, dry
  <2>4. QED
    BY <2>1, <2>3, <1>a DEF Rehearsed
<1>4. ASSUME NEW n \in Fragile, CrashLoop(n) PROVE Rehearsed' /\ Inert
  <2>1. ListsOnly'
    BY <1>4 DEF CrashLoop, Rehearsed, ListsOnly, At, dry, vars, config, local
  <2>2. HostOK'
    BY <1>4, HostCommands DEF CrashLoop, Rehearsed, HostOK, Live
  <2>3. Inert
    BY <1>4 DEF CrashLoop, Inert, Rehearsed, HostOK
  <2>4. QED
    BY <2>1, <2>2, <2>3 DEF Rehearsed
<1>5. CASE StepActs
  <2>1. ASSUME NEW ok \in BOOLEAN,
               ResolveCommit(ok) \/ ResolveEnv(ok) \/ UseImage(ok) \/ Prune(ok) \/ Build(ok)
        PROVE  Quiets /\ Parks
    BY <2>1, <1>d DEF ResolveCommit, ResolveEnv, UseImage, Prune, Build, Quietly, world
  <2>2. CASE Rehearse \/ RetryStops \/ StartEnds \/ WaitTimesOut \/ WaitEnds \/ DrainCut \/ StopEnds
    <3>1. Quiets /\ Parks
      BY <2>2, <1>d DEF Rehearse, RetryStops, StartEnds, WaitTimesOut, WaitEnds, DrainCut,
                        StopEnds, world
    <3>2. QED
      BY <3>1, <1>a, <1>b DEF Rehearsed
  <2>3. CASE Attempt
    <3>1. Quiets /\ ~At("stop-previous")'
      BY <2>3 DEF Attempt, RegistryStep, Login, Push, Pull, Executes, At, Continues, vars,
                  config, world
    <3>2. QED
      BY <3>1, <1>a DEF Rehearsed, ListsOnly
  <2>4. ASSUME NEW said \in Said, NEW effect \in BOOLEAN, AttemptReturns(said, effect)
        PROVE  Rehearsed' /\ Inert
    <3>1. ~dry /\ UNCHANGED host /\ At("stop-previous") = FALSE
      BY <2>4 DEF AttemptReturns, RegistryStep, Login, Push, Pull, Executes, Rehearses,
                  Registry, At
    <3>2. Parks \/ Stays
      BY <2>4, <1>d DEF AttemptReturns, GivesUp, Continues, config
    <3>3. QED
      BY <3>1, <3>2, <1>b DEF Rehearsed, HostOK, ListsOnly, Inert, dry, At, vars
  <2>5. ASSUME NEW ok \in BOOLEAN, NEW effect \in BOOLEAN, RunOnce(ok, effect)
        PROVE  Rehearsed' /\ Inert
    <3>1. ~dry /\ Parks /\ UNCHANGED host
      BY <2>5, <1>d DEF RunOnce, Executes, Rehearses, At
    <3>2. QED
      BY <3>1, <1>b DEF Rehearsed, HostOK, Inert, dry
  <2>6. ASSUME NEW ok \in BOOLEAN, NEW effect \in BOOLEAN, Switch(ok, effect)
        PROVE  Rehearsed' /\ Inert
    <3>1. Parks /\ UNCHANGED <<host, acted>> /\ (dry => UNCHANGED upstreams)
      BY <2>6, <1>d DEF Switch
    <3>2. QED
      BY <3>1, <1>b DEF Rehearsed, HostOK, Inert, dry
  <2>7. ASSUME NEW effect \in BOOLEAN, ReplaceStop(effect) \/ ReplaceRemove(effect)
        PROVE  Rehearsed' /\ Inert
    <3>1. ~dry /\ Stays
      BY <2>7 DEF ReplaceStop, ReplaceRemove, Starting, Executes, Rehearses, At, Continues,
                  config
    <3>2. HostOK'
      BY <2>7, HostCommands DEF ReplaceStop, ReplaceRemove, Rehearsed, HostOK
    <3>3. QED
      BY <3>1, <3>2 DEF Rehearsed, ListsOnly, Inert, dry, vars
  <2>8. ASSUME NEW ok \in BOOLEAN, NEW left \in {"absent", "up", "looping", "stopped"},
               RunContainer(ok, left)
        PROVE  Rehearsed' /\ Inert
    <3>1. ~dry /\ (Parks \/ Stays)
      BY <2>8, <1>d DEF RunContainer, Starting, Executes, Rehearses, At, Continues, config
    <3>2. HostOK'
      BY <2>8, HostCommands DEF RunContainer, Rehearsed, HostOK, Live
    <3>3. QED
      BY <3>1, <3>2, <1>b DEF Rehearsed, ListsOnly, Inert, dry, vars
  <2>9. ASSUME NEW seen, Poll(seen) PROVE Rehearsed' /\ Inert
    <3>1. Quiets /\ (Parks \/ (Stays /\ UNCHANGED sub))
      BY <2>9, <1>d DEF Poll, Continues, config, world
    <3>2. QED
      BY <3>1, <1>a, <1>b DEF Rehearsed, ListsOnly, At, dry, vars
  <2>10. ASSUME NEW ok \in BOOLEAN, ListPrevious(ok) PROVE Rehearsed' /\ Inert
    <3>1. Quiets /\ (Parks \/ (Stays /\ ~dry))
      BY <2>10, <1>d DEF ListPrevious, Continues, config, world
    <3>2. QED
      BY <3>1, <1>a, <1>b DEF Rehearsed, ListsOnly, dry, vars
  <2>11. CASE DrainEnds
    <3>1. Quiets /\ Stays /\ ~dry
      BY <2>11 DEF DrainEnds, Rehearsed, ListsOnly, Continues, config, world
    <3>2. QED
      BY <3>1, <1>a DEF Rehearsed, ListsOnly, dry, vars
  <2>12. ASSUME NEW n, NEW ok \in BOOLEAN, NEW effect \in BOOLEAN,
                StopOne(n, ok, effect) \/ RemoveOne(ok, effect)
         PROVE  Rehearsed' /\ Inert
    <3>1. ~dry /\ (Parks \/ Stays)
      BY <2>12, <1>d DEF StopOne, RemoveOne, Rehearsed, ListsOnly, Continues, config
    <3>2. HostOK'
      BY <2>12, HostCommands DEF StopOne, RemoveOne, Rehearsed, HostOK
    <3>3. QED
      BY <3>1, <3>2, <1>b DEF Rehearsed, ListsOnly, Inert, dry, vars
  <2>13. QED
    BY <1>5, <1>a, <1>b, <2>1, <2>2, <2>3, <2>4, <2>5, <2>6, <2>7, <2>8, <2>9, <2>10, <2>11,
       <2>12 DEF StepActs, Rehearsed
<1>6. CASE UNCHANGED deployVars
  BY <1>6 DEF deployVars, deploy, vars, world, config, local, Rehearsed, HostOK, ListsOnly,
              Inert, At, dry
<1>7. QED
  BY <1>1, <1>2, <1>3, <1>4, <1>5, <1>6 DEF DeployNext

\* A dry run of any plan changes nothing on any host: no command of any step
\* takes effect, whatever the operator, the context and the containers do.
THEOREM DeployRehearsalTouchesNothing == DeploySpec => RehearsalTouchesNothing
<1>1. DeployInit => Rehearsed
  BY DEF DeployInit, Rehearsed, HostOK, ListsOnly, Live
<1>2. Rehearsed /\ [DeployNext]_deployVars => Rehearsed' /\ Inert
  BY RehearsedStep
<1>3. DeploySpec => [][Inert]_deployVars
  BY <1>1, <1>2, PTL DEF DeploySpec
<1>4. QED
  BY <1>3 DEF RehearsalTouchesNothing, Inert

-----------------------------------------------------------------------------
(* The documented order: the old release runs until the new one is proven. *)

\* Step n is behind the engine: it succeeded when it last ran, and is not
\* about to be run again.
Passed(n) == i > n \/ (i = n /\ pc = "paused" /\ ~runErr)

\* A step of this kind has been passed, for real.
Behind(kind) == mode = "execute" /\ \E n \in DOMAIN plan : plan[n] = kind /\ Passed(n)

\* WaitHealthy has judged all of the release.
Proven == InRelease \subseteq judged

\* What a passed step leaves behind.
Booted   == \A n \in InRelease : host[n] # "absent"
Retired  == \A n \in Own \ InRelease : host[n] \notin Live
Did(kind) == kind \in acted \/ (cancelled /\ pc # "running")

\* A step that is behind the engine has done its work.
Deeds ==
    /\ Behind("run-once") => "run-once" \in acted
    /\ Behind("pull-image") => Did("pull-image")
    /\ Behind("start-processes") => Booted
    /\ Behind("wait-healthy") => Proven
    /\ Behind("switch-traffic") => upstreams = Routed
    /\ Behind("stop-previous") => Retired

\* What the loops of the three steps that have one have done so far.
Loops ==
    /\ Executes("start-processes") =>
           \A j \in 1 .. (k - 1) : \/ host[Release[j]] # "absent"
                                   \/ k <= Len(Release) /\ Release[j] = Release[k]
    /\ Executes("wait-healthy") => \A j \in 1 .. (k - 1) : Release[j] \in judged
    /\ At("stop-previous") /\ sub # "begin" =>
           /\ mode = "execute" /\ stale \cap InRelease = {}
           /\ \A n \in Own \ InRelease : host[n] \in Live => n \in stale
           /\ sub = "rm" => target \in stale /\ host[target] \notin Live

\* No container of the release is started any more.
Manned == \A s \in DOMAIN plan : plan[s] = "start-processes" => i > s

\* Whoever was judged healthy is left alone by the deploy.
Kept ==
    /\ judged # {} => Manned
    /\ \A n \in judged : /\ n \in InRelease /\ host[n] \in Live
                         /\ host[n] = "looping" => check # "uptime" \/ n \in fell

\* The old release runs until the new one has proven itself and has the traffic.
Relay ==
    /\ \/ upstreams = previous \cap Own
       \/ upstreams = Routed /\ Proven /\ Manned
    /\ \/ \A n \in previous \ InRelease : host[n] \in Live
       \/ Proven /\ Manned /\ (Has("switch-traffic") => upstreams = Routed)

\* The pipeline the engine runs is the plan.
Linked ==
    /\ plan \in Plans /\ pipe = Steps(plan) /\ previous \subseteq Name
    /\ check \in {"probe", "declared", "uptime"}

\* The inductive invariant: the world as the plan may find it, what passed
\* steps have done, what the running step has done so far.
World == HostOK /\ Linked /\ Kept /\ Relay /\ SchemaFirst

Safe == World /\ Deeds /\ Loops

-----------------------------------------------------------------------------
\* The engine's positions are those of the plan.
LEMMA PlanShape ==
    ASSUME TypeOK, Linked
    PROVE  /\ Total \in Nat /\ DOMAIN plan = 1..Total /\ DOMAIN pipe = 1..Total
           /\ i \in Nat /\ i > 0
           /\ \A n \in DOMAIN plan : /\ pipe[n].requires = Requires(plan[n])
                                     /\ pipe[n].provides = Provides(plan[n])
BY PipeShape DEF TypeOK, Linked, Steps, Total

\* Validate's part of the order: one Start, ahead of all that need containers.
LEMMA StartFirst ==
    ASSUME NEW p \in Plans, Validate(Steps(p), "none"), NEW n \in DOMAIN p
    PROVE  /\ p[n] \in {"wait-healthy", "switch-traffic", "stop-previous"} =>
                  \E s \in 1 .. (n - 1) : p[s] = "start-processes"
           /\ p[n] = "start-processes" =>
                  \A s \in 1 .. (n - 1) : p[s] # "start-processes"
<1>1. Steps(p) \in Pipelines
  BY PlansAssumption
<1>2. DOMAIN Steps(p) = DOMAIN p /\ DOMAIN p = 1..Len(p) /\ Len(p) \in Nat
  BY PlansAssumption DEF Steps
<1>3. \A m \in DOMAIN p : /\ Steps(p)[m].requires = Requires(p[m])
                          /\ Steps(p)[m].provides = Provides(p[m])
  BY DEF Steps
<1>4. 1..(n - 1) \subseteq DOMAIN p
  BY <1>2
<1>5. \A kind : "containers" \in Elems(Provides(kind)) \/ "routed" \in Elems(Provides(kind))
                  => kind = "start-processes"
  BY DEF Provides, Elems
<1>6. "containers" \in Elems(Provides("start-processes"))
  <2>1. Provides("start-processes") = <<"containers", "routed">>
    BY DEF Provides
  <2>2. QED
    BY <2>1 DEF Elems
<1>7. p[n] \in {"wait-healthy", "switch-traffic", "stop-previous"} =>
        "containers" \in Requires(p[n]) \/ "routed" \in Requires(p[n])
  BY DEF Requires
<1>8. /\ \A x \in Steps(p)[n].requires :
            \E j \in 1..(n - 1) : x \in Elems(Steps(p)[j].provides)
      /\ \A j \in 1..(n - 1) : Elems(Steps(p)[j].provides) \cap Elems(Steps(p)[n].provides) = {}
  BY <1>1, <1>2, AcceptedIsWired
<1>9. QED
  BY <1>3, <1>4, <1>5, <1>6, <1>7, <1>8

\* The engine never goes back, and passes only what has just succeeded.
LEMMA Moves ==
    ASSUME TypeOK, Progress, Linked, [Next]_vars, UNCHANGED plan
    PROVE  /\ i' \in Nat /\ i' >= i /\ UNCHANGED pipe
           /\ \A n \in DOMAIN plan :
                 Passed(n)' => Passed(n) \/ (n = i /\ pc = "running" /\ pc' # "running" /\ ~runErr')
           /\ mode' # mode => \A n \in DOMAIN plan : ~Passed(n)'
           /\ Manned => Manned'
<1>p. Total \in Nat /\ DOMAIN plan = 1..Total /\ i \in Nat /\ i > 0
  BY PlanShape
<1> DEFINE P == /\ i' \in Nat /\ i' >= i /\ UNCHANGED pipe
                /\ \A n \in DOMAIN plan :
                     Passed(n)' => Passed(n) \/ (n = i /\ pc = "running" /\ pc' # "running" /\ ~runErr')
                /\ mode' # mode => \A n \in DOMAIN plan : ~Passed(n)'
<1>u. ASSUME UNCHANGED <<pipe, i, mode, runErr>>, pc' # "paused" \/ UNCHANGED pc PROVE P
  BY <1>u, <1>p DEF Passed
<1>a. ASSUME Advance, UNCHANGED <<pipe, mode>>, (pc = "running" /\ ~runErr') \/ (pc = "paused" /\ ~runErr)
      PROVE  P
  BY <1>a, <1>p DEF Advance, Passed
<1>1. P
  <2> USE DEF args, bag, hist
  <2>1. ASSUME NEW d \in BOOLEAN, NewState(d) PROVE P
    BY <2>1, <1>p DEF NewState, Passed, Progress
  <2>2. ASSUME NEW e, Return(e) PROVE P
    BY <2>2, <1>u DEF Return
  <2>3. CASE Begin \/ LoopEnds \/ StepStarts \/ Finish \/ Cancel
    BY <2>3, <1>u DEF Begin, LoopEnds, Leave, StepStarts, Finish, Cancel
  <2>4. ASSUME NEW ok \in BOOLEAN, NEW set \in SUBSET Key, StepReturns(ok, set) PROVE P
    <3>1. pc = "running" /\ UNCHANGED <<pipe, mode>> /\ runErr' = ~ok
      BY <2>4 DEF StepReturns
    <3>2. CASE pc' = "paused" /\ UNCHANGED i
      BY <3>1, <3>2, <1>p DEF Passed
    <3>3. CASE ok /\ Advance
      BY <3>1, <3>3, <1>a, Zenon
    <3>4. CASE pc' = "finish" /\ UNCHANGED i
      BY <3>1, <3>4, <1>p DEF Passed
    <3>5. QED
      BY <2>4, <3>2, <3>3, <3>4 DEF StepReturns, Leave
  <2>5. ASSUME NEW a \in Answer, PauseReturns(a) PROVE P
    <3>1. pc = "paused" /\ UNCHANGED <<pipe, mode, runErr>>
      BY <2>5 DEF PauseReturns
    <3>2. CASE ~runErr /\ Advance
      BY <3>1, <3>2, <1>a
    <3>3. CASE pc' \in {"finish", "top"} /\ UNCHANGED i
      BY <3>1, <3>3, <1>u
    <3>4. QED
      BY <2>5, <3>2, <3>3 DEF PauseReturns, MoveOn, Leave, Rerun
  <2>6. CASE UNCHANGED vars
    BY <2>6, <1>u DEF vars
  <2>7. QED
    BY <2>1, <2>2, <2>3, <2>4, <2>5, <2>6 DEF Next, Engine, StepRun, Reject, PrintPlan, PlanFails
<1>2. Manned => Manned'
  BY <1>1, <1>p DEF Manned
<1>3. QED
  BY <1>1, <1>2

\* What that means for the kinds of step behind the engine.
LEMMA BehindGrows ==
    ASSUME TypeOK, Progress, Linked, [Next]_vars, UNCHANGED plan, NEW kind, Behind(kind)'
    PROVE  mode = "execute" /\ (Behind(kind) \/ (At(kind) /\ pc' # "running" /\ ~runErr'))
<1>1. PICK n \in DOMAIN plan : plan[n] = kind /\ Passed(n)'
  BY DEF Behind
<1>2. mode' = mode /\ mode' = "execute"
  BY <1>1, Moves DEF Behind
<1>3. Passed(n) \/ (n = i /\ pc = "running" /\ pc' # "running" /\ ~runErr')
  BY <1>1, Moves
<1>4. QED
  BY <1>1, <1>2, <1>3 DEF Behind, At

\* A step that neither touches the host, nor the proxy, nor judges.
LEMMA CalmWorld ==
    ASSUME TypeOK, Progress, World, [Next]_vars,
           UNCHANGED <<config, host, upstreams, judged, falls>>, acted \subseteq acted'
    PROVE  World'
<1>1. UNCHANGED <<plan, previous, check, host, upstreams, judged, fell>>
  BY DEF config, falls
<1>2. (Manned => Manned') /\ UNCHANGED pipe
  BY <1>1, Moves DEF World
<1>3. SchemaFirst'
  BY <1>1 DEF World, SchemaFirst, Has
<1>4. QED
  BY <1>1, <1>2, <1>3 DEF World, HostOK, Linked, Kept, Relay, Proven, Has

\* What the step that is returning has to have done by now.
Deed ==
    /\ At("run-once") => "run-once" \in acted'
    /\ At("pull-image") => "pull-image" \in acted' \/ cancelled
    /\ At("start-processes") => Booted
    /\ At("wait-healthy") => Proven
    /\ At("switch-traffic") => upstreams = Routed
    /\ At("stop-previous") => Retired

\* When nothing is touched, what is behind the engine stays done; a step that
\* gets there now has just done it.
LEMMA CalmDeeds ==
    ASSUME TypeOK, Progress, World, Deeds, [Next]_vars,
           UNCHANGED <<config, host, upstreams, judged, falls>>, acted \subseteq acted',
           cancelled => cancelled' /\ (pc # "running" => pc' # "running"),
           mode = "execute" /\ pc = "running" /\ pc' # "running" /\ ~runErr' => Deed
    PROVE  Deeds'
<1>1. UNCHANGED <<plan, host, upstreams, judged>>
  BY DEF config
<1>2. \A kind : Behind(kind)' =>
        mode = "execute" /\ (Behind(kind) \/ (At(kind) /\ pc' # "running" /\ ~runErr'))
  BY <1>1, BehindGrows DEF World
<1>3. \A kind : At(kind) => pc = "running"
  BY DEF At
<1>4. \A kind : Behind(kind)' => Behind(kind) \/ (Deed /\ At(kind) /\ pc' # "running")
  BY <1>2, <1>3
<1>5. Behind("pull-image")' => Did("pull-image")'
  <2>1. Did("pull-image") => Did("pull-image")'
    BY DEF Did
  <2>2. Deed /\ At("pull-image") /\ pc' # "running" => Did("pull-image")'
    BY DEF Did, Deed
  <2>3. QED
    BY <1>4, <2>1, <2>2 DEF Deeds
<1>6. QED
  BY <1>1, <1>4, <1>5 DEF Deeds, Deed, Booted, Proven, Retired

\* Outside a running step there is no loop.
LEMMA NoLoop == pc' # "running" => Loops'
BY DEF Loops, Executes, At

\* The engine's own steps, and the operator's.
LEMMA EngineSafe ==
    ASSUME TypeOK, Progress, Safe, EngineActs \/ Operator \/ EnterStep
    PROVE  Safe'
<1>1. [Next]_vars /\ UNCHANGED <<config, world, judged, falls>>
  BY StepIsEngineStep DEF DeployNext, EngineActs, Operator, EnterStep, deploy
<1>2. UNCHANGED <<plan, host, upstreams, acted>>
  BY <1>1 DEF config, world
<1>3. World'
  BY <1>1, <1>2, CalmWorld DEF Safe
<1>4. \/ pc # "running" /\ pc' # "running"
      \/ EnterStep
      \/ Cancel /\ UNCHANGED deploy
  BY DEF EngineActs, NewState, Reject, PrintPlan, PlanFails, Return, Begin, LoopEnds, Leave,
         Finish, Operator, PauseReturns, MoveOn, Advance, Rerun
<1>5. cancelled => cancelled' /\ (pc # "running" => pc' # "running")
  <2>1. cancelled => cancelled'
    BY Zenon DEF EngineActs, NewState, Reject, PrintPlan, PlanFails, Return, Begin, LoopEnds,
           Finish, Operator, PauseReturns, Cancel, EnterStep, StepStarts
  <2>2. cancelled /\ pc # "running" => pc' # "running"
    BY <1>4 DEF Cancel, EnterStep, StepStarts, Interrupted
  <2>3. QED
    BY <2>1, <2>2
<1>6. ~(pc = "running" /\ pc' # "running")
  BY <1>4 DEF Cancel, EnterStep, StepStarts
<1>7. Deeds'
  BY <1>1, <1>2, <1>5, <1>6, CalmDeeds DEF Safe
<1>8. Loops'
  <2>1. CASE pc' # "running"
    BY <2>1, NoLoop
  <2>2. CASE EnterStep
    <3>1. k' = 1 /\ sub' = "begin"
      BY <2>2 DEF EnterStep
    <3>2. QED
      BY <3>1 DEF Loops
  <2>3. CASE Cancel /\ UNCHANGED deploy
    <3>1. UNCHANGED <<pc, i, mode, plan, host, judged, sub, k, stale, target>>
      BY <2>3 DEF Cancel, deploy, config, world, local
    <3>2. QED
      BY <3>1 DEF Safe, Loops, Executes, At, dry
  <2>4. QED
    BY <1>4, <2>1, <2>2, <2>3
<1>9. QED
  BY <1>3, <1>7, <1>8 DEF Safe

\* A Run that returns without touching host or proxy.
LEMMA ReturnSafe ==
    ASSUME TypeOK, Progress, Safe, [Next]_vars, NEW ok \in BOOLEAN, NEW set, StepReturns(ok, set),
           UNCHANGED <<config, host, upstreams, judged, falls>>, acted \subseteq acted',
           ok /\ mode = "execute" => Deed
    PROVE  Safe'
<1>1. pc = "running" /\ pc' # "running" /\ runErr' = ~ok /\ UNCHANGED cancelled
  BY ReturnsLeave DEF StepReturns
<1>2. World'
  BY CalmWorld DEF Safe
<1>3. mode = "execute" /\ ~runErr' => Deed
  BY <1>1, Zenon
<1>4. cancelled => cancelled' /\ (pc # "running" => pc' # "running")
  BY <1>1
<1>5. Deeds'
  BY <1>3, <1>4, CalmDeeds DEF Safe
<1>6. Loops'
  BY <1>1, NoLoop
<1>7. QED
  BY <1>2, <1>5, <1>6 DEF Safe

\* Where the engine is tells which kinds of step are behind it.
LEMMA AtStart ==
    ASSUME TypeOK, Progress, Linked, At("start-processes")
    PROVE  /\ ~Manned
           /\ \A kind \in {"start-processes", "wait-healthy", "switch-traffic", "stop-previous"} :
                  ~Behind(kind)
<1>p. Total \in Nat /\ DOMAIN plan = 1..Total /\ i \in DOMAIN plan
  BY PlanShape DEF At, TypeOK
<1>v. plan \in Plans /\ Validate(Steps(plan), "none")
  BY DEF Progress, At, Linked
<1>1. ~Manned
  BY <1>p DEF Manned, At
<1>2. ASSUME NEW kind \in {"start-processes", "wait-healthy", "switch-traffic", "stop-previous"},
             NEW n \in DOMAIN plan, plan[n] = kind, Passed(n)
      PROVE  FALSE
  <2>1. n < i
    BY <1>2, <1>p DEF Passed, At
  <2>2. \A s \in 1 .. (i - 1) : plan[s] # "start-processes"
    BY <1>p, <1>v, StartFirst DEF At
  <2>3. kind # "start-processes" => \E s \in 1 .. (n - 1) : plan[s] = "start-processes"
    BY <1>2, <1>v, StartFirst
  <2>4. QED
    BY <1>2, <1>p, <2>1, <2>2, <2>3
<1>3. QED
  BY <1>1, <1>2 DEF Behind

\* Whoever needs containers runs after Start.
LEMMA AtLater ==
    ASSUME TypeOK, Progress, Linked,
           At("wait-healthy") \/ At("switch-traffic") \/ At("stop-previous")
    PROVE  Manned
<1>p. Total \in Nat /\ DOMAIN plan = 1..Total /\ i \in DOMAIN plan
  BY PlanShape DEF At, TypeOK
<1>v. plan \in Plans /\ Validate(Steps(plan), "none")
  BY DEF Progress, At, Linked
<1>1. PICK s \in 1 .. (i - 1) : plan[s] = "start-processes"
  BY <1>p, <1>v, StartFirst DEF At
<1>2. ASSUME NEW t \in DOMAIN plan, plan[t] = "start-processes" PROVE i > t
  <2>1. \A r \in 1 .. (t - 1) : plan[r] # "start-processes"
    BY <1>2, <1>v, StartFirst
  <2>2. QED
    BY <1>p, <1>1, <2>1
<1>3. QED
  BY <1>2 DEF Manned

\* The steps before the current one are behind the engine.
LEMMA Earlier ==
    ASSUME mode = "execute", NEW n \in DOMAIN plan, n < i
    PROVE  Behind(plan[n])
<1>1. Passed(n)
  BY DEF Passed
<1>2. QED
  BY <1>1 DEF Behind

\* The author's part of the order, where it matters.
LEMMA AtHandover ==
    ASSUME TypeOK, Progress, Linked, Deeds, Orderly(plan), mode = "execute",
           At("switch-traffic") \/ At("stop-previous")
    PROVE  /\ Proven /\ Manned
           /\ At("stop-previous") /\ Has("switch-traffic") => upstreams = Routed
<1>p. Total \in Nat /\ DOMAIN plan = 1..Total /\ i \in DOMAIN plan
  BY PlanShape DEF At, TypeOK
<1>1. PICK w \in DOMAIN plan : w < i /\ plan[w] = "wait-healthy"
  BY <1>p DEF Orderly, At
<1>2. Proven
  BY <1>1, Earlier DEF Deeds
<1>3. ASSUME At("stop-previous"), Has("switch-traffic") PROVE upstreams = Routed
  <2>1. PICK n \in DOMAIN plan : plan[n] = "switch-traffic"
    BY <1>3 DEF Has, Elems
  <2>2. n < i
    BY <1>3, <1>p, <2>1 DEF Orderly, At
  <2>3. QED
    BY <2>1, <2>2, Earlier DEF Deeds
<1>4. QED
  BY <1>2, <1>3, AtLater

\* Image and schema come before Start.
LEMMA AtBoot ==
    ASSUME TypeOK, Progress, Linked, Deeds, Orderly(plan), mode = "execute", At("start-processes")
    PROVE  {kind \in {"pull-image", "run-once"} : Has(kind)} \subseteq acted
<1>p. Total \in Nat /\ DOMAIN plan = 1..Total /\ i \in DOMAIN plan
  BY PlanShape DEF At, TypeOK
<1>1. ASSUME NEW kind \in {"pull-image", "run-once"}, Has(kind) PROVE kind \in acted
  <2>1. PICK n \in DOMAIN plan : plan[n] = kind
    BY <1>1 DEF Has, Elems
  <2>2. n < i
    BY <1>p, <2>1 DEF Orderly, At
  <2>3. Behind(kind)
    BY <2>1, <2>2, Earlier
  <2>4. QED
    BY <2>3 DEF Deeds, Did, At
<1>2. QED
  BY <1>1

\* Within a step's Run, vars and plan stand still.
LEMMA Within ==
    ASSUME UNCHANGED vars, UNCHANGED config
    PROVE  /\ \A kind : (At(kind)' <=> At(kind)) /\ (Executes(kind)' <=> Executes(kind))
           /\ \A kind : Behind(kind)' <=> Behind(kind)
           /\ (Manned' <=> Manned) /\ \A kind : Has(kind)' <=> Has(kind)
           /\ UNCHANGED <<plan, previous, check, pipe, mode, pc, cancelled>>
BY DEF vars, args, config, At, Executes, dry, Behind, Passed, Manned, Has

\* The step touches nothing outside the engine and its own locals.
Idle == UNCHANGED <<config, world, judged, falls>>

\* The steps without effects, rehearsals, and a retry that is called off.
LEMMA QuietSafe ==
    ASSUME TypeOK, Progress, Safe, [Next]_vars, NEW ok \in BOOLEAN,
           \/ ResolveCommit(ok) \/ ResolveEnv(ok) \/ UseImage(ok) \/ Prune(ok) \/ Build(ok)
           \/ Rehearse \/ RetryStops
    PROVE  Safe'
<1>1. Idle
  BY DEF ResolveCommit, ResolveEnv, UseImage, Prune, Build, Quietly, Rehearse, RetryStops, Idle
<1>2. PICK good \in BOOLEAN : \E set : StepReturns(good, set)
  BY DEF ResolveCommit, ResolveEnv, UseImage, Prune, Build, Quietly, Rehearse, RetryStops,
         Succeeds, Fails
<1>3. mode = "execute" => Deed
  BY DEF ResolveCommit, ResolveEnv, UseImage, Prune, Build, Quietly, Rehearse, RetryStops,
         RegistryStep, Login, Push, Pull, Executes, At, dry, Deed
<1>4. QED
  BY <1>1, <1>2, <1>3, ReturnSafe DEF Idle, world

\* The registry steps: an attempt, and what comes of it.
LEMMA AttemptSafe ==
    ASSUME TypeOK, Progress, Safe, [Next]_vars, NEW said \in Said, NEW effect \in BOOLEAN,
           Attempt \/ AttemptReturns(said, effect)
    PROVE  Safe'
<1>r. ~At("start-processes") /\ ~At("wait-healthy") /\ ~At("stop-previous")
      /\ ~At("run-once") /\ ~At("switch-traffic")
  BY DEF Attempt, AttemptReturns, RegistryStep, Login, Push, Pull, Executes, At
<1>u. UNCHANGED <<config, host, upstreams, judged, falls>> /\ acted \subseteq acted'
  BY DEF Attempt, AttemptReturns, world
<1>1. CASE UNCHANGED vars
  <2>1. /\ \A kind : At(kind)' <=> At(kind)
        /\ \A kind : Executes(kind)' <=> Executes(kind)
        /\ UNCHANGED <<pc, cancelled>>
    BY <1>1, <1>u, Within
  <2>2. World' /\ Deeds'
    BY <1>u, <2>1, CalmWorld, CalmDeeds DEF Safe
  <2>3. Loops'
    BY <1>r, <2>1 DEF Loops, Executes
  <2>4. QED
    BY <2>2, <2>3 DEF Safe
<1>2. CASE Succeeds({}) /\ (cancelled \/ plan[i] \in acted')
  <2>1. Deed
    BY <1>r, <1>2 DEF Deed, At
  <2>2. QED
    BY <1>2, <1>u, <2>1, ReturnSafe DEF Succeeds
<1>3. CASE Fails({})
  BY <1>3, <1>u, ReturnSafe DEF Fails
<1>4. QED
  BY <1>1, <1>2, <1>3 DEF Attempt, AttemptReturns, GivesUp, Continues

\* RunOnce: the command, done or not.
LEMMA RunOnceSafe ==
    ASSUME TypeOK, Progress, Safe, [Next]_vars, NEW ok \in BOOLEAN, NEW effect \in BOOLEAN,
           RunOnce(ok, effect)
    PROVE  Safe'
<1>1. UNCHANGED <<config, host, upstreams, judged, falls>> /\ acted \subseteq acted'
  BY DEF RunOnce
<1>2. PICK set : StepReturns(ok, set)
  BY DEF RunOnce, Succeeds, Fails
<1>3. ok => Deed
  BY DEF RunOnce, Executes, At, Deed
<1>4. QED
  BY <1>1, <1>2, <1>3, ReturnSafe

-----------------------------------------------------------------------------
(* Start. *)

\* While containers are being started nothing else is: no one has been judged,
\* traffic is where it was and the old release runs.
LEMMA Starts ==
    ASSUME TypeOK, Progress, World, At("start-processes")
    PROVE  /\ judged = {} /\ upstreams = previous \cap Own
           /\ \A n \in previous \ InRelease : host[n] \in Live
BY AtStart DEF World, Kept, Relay

\* One container of the release is changed, and the step goes on.
LEMMA StartSafe ==
    ASSUME TypeOK, Progress, Safe, Orderly(plan), Executes("start-processes"), k \in 1..Len(Release),
           NEW state \in Live \cup {"absent", "stopped"},
           host' = [host EXCEPT ![Release[k]] = state],
           UNCHANGED <<config, upstreams, acted, falls>>, judged' = {}
    PROVE  UNCHANGED pipe => World'
<1>m. mode = "execute" /\ At("start-processes")
  BY DEF Executes, Rehearses, dry, TypeOK
<1>0. Linked /\ HostOK
  BY DEF Safe, World
<1>1. Release[k] \in InRelease /\ InRelease \subseteq Name
  BY NamesAssumption DEF InRelease, Elems
<1>2. HostOK'
  BY <1>0 DEF HostOK
<1>3. Kept'
  BY DEF Kept
<1>4. Relay'
  <2>1. upstreams = previous \cap Own /\ \A n \in previous \ InRelease : host[n] \in Live
    BY <1>m, Starts DEF Safe
  <2>2. \A n \in previous \ InRelease : host'[n] \in Live
    BY <1>0, <1>1, <2>1 DEF HostOK, Linked
  <2>3. UNCHANGED <<upstreams, previous>>
    BY DEF config
  <2>4. QED
    BY <2>1, <2>2, <2>3 DEF Relay
<1>5. SchemaFirst'
  <2>1. {kind \in {"pull-image", "run-once"} : Has(kind)} \subseteq acted
    BY <1>m, <1>0, AtBoot DEF Safe
  <2>2. UNCHANGED <<plan, acted>>
    BY DEF config
  <2>3. QED
    BY <2>1, <2>2 DEF SchemaFirst, Has
<1>6. UNCHANGED pipe => Linked'
  BY <1>0 DEF Linked, config
<1>7. QED
  BY <1>2, <1>3, <1>4, <1>5, <1>6 DEF World

\* Positions in Release, and attempts, are counted from 1.
Counted == k \in Nat \ {0}

\* Start: a container of the same name is stopped and removed,
LEMMA ReplaceSafe ==
    ASSUME TypeOK, Progress, Safe, Counted, Orderly(plan), NEW effect \in BOOLEAN,
           ReplaceStop(effect) \/ ReplaceRemove(effect)
    PROVE  Safe'
<1>1. /\ Executes("start-processes") /\ k \in 1..Len(Release)
      /\ UNCHANGED <<vars, config, upstreams, acted, k, stale, target, judged, falls>>
  BY NamesAssumption DEF Counted, ReplaceStop, ReplaceRemove, Starting, Continues
<1>2. At("start-processes") /\ mode = "execute" /\ HostOK /\ Linked
  BY <1>1 DEF Executes, Rehearses, dry, TypeOK, Safe, World
<1>3. PICK state \in Live \cup {"absent", "stopped"} :
        /\ host' = [host EXCEPT ![Release[k]] = state]
        /\ state # "absent" => host[Release[k]] # "absent"
  <2>1. Release[k] \in Name
    BY <1>1, NamesAssumption
  <2>2. host' = [host EXCEPT ![Release[k]] = host[Release[k]]] \/ host' # host
    BY <1>2, <2>1 DEF HostOK
  <2>3. host[Release[k]] \in Live \cup {"absent", "stopped"}
    BY <1>2, <2>1 DEF HostOK
  <2>4. \/ host' = host
        \/ host[Release[k]] \in Live /\ host' = [host EXCEPT ![Release[k]] = "stopped"]
        \/ host' = [host EXCEPT ![Release[k]] = "absent"]
    BY DEF ReplaceStop, ReplaceRemove, Stop, Remove
  <2>5. QED
    BY <2>2, <2>3, <2>4 DEF Live
<1>w. /\ \A kind : (At(kind)' <=> At(kind)) /\ (Executes(kind)' <=> Executes(kind))
      /\ \A kind : Behind(kind)' <=> Behind(kind)
      /\ UNCHANGED <<plan, pipe, pc, cancelled>>
  BY <1>1, Within
<1>4. World'
  <2>1. judged' = {}
    BY <1>1, <1>2, Starts DEF Safe
  <2>2. QED
    BY <1>1, <1>3, <1>w, <2>1, StartSafe
<1>5. Deeds'
  BY <1>1, <1>2, <1>w, AtStart DEF Safe, Deeds, Did
<1>6. Loops'
  <2>1. ~At("stop-previous") /\ ~At("wait-healthy")
    BY <1>2 DEF At
  <2>2. \A j \in 1 .. (k - 1) :
            host'[Release[j]] # "absent" \/ (k <= Len(Release) /\ Release[j] = Release[k])
    BY <1>1, <1>2, <1>3, NamesAssumption DEF Safe, Loops, HostOK
  <2>3. QED
    BY <1>1, <1>w, <2>1, <2>2 DEF Loops, Executes
<1>7. QED
  BY <1>4, <1>5, <1>6 DEF Safe

\* and a new one run, or not;
LEMMA RunContainerSafe ==
    ASSUME TypeOK, Progress, Safe, Counted, Orderly(plan), [Next]_vars, NEW ok \in BOOLEAN,
           NEW left \in {"absent", "up", "looping", "stopped"}, RunContainer(ok, left)
    PROVE  Safe'
<1>1. /\ Executes("start-processes") /\ k \in 1..Len(Release)
      /\ host' = [host EXCEPT ![Release[k]] = left]
      /\ UNCHANGED <<config, upstreams, acted, falls>>
  BY NamesAssumption DEF Counted, RunContainer, Starting
<1>2. At("start-processes") /\ mode = "execute" /\ HostOK /\ Linked
  BY <1>1 DEF Executes, Rehearses, dry, TypeOK, Safe, World
<1>3. judged' = {}
  BY <1>2, Starts DEF Safe, RunContainer
<1>4. World'
  <2>1. UNCHANGED pipe
    BY <1>1, <1>2, Moves DEF config
  <2>2. QED
    BY <1>1, <1>3, <2>1, StartSafe DEF Live
<1>5. Release[k] \in Name
  BY <1>1, NamesAssumption
<1>6. CASE ok
  <2>1. k' = k + 1 /\ UNCHANGED vars /\ left # "absent"
    BY <1>6 DEF RunContainer, Continues, RunLeaves
  <2>w. /\ \A kind : (At(kind)' <=> At(kind)) /\ (Executes(kind)' <=> Executes(kind))
        /\ \A kind : Behind(kind)' <=> Behind(kind)
        /\ UNCHANGED <<plan, pc, cancelled>>
    BY <1>1, <2>1, Within
  <2>2. Deeds'
    BY <1>1, <1>2, <2>w, AtStart DEF Safe, Deeds, Did
  <2>3. \A j \in 1 .. (k' - 1) : host'[Release[j]] # "absent"
    BY <1>1, <1>2, <1>5, <2>1, NamesAssumption DEF Safe, Loops, HostOK
  <2>4. ~At("stop-previous") /\ ~At("wait-healthy")
    BY <1>2 DEF At
  <2>5. Loops'
    BY <2>3, <2>4, <2>w DEF Loops, Executes
  <2>6. QED
    BY <1>4, <2>2, <2>5 DEF Safe
<1>7. CASE ~ok
  <2>1. pc' # "running" /\ runErr' = TRUE /\ UNCHANGED <<plan, cancelled>>
    BY <1>1, <1>7, ReturnsLeave, Zenon DEF RunContainer, Fails, StepReturns, config
  <2>2. \A kind : Behind(kind)' => Behind(kind)
    BY <2>1, <1>2, BehindGrows
  <2>3. Deeds'
    BY <1>1, <1>2, <2>1, <2>2, AtStart DEF Safe, Deeds, Did, At
  <2>4. QED
    BY <1>4, <2>1, <2>3, NoLoop DEF Safe
<1>8. QED
  BY <1>6, <1>7

\* and Run returns when all of them are there.
LEMMA StartEndsSafe ==
    ASSUME TypeOK, Progress, Safe, Counted, [Next]_vars, StartEnds
    PROVE  Safe'
<1>1. Executes("start-processes") /\ k > Len(Release) /\ Idle
  BY DEF StartEnds, Idle
<1>2. Booted
  <2>1. ASSUME NEW j \in 1..Len(Release) PROVE host[Release[j]] # "absent"
    BY <1>1, <2>1, NamesAssumption DEF Safe, Loops, Counted
  <2>2. QED
    BY <2>1, NamesAssumption DEF Booted, InRelease, Elems
<1>3. Deed
  BY <1>1, <1>2 DEF Deed, Executes, At
<1>4. PICK set : StepReturns(TRUE, set)
  BY DEF StartEnds, Succeeds
<1>5. QED
  BY <1>1, <1>3, <1>4, ReturnSafe DEF Idle, world

-----------------------------------------------------------------------------
(* WaitHealthy. *)

\* A container is judged only while it runs, by uptime only before it restarts.
LEMMA VerdictMeans ==
    ASSUME NEW n, "ready" \in Verdict(n), check \in {"probe", "declared", "uptime"}
    PROVE  host[n] \in Live /\ (host[n] = "looping" => check # "uptime")
<1>1. CASE check = "probe"
  BY <1>1 DEF Verdict, Answers
<1>2. CASE check = "declared"
  BY <1>2 DEF Verdict, Declared
<1>3. CASE check = "uptime"
  BY <1>3 DEF Verdict, Settled, Live
<1>4. QED
  BY <1>1, <1>2, <1>3

\* One look at one container.
LEMMA PollSafe ==
    ASSUME TypeOK, Progress, Safe, Counted, [Next]_vars, NEW seen, Poll(seen)
    PROVE  Safe'
<1>1. /\ Executes("wait-healthy") /\ k \in 1..Len(Release)
      /\ UNCHANGED <<config, world, falls>>
  BY NamesAssumption DEF Counted, Poll, Probing
<1>2. At("wait-healthy")
  BY <1>1 DEF Executes
<1>3. CASE seen = "bad" /\ Fails({}) /\ UNCHANGED judged
  BY <1>1, <1>3, ReturnSafe DEF Fails, world
<1>4. CASE Continues /\ UNCHANGED <<k, judged>>
  <2>1. /\ \A kind : (At(kind)' <=> At(kind)) /\ (Executes(kind)' <=> Executes(kind))
        /\ UNCHANGED <<pc, cancelled>>
    BY <1>1, <1>4, Within DEF Continues
  <2>2. World' /\ Deeds'
    BY <1>1, <1>4, <2>1, CalmWorld, CalmDeeds DEF Safe, world
  <2>3. Loops'
    BY <1>1, <1>2, <1>4, <2>1 DEF Safe, Loops, Executes, At
  <2>4. QED
    BY <2>2, <2>3 DEF Safe
<1>5. CASE /\ seen = "ready" /\ Continues
           /\ judged' = judged \cup {Release[k]} /\ k' = k + 1
  <2>1. /\ \A kind : (At(kind)' <=> At(kind)) /\ (Executes(kind)' <=> Executes(kind))
        /\ \A kind : (Behind(kind)' <=> Behind(kind)) /\ (Has(kind)' <=> Has(kind))
        /\ (Manned' <=> Manned)
        /\ UNCHANGED <<plan, previous, check, pipe, pc, cancelled>>
    BY <1>1, <1>5, Within DEF Continues
  <2>2. UNCHANGED <<host, upstreams, acted, fell>>
    BY <1>1 DEF world, falls
  <2>3. Kept'
    <3>1. Manned
      BY <1>2, AtLater DEF Safe, World
    <3>2. Release[k] \in InRelease
      BY <1>1, NamesAssumption DEF InRelease, Elems
    <3>3. host[Release[k]] \in Live /\ (host[Release[k]] = "looping" => check # "uptime")
      BY <1>5, VerdictMeans DEF Poll, Safe, World, Linked
    <3>4. QED
      BY <1>5, <2>1, <2>2, <3>1, <3>2, <3>3 DEF Safe, World, Kept
  <2>4. Proven => Proven'
    BY <1>5 DEF Proven
  <2>5. World'
    BY <2>1, <2>2, <2>3, <2>4 DEF Safe, World, HostOK, Linked, Relay, SchemaFirst
  <2>6. Deeds'
    BY <2>1, <2>2, <2>4 DEF Safe, Deeds, Did, Booted, Retired
  <2>7. \A j \in 1 .. (k' - 1) : Release[j] \in judged'
    BY <1>1, <1>5, NamesAssumption DEF Safe, Loops
  <2>8. Loops'
    BY <1>2, <2>1, <2>7 DEF Loops, Executes, At
  <2>9. QED
    BY <2>5, <2>6, <2>8 DEF Safe
<1>6. QED
  BY <1>3, <1>4, <1>5 DEF Poll

\* The wait is over, for good or for bad.
LEMMA WaitSafe ==
    ASSUME TypeOK, Progress, Safe, Counted, [Next]_vars, WaitTimesOut \/ WaitEnds
    PROVE  Safe'
<1>1. Executes("wait-healthy") /\ Idle
  BY DEF WaitTimesOut, WaitEnds, Probing, Idle
<1>2. CASE WaitTimesOut
  BY <1>1, <1>2, ReturnSafe DEF WaitTimesOut, Fails, Idle, world
<1>3. CASE WaitEnds
  <2>1. Proven
    <3>1. ASSUME NEW j \in 1..Len(Release) PROVE Release[j] \in judged
      BY <1>1, <1>3, <3>1, NamesAssumption DEF Safe, Loops, Counted, WaitEnds
    <3>2. QED
      BY <3>1, NamesAssumption DEF Proven, InRelease, Elems
  <2>2. Deed
    BY <1>1, <2>1 DEF Deed, Executes, At
  <2>3. QED
    BY <1>1, <1>3, <2>2, ReturnSafe DEF WaitEnds, Succeeds, Idle, world
<1>4. QED
  BY <1>2, <1>3

-----------------------------------------------------------------------------
(* The hand-over. *)

\* SwitchTraffic: the release has been judged, and the old one still runs.
LEMMA SwitchSafe ==
    ASSUME TypeOK, Progress, Safe, Orderly(plan), [Next]_vars,
           NEW ok \in BOOLEAN, NEW effect \in BOOLEAN, Switch(ok, effect)
    PROVE  Safe'
<1>1. /\ At("switch-traffic") /\ UNCHANGED <<config, host, acted, judged, falls>>
      /\ upstreams' = IF effect THEN Routed ELSE upstreams
      /\ effect => mode # "dry-run"
      /\ ok /\ mode # "dry-run" => effect
  BY DEF Switch, dry
<1>2. PICK set : StepReturns(ok, set)
  BY DEF Switch, Succeeds, Fails
<1>3. CASE ~effect
  <2>1. ok /\ mode = "execute" => Deed
    BY <1>1, <1>3
  <2>2. QED
    BY <1>1, <1>2, <1>3, <2>1, ReturnSafe
<1>4. CASE effect
  <2>1. mode = "execute" /\ upstreams' = Routed
    BY <1>1, <1>4 DEF TypeOK
  <2>2. Proven /\ Manned
    BY <1>1, <2>1, AtHandover DEF Safe, World
  <2>3. UNCHANGED <<plan, previous, check, host, acted, judged, fell>>
    BY <1>1 DEF config, falls
  <2>4. Manned' /\ UNCHANGED pipe
    BY <2>2, <2>3, Moves DEF Safe, World
  <2>5. World'
    BY <2>1, <2>2, <2>3, <2>4 DEF Safe, World, HostOK, Linked, Kept, Relay, Proven, SchemaFirst, Has
  <2>6. pc = "running" /\ pc' # "running" /\ UNCHANGED cancelled
    BY <1>2, ReturnsLeave DEF StepReturns
  <2>7. \A kind : Behind(kind)' => Behind(kind) \/ At(kind)
    BY <2>3, BehindGrows DEF Safe, World
  <2>8. Deeds'
    BY <1>1, <2>1, <2>3, <2>6, <2>7 DEF Safe, Deeds, Did, Booted, Proven, Retired, At
  <2>9. QED
    BY <2>5, <2>6, <2>8, NoLoop DEF Safe
<1>5. QED
  BY <1>3, <1>4

-----------------------------------------------------------------------------
(* StopPrevious. *)

\* What it lists does not contain the release.
LEMMA ListSafe ==
    ASSUME TypeOK, Progress, Safe, [Next]_vars, NEW ok \in BOOLEAN, ListPrevious(ok)
    PROVE  Safe'
<1>1. At("stop-previous") /\ Idle
  BY DEF ListPrevious, Idle
<1>n. \A n \in Own \ InRelease : host[n] \in Live => n \in PreviousNames
  BY NamesAssumption DEF PreviousNames, Names
<1>2. CASE Fails({})
  BY <1>1, <1>2, ReturnSafe DEF Fails, Idle, world
<1>3. CASE (IF ok THEN dry \/ PreviousNames = {} ELSE dry) /\ Succeeds({})
  <2>1. mode = "execute" => Deed
    BY <1>1, <1>3, <1>n DEF Deed, At, Retired, dry
  <2>2. QED
    BY <1>1, <1>3, <2>1, ReturnSafe DEF Succeeds, Idle, world
<1>4. CASE ~dry /\ stale' = PreviousNames /\ sub' = "drain" /\ Continues
  <2>1. /\ \A kind : (At(kind)' <=> At(kind)) /\ (Executes(kind)' <=> Executes(kind))
        /\ UNCHANGED <<pc, cancelled, mode>>
    BY <1>1, <1>4, Within DEF Continues, Idle
  <2>2. World' /\ Deeds'
    BY <1>1, <2>1, CalmWorld, CalmDeeds DEF Safe, Idle, world
  <2>3. mode = "execute"
    BY <1>4 DEF dry, TypeOK
  <2>4. UNCHANGED host
    BY <1>1 DEF Idle, world
  <2>5. Loops'
    BY <1>1, <1>4, <1>n, <2>1, <2>3, <2>4 DEF Loops, Executes, At, PreviousNames
  <2>6. QED
    BY <2>2, <2>5 DEF Safe
<1>5. QED
  BY <1>2, <1>3, <1>4 DEF ListPrevious

\* It waits before it stops anything.
LEMMA DrainSafe ==
    ASSUME TypeOK, Progress, Safe, [Next]_vars, DrainCut \/ DrainEnds \/ StopEnds
    PROVE  Safe'
<1>1. At("stop-previous") /\ sub # "begin" /\ Idle
  BY DEF DrainCut, DrainEnds, StopEnds, Idle
<1>2. CASE DrainCut
  BY <1>1, <1>2, ReturnSafe DEF DrainCut, Fails, Idle, world
<1>3. CASE StopEnds
  <2>1. Deed
    BY <1>1, <1>3 DEF Deed, At, Safe, Loops, StopEnds, Retired
  <2>2. QED
    BY <1>1, <1>3, <2>1, ReturnSafe DEF StopEnds, Succeeds, Idle, world
<1>4. CASE DrainEnds
  <2>1. /\ \A kind : (At(kind)' <=> At(kind)) /\ (Executes(kind)' <=> Executes(kind))
        /\ UNCHANGED <<pc, cancelled, mode>>
    BY <1>1, <1>4, Within DEF DrainEnds, Continues, Idle
  <2>2. World' /\ Deeds'
    BY <1>1, <2>1, CalmWorld, CalmDeeds DEF Safe, Idle, world
  <2>3. UNCHANGED <<host, stale>> /\ sub' = "stop"
    BY <1>4 DEF DrainEnds, world
  <2>4. Loops'
    BY <1>1, <2>1, <2>3 DEF Safe, Loops, Executes, At
  <2>5. QED
    BY <2>2, <2>4 DEF Safe
<1>5. QED
  BY <1>2, <1>3, <1>4

\* A container outside the release is stopped or removed, or nothing happens.
LEMMA RetireSafe ==
    ASSUME TypeOK, Progress, Safe, Orderly(plan), [Next]_vars, At("stop-previous"), sub # "begin",
           UNCHANGED <<config, upstreams, acted, judged, falls>>,
           NEW n \in stale, NEW state \in {"stopped", "absent"},
           host' = host \/ host' = [host EXCEPT ![n] = state]
    PROVE  /\ World'
           /\ \A m \in Name : host'[m] \in Live => host[m] \in Live
           /\ \A m \in InRelease : host'[m] = host[m]
<1>1. mode = "execute" /\ n \notin InRelease
  BY DEF Safe, Loops
<1>2. Proven /\ Manned /\ (Has("switch-traffic") => upstreams = Routed)
  BY <1>1, AtHandover DEF Safe, World
<1>3. UNCHANGED <<plan, previous, check, upstreams, acted, judged, fell>>
  BY DEF config, falls
<1>4. Manned' /\ UNCHANGED pipe
  BY <1>2, <1>3, Moves DEF Safe, World
<1>5. HostOK /\ InRelease \subseteq Name
  BY NamesAssumption DEF Safe, World, InRelease, Elems
<1>6. \A m \in InRelease : host'[m] = host[m]
  BY <1>1, <1>5 DEF HostOK
<1>7. HostOK' /\ \A m \in Name : host'[m] \in Live => host[m] \in Live
  BY <1>5 DEF HostOK, Live
<1>8. Kept'
  BY <1>3, <1>4, <1>6 DEF Safe, World, Kept
<1>9. Relay' /\ SchemaFirst'
  BY <1>2, <1>3, <1>4, <1>6 DEF Safe, World, Relay, Proven, SchemaFirst, Has
<1>10. QED
  BY <1>3, <1>4, <1>6, <1>7, <1>8, <1>9 DEF Safe, World, Linked

\* The names listed are stopped and removed one by one.
LEMMA StopSafe ==
    ASSUME TypeOK, Progress, Safe, Orderly(plan), [Next]_vars, NEW ok \in BOOLEAN,
           NEW effect \in BOOLEAN, NEW n \in Name, StopOne(n, ok, effect) \/ RemoveOne(ok, effect)
    PROVE  Safe'
<1>1. /\ At("stop-previous") /\ sub # "begin" /\ mode = "execute"
      /\ UNCHANGED <<config, upstreams, acted, judged, falls>>
  BY DEF StopOne, RemoveOne, Safe, Loops
<1>2. PICK m \in stale, state \in {"stopped", "absent"} :
         /\ host' = host \/ host' = [host EXCEPT ![m] = state]
         /\ StopOne(n, ok, effect) => m = n /\ state = "stopped"
         /\ RemoveOne(ok, effect) => m = target
  <2>1. CASE StopOne(n, ok, effect)
    <3>1. sub = "stop" /\ n \in stale /\ (host' = host \/ host' = [host EXCEPT ![n] = "stopped"])
      BY <2>1 DEF StopOne, Stop
    <3>2. ~RemoveOne(ok, effect)
      BY <3>1 DEF RemoveOne
    <3>3. QED
      BY <3>1, <3>2
  <2>2. CASE RemoveOne(ok, effect)
    <3>1. sub = "rm" /\ (host' = host \/ host' = [host EXCEPT ![target] = "absent"])
      BY <2>2 DEF RemoveOne, Remove
    <3>2. target \in stale /\ ~StopOne(n, ok, effect)
      BY <1>1, <3>1 DEF Safe, Loops, StopOne
    <3>3. QED
      BY <3>1, <3>2
  <2>3. QED
    BY <2>1, <2>2
<1>3. /\ World'
      /\ \A c \in Name : host'[c] \in Live => host[c] \in Live
      /\ \A c \in InRelease : host'[c] = host[c]
  BY <1>1, <1>2, RetireSafe
<1>4. HostOK /\ Own \subseteq Name
  BY NamesAssumption DEF Safe, World
<1>5. UNCHANGED plan
  BY <1>1 DEF config
<1>6. (Booted => Booted') /\ (Retired => Retired') /\ (Proven => Proven')
  BY <1>1, <1>3, <1>4 DEF Booted, Retired, Proven
<1>7. CASE ~ok
  <2>1. pc = "running" /\ pc' # "running" /\ runErr' = TRUE /\ UNCHANGED cancelled
    BY <1>7, ReturnsLeave, Zenon DEF StopOne, RemoveOne, Fails, StepReturns
  <2>2. \A kind : Behind(kind)' => Behind(kind)
    BY <1>5, <2>1, BehindGrows DEF Safe, World
  <2>3. Deeds'
    BY <1>1, <1>6, <2>1, <2>2 DEF Safe, Deeds, Did
  <2>4. QED
    BY <1>3, <2>1, <2>3, NoLoop DEF Safe
<1>8. CASE ok
  <2>1. UNCHANGED vars
    BY <1>8 DEF StopOne, RemoveOne, Continues
  <2>2. /\ \A kind : (At(kind)' <=> At(kind)) /\ (Executes(kind)' <=> Executes(kind))
        /\ \A kind : Behind(kind)' <=> Behind(kind)
        /\ UNCHANGED <<pc, cancelled, mode>>
    BY <1>1, <2>1, Within
  <2>3. Deeds'
    BY <1>1, <1>6, <2>2 DEF Safe, Deeds, Did
  <2>4. /\ stale \cap InRelease = {}
        /\ \A c \in Own \ InRelease : host'[c] \in Live => c \in stale
        /\ sub = "rm" => target \in stale /\ host[target] \notin Live
    BY <1>1, <1>3, <1>4 DEF Safe, Loops
  <2>5. CASE StopOne(n, ok, effect)
    <3>1. n \in stale /\ stale' = stale /\ target' = n /\ sub' = "rm" /\ host' = Stop(n)
      BY <1>8, <2>5 DEF StopOne
    <3>2. host'[n] \notin Live
      BY <1>4, <3>1 DEF HostOK, Stop, Live
    <3>3. Loops'
      BY <1>1, <2>2, <2>4, <3>1, <3>2 DEF Loops, Executes, At
    <3>4. QED
      BY <1>3, <2>3, <3>3 DEF Safe
  <2>6. CASE RemoveOne(ok, effect)
    <3>1. stale' = stale \ {target} /\ sub' = "stop" /\ sub = "rm" /\ host' = Remove(target)
      BY <1>8, <2>6 DEF RemoveOne, AfterRemove
    <3>2. \A c \in Own \ InRelease : host'[c] \in Live => c # target
      BY <1>3, <1>4, <2>4, <3>1
    <3>3. Loops'
      BY <1>1, <2>2, <2>4, <3>1, <3>2 DEF Loops, Executes, At
    <3>4. QED
      BY <1>3, <2>3, <3>3 DEF Safe
  <2>7. QED
    BY <2>5, <2>6
<1>9. QED
  BY <1>7, <1>8

-----------------------------------------------------------------------------
\* A container crashes: it counts as fallen if it had been judged.
LEMMA CrashSafe ==
    ASSUME TypeOK, Progress, Safe, NEW n \in Fragile, CrashLoop(n)
    PROVE  Safe'
<1>1. /\ host[n] = "up" /\ n \in Name /\ host' = [host EXCEPT ![n] = "looping"]
      /\ fell' = IF n \in judged THEN fell \cup {n} ELSE fell
      /\ UNCHANGED <<vars, config, upstreams, acted, local, judged>>
  BY BoundsAssumption DEF CrashLoop
<1>2. /\ \A kind : (At(kind)' <=> At(kind)) /\ (Executes(kind)' <=> Executes(kind))
      /\ \A kind : (Behind(kind)' <=> Behind(kind)) /\ (Has(kind)' <=> Has(kind))
      /\ (Manned' <=> Manned)
      /\ UNCHANGED <<plan, previous, check, pipe, mode, pc, cancelled>>
  BY <1>1, Within
<1>3. HostOK /\ InRelease \subseteq Name /\ Own \subseteq Name /\ previous \subseteq Name
  BY NamesAssumption DEF Safe, World, Linked, InRelease, Elems
<1>4. /\ HostOK' /\ host'[n] = "looping"
      /\ \A m \in Name : m # n => host'[m] = host[m]
      /\ \A m \in Name : host'[m] \in Live <=> host[m] \in Live
      /\ \A m \in Name : host'[m] = "absent" <=> host[m] = "absent"
  BY <1>1, <1>3 DEF HostOK, Live
<1>5. Kept'
  <2>1. ASSUME NEW m \in judged
        PROVE  host'[m] \in Live /\ (host'[m] = "looping" => check # "uptime" \/ m \in fell')
    <3>1. m \in Name /\ m \in InRelease
      BY <1>3, <2>1 DEF Safe, World, Kept
    <3>2. QED
      BY <1>1, <1>4, <2>1, <3>1 DEF Safe, World, Kept
  <2>2. QED
    BY <1>1, <1>2, <2>1 DEF Safe, World, Kept
<1>6. Relay' /\ SchemaFirst'
  BY <1>1, <1>2, <1>3, <1>4 DEF Safe, World, Relay, Proven, SchemaFirst
<1>7. World'
  BY <1>2, <1>4, <1>5, <1>6 DEF Safe, World, Linked
<1>8. Deeds'
  BY <1>1, <1>2, <1>3, <1>4 DEF Safe, Deeds, Did, Booted, Proven, Retired
<1>9. Loops'
  <2>1. UNCHANGED <<k, sub, stale, target>>
    BY <1>1 DEF local
  <2>2. \A j \in 1..Len(Release) : Release[j] \in Name
    BY NamesAssumption
  <2>3. Executes("start-processes")' =>
          \A j \in 1 .. (k' - 1) : \/ host'[Release[j]] # "absent"
                                   \/ k' <= Len(Release) /\ Release[j] = Release[k']
    <3> SUFFICES ASSUME Executes("start-processes"), NEW j \in 1 .. (k - 1),
                        ~(k <= Len(Release) /\ Release[j] = Release[k])
                 PROVE  host'[Release[j]] # "absent"
      BY <1>2, <2>1
    <3>1. host[Release[j]] # "absent"
      BY DEF Safe, Loops
    <3>2. Release[j] # n => host'[Release[j]] = host[Release[j]]
      BY <1>1
    <3>3. QED
      BY <1>4, <3>1, <3>2
  <2>4. At("stop-previous") /\ sub = "rm" => target # n
    BY <1>1 DEF Safe, Loops, Live
  <2>5. target # n => host'[target] = host[target]
    BY <1>1
  <2>6. QED
    BY <1>1, <1>2, <1>3, <1>4, <2>1, <2>3, <2>4, <2>5 DEF Safe, Loops
<1>10. QED
  BY <1>7, <1>8, <1>9 DEF Safe

\* Counting goes on from 1.
LEMMA CountedStep == Counted /\ [DeployNext]_deployVars => Counted'
<1> SUFFICES ASSUME Counted, [DeployNext]_deployVars PROVE k' = k \/ k' = 1 \/ k' = k + 1
  BY DEF Counted
<1>1. CASE StepActs
  BY <1>1 DEF StepActs, ResolveCommit, ResolveEnv, UseImage, Prune, Quietly, Build, ListPrevious,
      Rehearse, RetryStops, Attempt, AttemptReturns, RunOnce, Switch, ReplaceStop, ReplaceRemove,
      RunContainer, StartEnds, Poll, WaitTimesOut, WaitEnds, DrainCut, DrainEnds, StopOne, RemoveOne,
      StopEnds, GivesUp, Succeeds, Fails, local
<1>2. QED
  BY <1>1 DEF DeployNext, EngineActs, Operator, EnterStep, CrashLoop, deploy, local, deployVars

\* Every step of a deploy keeps all of it.
LEMMA SafeStep ==
    ASSUME TypeOK, Progress, Safe, Counted, \A p \in Plans : Orderly(p), [DeployNext]_deployVars
    PROVE  Safe'
<1>1. [Next]_vars /\ Orderly(plan)
  BY StepIsEngineStep DEF Safe, World, Linked
<1>2. CASE EngineActs \/ Operator \/ EnterStep
  BY <1>2, EngineSafe
<1>3. ASSUME NEW n \in Fragile, CrashLoop(n) PROVE Safe'
  BY <1>3, CrashSafe
<1>4. CASE UNCHANGED deployVars
  <2>1. UNCHANGED <<vars, config, host, upstreams, acted, judged, fell, sub, k, stale, target>>
    BY <1>4 DEF deployVars, deploy, world, local, falls
  <2>2. /\ \A kind : (At(kind)' <=> At(kind)) /\ (Executes(kind)' <=> Executes(kind))
        /\ \A kind : (Behind(kind)' <=> Behind(kind)) /\ (Has(kind)' <=> Has(kind))
        /\ (Manned' <=> Manned)
        /\ UNCHANGED <<plan, previous, check, pipe, mode, pc, cancelled>>
    BY <2>1, Within
  <2>3. QED
    BY <2>1, <2>2 DEF Safe, World, HostOK, Linked, Kept, Relay, Proven, SchemaFirst, Deeds, Did,
                      Booted, Retired, Loops
<1>5. CASE StepActs
  <2>1. ASSUME NEW ok \in BOOLEAN,
               \/ ResolveCommit(ok) \/ ResolveEnv(ok) \/ UseImage(ok) \/ Prune(ok) \/ Build(ok)
               \/ Rehearse \/ RetryStops
        PROVE  Safe'
    BY <1>1, <2>1, QuietSafe
  <2>2. ASSUME NEW said \in Said, NEW effect \in BOOLEAN, Attempt \/ AttemptReturns(said, effect)
        PROVE  Safe'
    BY <1>1, <2>2, AttemptSafe
  <2>3. ASSUME NEW ok \in BOOLEAN, NEW effect \in BOOLEAN, RunOnce(ok, effect) \/ Switch(ok, effect)
        PROVE  Safe'
    BY <1>1, <2>3, RunOnceSafe, SwitchSafe
  <2>4. ASSUME NEW effect \in BOOLEAN, ReplaceStop(effect) \/ ReplaceRemove(effect) PROVE Safe'
    BY <1>1, <2>4, ReplaceSafe
  <2>5. ASSUME NEW ok \in BOOLEAN, NEW left \in {"absent", "up", "looping", "stopped"},
               RunContainer(ok, left)
        PROVE  Safe'
    BY <1>1, <2>5, RunContainerSafe
  <2>6. ASSUME NEW seen, Poll(seen) PROVE Safe'
    BY <1>1, <2>6, PollSafe
  <2>7. CASE StartEnds \/ WaitTimesOut \/ WaitEnds \/ DrainCut \/ DrainEnds \/ StopEnds
    BY <1>1, <2>7, StartEndsSafe, WaitSafe, DrainSafe
  <2>8. ASSUME NEW ok \in BOOLEAN, ListPrevious(ok) PROVE Safe'
    BY <1>1, <2>8, ListSafe
  <2>9. ASSUME NEW n \in Name, NEW ok \in BOOLEAN, NEW effect \in BOOLEAN,
               StopOne(n, ok, effect) \/ RemoveOne(ok, effect)
        PROVE  Safe'
    BY <1>1, <2>9, StopSafe
  <2>10. Name # {}
    BY NamesAssumption
  <2>11. "ok" \in Said /\ Said # {}
    BY DEF Said
  <2>12. QED
    BY <1>5, <2>1, <2>2, <2>3, <2>4, <2>5, <2>6, <2>7, <2>8, <2>9, <2>10, <2>11 DEF StepActs
<1>6. QED
  BY <1>2, <1>3, <1>4, <1>5 DEF DeployNext

\* It holds to begin with: the old release runs and has the traffic.
LEMMA SafeStart == DeployInit => Safe /\ Counted
<1> SUFFICES ASSUME DeployInit PROVE Safe /\ Counted
  OBVIOUS
<1>1. Init /\ TypeOK /\ pc = "new" /\ i = 1 /\ plan \in Plans /\ pipe = Steps(plan)
  BY TypeStart DEF DeployInit, Init
<1>2. previous \subseteq Name /\ check \in {"probe", "declared", "uptime"}
  BY NamesAssumption DEF DeployInit
<1>3. HostOK /\ \A n \in previous : host[n] \in Live
  BY <1>2 DEF DeployInit, HostOK, Live
<1>4. SchemaFirst
  <2>1. InRelease \subseteq Name
    BY NamesAssumption DEF InRelease, Elems
  <2>2. QED
    BY <2>1 DEF DeployInit, SchemaFirst
<1>5. World
  BY <1>1, <1>2, <1>3, <1>4 DEF DeployInit, World, Linked, Kept, Relay
<1>6. \A n \in DOMAIN plan : ~Passed(n)
  BY <1>1, <1>5, PlanShape DEF Passed, World
<1>7. Deeds
  BY <1>6 DEF Deeds, Behind
<1>8. Loops
  BY <1>1 DEF Loops, Executes, At
<1>9. QED
  BY <1>5, <1>7, <1>8 DEF Safe, Counted, DeployInit

\* So it always holds, if the plans are in order.
LEMMA SafeHolds == ASSUME \A p \in Plans : Orderly(p) PROVE DeploySpec => []Safe
<1>1. DeploySpec => []TypeOK /\ []Progress
  BY DeployImplementsPipeline, PipelineTypeCorrect, ProgressHolds, PTL
<1>2. TypeOK /\ Progress /\ Safe /\ Counted /\ [DeployNext]_deployVars => Safe' /\ Counted'
  BY SafeStep, CountedStep
<1>3. QED
  BY <1>1, <1>2, SafeStart, PTL DEF DeploySpec

\* No deploy opens a window with nothing running, whatever its steps, its
\* commands' failures, its crash loops, its reruns and the moment it is
\* cancelled, as long as its author keeps the documented order: StopPrevious
\* (steps/docker) touches the old release only when WaitHealthy has judged every
\* container of the new one, and nothing after that starts a container again.
THEOREM DeployNoOutage ==
    ASSUME \A p \in Plans : Orderly(p)
    PROVE  DeploySpec => []NoOutage
<1>1. Safe => NoOutage
  <2> SUFFICES ASSUME Safe, Prior # {}, fell = {}
               PROVE  \/ \E n \in Prior : host[n] \in Live
                      \/ /\ InRelease \subseteq judged
                         /\ \A n \in InRelease : host[n] = "up" \/ (host[n] = "looping" /\ check # "uptime")
    BY DEF NoOutage
  <2>1. CASE \A n \in previous \ InRelease : host[n] \in Live
    BY <2>1 DEF Prior
  <2>2. CASE Proven
    BY <2>2 DEF Proven, Safe, World, Kept, Live
  <2>3. QED
    BY <2>1, <2>2 DEF Safe, World, Relay
<1>2. QED
  BY <1>1, SafeHolds, PTL

\* In the documented order the proxy always points at running containers, the
\* old ones or new ones that WaitHealthy judged: SwitchTraffic comes after the
\* wait and before StopPrevious.
THEOREM DeployTrafficServed ==
    ASSUME \A p \in Plans : Orderly(p)
    PROVE  DeploySpec => []TrafficServed
<1>1. Safe => TrafficServed
  <2> SUFFICES ASSUME Safe, Has("switch-traffic"), previous \cap InRelease = {}, NEW n \in upstreams
               PROVE  host[n] \in Live /\ (n \in previous \/ n \in judged)
    BY DEF TrafficServed
  <2>1. CASE n \in judged
    BY <2>1 DEF Safe, World, Kept
  <2>2. CASE n \notin judged
    <3>1. upstreams = previous \cap Own /\ n \in previous \ InRelease
      BY <2>2, NamesAssumption DEF Safe, World, Relay, Proven
    <3>2. upstreams # Routed
      BY <3>1, NamesAssumption
    <3>3. QED
      BY <3>1, <3>2 DEF Safe, World, Relay
  <2>3. QED
    BY <2>1, <2>2
<1>2. QED
  BY <1>1, SafeHolds, PTL

\* When a deploy reports success every container of its release is there and no
\* other container of this tool's is running: Start and StopPrevious return nil
\* only when their loops have covered every name.
THEOREM DeployOneRelease ==
    ASSUME \A p \in Plans : Orderly(p)
    PROVE  DeploySpec => []OneRelease
<1>1. TypeOK /\ Progress /\ Safe => OneRelease
  <2> SUFFICES ASSUME TypeOK, Progress, Safe, result = "ok", mode = "execute" PROVE OneRelease
    BY DEF OneRelease
  <2>1. ASSUME NEW kind, Has(kind) PROVE Behind(kind)
    <3>1. PICK n \in DOMAIN plan : plan[n] = kind
      BY <2>1 DEF Has, Elems
    <3>2. n < i
      BY PlanShape DEF Progress, Safe, World
    <3>3. QED
      BY <3>1, <3>2, Earlier
  <2>2. QED
    BY <2>1 DEF Safe, Deeds, Booted, Retired, OneRelease
<1>2. DeploySpec => []TypeOK /\ []Progress
  BY DeployImplementsPipeline, PipelineTypeCorrect, ProgressHolds, PTL
<1>3. QED
  BY <1>1, <1>2, SafeHolds, PTL

\* No container of a new release exists before the image was pulled and the
\* migration ran.  Retry hides a cancelled pull behind nil; the engine looks at
\* ctx before it enters Start.
THEOREM DeploySchemaFirst ==
    ASSUME \A p \in Plans : Orderly(p)
    PROVE  DeploySpec => []SchemaFirst
<1>1. Safe => SchemaFirst
  BY DEF Safe, World
<1>2. QED
  BY <1>1, SafeHolds, PTL

-----------------------------------------------------------------------------
(* A step's own loops: over attempts, replicas and stale containers.        *)

\* A step counts up to what it has to do, and a container being removed is one
\* of those still to be.
Measured ==
    pc = "running" =>
        /\ k \in Nat \ {0}
        /\ plan[i] \in Registry => k <= Attempts /\ sub \in {"begin", "call"}
        /\ plan[i] = "start-processes" =>
               /\ sub \in {"begin", "rm", "run"} /\ k <= Len(Release) + 1
               /\ sub # "begin" => k <= Len(Release)
        /\ plan[i] = "wait-healthy" => k <= Len(Release) + 1
        /\ plan[i] = "stop-previous" =>
               /\ sub \in {"begin", "drain", "stop", "rm"} /\ stale \subseteq Matches
               /\ sub = "rm" => target \in stale

\* What a step does that is no poll, signal or crash.
Lessens == Measured' /\ Work' \in 0 .. Work - 1

\* The attempts of a registry step.
LEMMA TriesLessen ==
  ASSUME Measured, pc = "running", plan[i] \in Registry,
         UNCHANGED <<pc, plan, i>>,
         \/ sub = "begin" /\ sub' = "call" /\ k' = k
         \/ sub = "call" /\ sub' = "begin" /\ k' = k + 1 /\ k < Attempts
  PROVE  Lessens
<1>1. /\ plan[i] # "start-processes" /\ plan[i] # "wait-healthy" /\ plan[i] # "stop-previous"
      /\ k \in Nat \ {0} /\ k <= Attempts /\ Attempts \in Nat /\ plan'[i'] = plan[i] /\ pc' = "running"
  BY BoundsAssumption DEF Measured, Registry
<1>2. Measured'
  BY <1>1 DEF Measured
<1>3. /\ Work = 2 * (Attempts - k) + (IF sub = "begin" THEN 1 ELSE 0)
      /\ Work' = 2 * (Attempts - k') + (IF sub' = "begin" THEN 1 ELSE 0)
  BY <1>1 DEF Work
<1>4. QED
  BY <1>1, <1>2, <1>3 DEF Lessens

\* The replicas that are started.
LEMMA StartsLessen ==
  ASSUME Measured, pc = "running", plan[i] = "start-processes", k <= Len(Release),
         UNCHANGED <<pc, plan, i>>,
         \/ sub = "begin" /\ sub' = "rm" /\ k' = k
         \/ sub = "rm" /\ sub' = "run" /\ k' = k
         \/ sub \in {"run", "begin"} /\ sub' = "begin" /\ k' = k + 1
  PROVE  Lessens
<1>1. /\ plan[i] \notin Registry /\ k \in Nat \ {0} /\ Len(Release) \in Nat
      /\ plan'[i'] = plan[i] /\ pc' = "running"
  BY NamesAssumption DEF Measured, Registry
<1>2. Measured'
  BY <1>1 DEF Measured
<1>3. /\ Work = 3 * (Len(Release) + 1 - k) + (IF sub = "begin" THEN 2 ELSE IF sub = "rm" THEN 1 ELSE 0)
      /\ Work' = 3 * (Len(Release) + 1 - k') + (IF sub' = "begin" THEN 2 ELSE IF sub' = "rm" THEN 1 ELSE 0)
  BY <1>1 DEF Work
<1>4. QED
  BY <1>1, <1>2, <1>3 DEF Lessens

\* The replicas that are judged.
LEMMA WaitsLessen ==
  ASSUME Measured, pc = "running", plan[i] = "wait-healthy", k <= Len(Release),
         UNCHANGED <<pc, plan, i>>, k' = k + 1
  PROVE  Lessens
<1>1. /\ plan[i] \notin Registry /\ k \in Nat \ {0} /\ Len(Release) \in Nat
      /\ plan'[i'] = plan[i] /\ pc' = "running"
  BY NamesAssumption DEF Measured, Registry
<1>2. Measured'
  BY <1>1 DEF Measured
<1>3. Work = Len(Release) + 1 - k /\ Work' = Len(Release) + 1 - k'
  BY <1>1 DEF Work
<1>4. QED
  BY <1>1, <1>2, <1>3 DEF Lessens

\* The containers that are stopped and removed.
LEMMA StopsLessen ==
  ASSUME Measured, pc = "running", plan[i] = "stop-previous",
         UNCHANGED <<pc, plan, i, k>>,
         \/ sub = "begin" /\ sub' = "drain" /\ stale' \subseteq Matches
         \/ sub = "drain" /\ sub' = "stop" /\ stale' = stale
         \/ sub = "stop" /\ sub' = "rm" /\ stale' = stale /\ target' \in stale
         \/ sub = "rm" /\ sub' = "stop" /\ stale' = stale \ {target}
  PROVE  Lessens
<1>1. /\ plan[i] \notin Registry /\ plan'[i'] = plan[i] /\ pc' = "running"
      /\ k \in Nat \ {0} /\ stale \subseteq Matches
  BY DEF Measured, Registry
<1>2. stale' \subseteq Matches
  BY <1>1
<1>3. Measured'
  BY <1>1, <1>2 DEF Measured
<1>4. IsFiniteSet(Matches)
  BY NamesAssumption, FS_Subset
<1>5. /\ Cardinality(Matches) \in Nat /\ Cardinality(stale) \in Nat /\ Cardinality(stale') \in Nat
      /\ Cardinality(stale') <= Cardinality(Matches) /\ IsFiniteSet(stale)
  BY <1>1, <1>2, <1>4, FS_Subset, FS_CardinalityType
<1>6. sub = "rm" => Cardinality(stale') = Cardinality(stale) - 1
  BY <1>5, FS_RemoveElement DEF Measured
<1>7. Work = IF sub = "begin" THEN 2 * Cardinality(Matches) + 3
             ELSE 2 * Cardinality(stale) + (IF sub = "drain" THEN 2 ELSE IF sub = "stop" THEN 1 ELSE 0)
  BY <1>1 DEF Work
<1>8. Work' = IF sub' = "begin" THEN 2 * Cardinality(Matches) + 3
              ELSE 2 * Cardinality(stale') + (IF sub' = "drain" THEN 2 ELSE IF sub' = "stop" THEN 1 ELSE 0)
  BY <1>1 DEF Work
<1>9. QED
  BY <1>3, <1>5, <1>6, <1>7, <1>8 DEF Lessens

\* Every move of a step lessens its work or is excepted.
LEMMA StepLessens ==
  ASSUME Measured, pc = "running", pc' = "running", DeployNext
  PROVE  \/ Lessens
         \/ Measured' /\ (Poll("wait") \/ Cancel \/ \E n \in Fragile : CrashLoop(n))
<1>1. \A set : ~Succeeds(set) /\ ~Fails(set)
  BY ReturnsLeave DEF Succeeds, Fails
<1>2. Continues /\ UNCHANGED config => UNCHANGED <<pc, plan, i>>
  BY DEF Continues, vars, config
<1>3. ASSUME UNCHANGED <<pc, plan, i, local>> PROVE Measured'
  BY <1>3 DEF Measured, local
<1>4. CASE EngineActs \/ EnterStep
  BY <1>4 DEF EngineActs, NewState, Reject, PrintPlan, PlanFails, Return, Begin, LoopEnds, Leave,
              Finish, EnterStep, StepStarts
<1>5. CASE Operator
  <2>1. Cancel /\ UNCHANGED deploy
    BY <1>5 DEF Operator, PauseReturns
  <2>2. UNCHANGED <<pc, plan, i, local>>
    BY <2>1 DEF Cancel, deploy, config
  <2>3. QED
    BY <1>3, <2>1, <2>2
<1>6. ASSUME NEW n \in Fragile, CrashLoop(n) PROVE Measured'
  <2>1. UNCHANGED <<pc, plan, i, local>>
    BY <1>6 DEF CrashLoop, vars, config
  <2>2. QED
    BY <1>3, <2>1
<1>7. CASE StepActs
  <2>1. ASSUME NEW ok \in BOOLEAN,
               ResolveCommit(ok) \/ ResolveEnv(ok) \/ UseImage(ok) \/ Prune(ok) \/ Build(ok)
        PROVE  FALSE
    BY <1>1, <2>1 DEF ResolveCommit, ResolveEnv, UseImage, Prune, Build, Quietly
  <2>2. ~(Rehearse \/ RetryStops \/ StartEnds \/ WaitTimesOut \/ WaitEnds \/ DrainCut \/ StopEnds)
    BY <1>1 DEF Rehearse, RetryStops, StartEnds, WaitTimesOut, WaitEnds, DrainCut, StopEnds
  <2>3. ASSUME NEW ok \in BOOLEAN, NEW effect \in BOOLEAN, RunOnce(ok, effect) \/ Switch(ok, effect)
        PROVE  FALSE
    BY <1>1, <2>3 DEF RunOnce, Switch
  <2>4. RegistryStep => plan[i] \in Registry
    BY DEF RegistryStep, Login, Push, Pull, Executes, At, Registry
  <2>5. CASE Attempt
    <3>1. RegistryStep /\ sub = "begin" /\ sub' = "call" /\ k' = k /\ UNCHANGED <<pc, plan, i>>
      BY <1>2, <2>5 DEF Attempt
    <3>2. QED
      BY <2>4, <3>1, TriesLessen
  <2>6. ASSUME NEW said \in Said, NEW effect \in BOOLEAN, AttemptReturns(said, effect) PROVE Lessens
    <3>1. /\ RegistryStep /\ sub = "call" /\ sub' = "begin" /\ k' = k + 1 /\ k < Attempts
          /\ UNCHANGED <<pc, plan, i>>
      BY <1>1, <1>2, <2>6 DEF AttemptReturns, GivesUp, TriesLeft
    <3>2. QED
      BY <2>4, <3>1, TriesLessen
  <2>7. ASSUME NEW effect \in BOOLEAN, ReplaceStop(effect) \/ ReplaceRemove(effect) PROVE Lessens
    <3>1. /\ plan[i] = "start-processes" /\ k <= Len(Release) /\ k' = k /\ UNCHANGED <<pc, plan, i>>
          /\ (sub = "begin" /\ sub' = "rm") \/ (sub = "rm" /\ sub' = "run")
      BY <1>2, <2>7 DEF ReplaceStop, ReplaceRemove, Starting, Executes, At
    <3>2. QED
      BY <3>1, StartsLessen
  <2>8. ASSUME NEW ok \in BOOLEAN, NEW left, RunContainer(ok, left) PROVE Lessens
    <3>1. /\ plan[i] = "start-processes" /\ k <= Len(Release) /\ UNCHANGED <<pc, plan, i>>
          /\ sub \in {"run", "begin"} /\ sub' = "begin" /\ k' = k + 1
      BY <1>1, <1>2, <2>8 DEF RunContainer, Starting, Executes, At
    <3>2. QED
      BY <3>1, StartsLessen
  <2>9. ASSUME NEW seen \in {"ready", "wait", "bad"}, Poll(seen)
        PROVE  Lessens \/ (Measured' /\ Poll("wait"))
    <3>1. plan[i] = "wait-healthy" /\ k <= Len(Release) /\ UNCHANGED <<pc, plan, i>>
      BY <1>1, <1>2, <2>9 DEF Poll, Probing, Executes, At
    <3>2. CASE seen = "wait"
      <4>1. UNCHANGED <<sub, k, stale, target>>
        BY <2>9, <3>2 DEF Poll
      <4>2. Measured'
        BY <3>1, <4>1 DEF Measured
      <4>3. QED
        BY <2>9, <3>2, <4>2
    <3>3. CASE seen # "wait"
      <4>1. k' = k + 1
        BY <1>1, <2>9, <3>3 DEF Poll
      <4>2. QED
        BY <3>1, <4>1, WaitsLessen
    <3>4. QED
      BY <3>2, <3>3
  <2>10. ASSUME NEW ok \in BOOLEAN, ListPrevious(ok) PROVE Lessens
    <3>1. /\ plan[i] = "stop-previous" /\ UNCHANGED <<pc, plan, i, k>>
          /\ sub = "begin" /\ sub' = "drain" /\ stale' = PreviousNames
      BY <1>1, <1>2, <2>10 DEF ListPrevious, At
    <3>2. stale' \subseteq Matches
      BY <3>1 DEF PreviousNames, Names
    <3>3. QED
      BY <3>1, <3>2, StopsLessen
  <2>11. CASE DrainEnds
    <3>1. /\ plan[i] = "stop-previous" /\ UNCHANGED <<pc, plan, i, k>>
          /\ sub = "drain" /\ sub' = "stop" /\ stale' = stale
      BY <1>2, <2>11 DEF DrainEnds, At
    <3>2. QED
      BY <3>1, StopsLessen
  <2>12. ASSUME NEW n \in Name, NEW ok \in BOOLEAN, NEW effect \in BOOLEAN, StopOne(n, ok, effect)
         PROVE  Lessens
    <3>1. /\ plan[i] = "stop-previous" /\ UNCHANGED <<pc, plan, i, k>>
          /\ sub = "stop" /\ sub' = "rm" /\ stale' = stale /\ target' \in stale
      BY <1>1, <1>2, <2>12 DEF StopOne, At
    <3>2. QED
      BY <3>1, StopsLessen
  <2>13. ASSUME NEW ok \in BOOLEAN, NEW effect \in BOOLEAN, RemoveOne(ok, effect) PROVE Lessens
    <3>1. /\ plan[i] = "stop-previous" /\ UNCHANGED <<pc, plan, i, k>>
          /\ sub = "rm" /\ sub' = "stop" /\ stale' = stale \ {target}
      BY <1>1, <1>2, <2>13 DEF RemoveOne, At, AfterRemove
    <3>2. QED
      BY <3>1, StopsLessen
  <2>14. QED
    BY <1>7, <2>1, <2>2, <2>3, <2>5, <2>6, <2>7, <2>8, <2>9, <2>10, <2>11, <2>12, <2>13 DEF StepActs
<1>8. QED
  BY <1>4, <1>5, <1>6, <1>7 DEF DeployNext

\* A step begins with everything to do.
LEMMA MeasuredStep == Measured /\ [DeployNext]_deployVars => Measured'
<1> SUFFICES ASSUME Measured, [DeployNext]_deployVars, pc' = "running" PROVE Measured'
  BY DEF Measured
<1>1. CASE UNCHANGED deployVars
  BY <1>1 DEF Measured, deployVars, vars, deploy, config, local
<1>2. CASE DeployNext /\ pc = "running"
  BY <1>2, StepLessens DEF Lessens
<1>3. CASE DeployNext /\ pc # "running"
  <2>1. ~StepActs /\ ~(\E n \in Fragile : CrashLoop(n))
    <3>1. \A set : ~Succeeds(set) /\ ~Fails(set)
      BY ReturnsLeave DEF Succeeds, Fails
    <3>2. StepActs => FALSE
      BY <1>3, <3>1 DEF StepActs, ResolveCommit, ResolveEnv, UseImage, Prune, Build, Quietly, Rehearse,
         ListPrevious, RegistryStep, Login, Push, Pull, RetryStops, Attempt, AttemptReturns, RunOnce, Switch,
         ReplaceStop, ReplaceRemove, RunContainer, Starting, StartEnds, Poll, Probing, WaitTimesOut,
         WaitEnds, DrainCut, DrainEnds, StopOne, RemoveOne, StopEnds, Executes, At
    <3>3. \A n : ~CrashLoop(n)
      BY <1>3 DEF CrashLoop, vars
    <3>4. QED
      BY <3>2, <3>3
  <2>2. ~EngineActs /\ ~Operator
    BY <1>3 DEF EngineActs, NewState, Reject, PrintPlan, PlanFails, Return, Begin, LoopEnds, Leave, Finish,
       Operator, Cancel, PauseReturns, MoveOn, Advance, Rerun
  <2>3. EnterStep
    BY <1>3, <2>1, <2>2 DEF DeployNext
  <2>4. sub' = "begin" /\ k' = 1 /\ stale' = {}
    BY <2>3 DEF EnterStep
  <2>5. Len(Release) \in Nat /\ Attempts \in Nat \ {0}
    BY NamesAssumption, BoundsAssumption
  <2>6. QED
    BY <2>4, <2>5 DEF Measured
<1>4. QED
  BY <1>1, <1>2, <1>3

\* No docker step goes round in circles (StepDescends), whatever the plan, the
\* host and the outcomes of the commands: retries, replicas and containers to
\* retire run out, and only a wait's deadline is left to trust.
THEOREM DeployStepDescends == DeploySpec => StepDescends
<1>1. DeployInit => Measured
  BY DEF DeployInit, Init, Measured
<1>2. Measured /\ [DeployNext]_deployVars =>
        [pc = "running" /\ pc' = "running" =>
           \/ Work' \in 0 .. Work - 1
           \/ Poll("wait") \/ Cancel \/ \E n \in Fragile : CrashLoop(n)]_deployVars
  BY StepLessens DEF Lessens
<1>3. QED
  BY <1>1, <1>2, MeasuredStep, PTL DEF DeploySpec, StepDescends
=============================================================================
