--------------------------- MODULE SuperviseProofs ---------------------------
(***************************************************************************)
(* Proofs about Supervise, for every policy a caller may write.            *)
(***************************************************************************)
EXTENDS Supervise, TLAPS

Limited == p.MaxRestarts # Unlimited

\* Calls and restarts run in step, and a limited loop that goes on has
\* attempts left: the strengthening that makes AttemptsBounded inductive.
AttemptsInv ==
    /\ pc = "top" => calls = restarts
    /\ pc \in {"fn", "sleep"} => calls = restarts + 1
    /\ Limited /\ pc \in {"top", "fn"} => restarts < p.MaxRestarts
    /\ Limited /\ pc = "sleep" => restarts < p.MaxRestarts - 1
    /\ Limited => calls <= p.MaxRestarts
    /\ result = "tooMany" => pc = "done" /\ calls = p.MaxRestarts

\* The next delay obeys the bound too.
DelayInv == DelayBounded /\ (backoff <= p.Max \/ backoff <= p.Backoff)

\* withDefaults turns any policy into one with positive delays and a positive
\* limit, or none.
LEMMA DefaultsAreSafe ==
  ASSUME NEW q \in [Backoff: Int, Max: Int, MaxRestarts: Int]
  PROVE  withDefaults(q) \in [Backoff: Nat \ {0}, Max: Nat \ {0},
                              MaxRestarts: (Nat \ {0}) \cup {Unlimited}]
  BY DEF withDefaults, DefaultBackoff, DefaultMax, DefaultMaxRestarts, Unlimited

\* Every variable keeps its type, for every policy: the delays and the limit
\* in force are positive even where a caller wrote zero or less.
THEOREM SuperviseTypeCorrect == Spec => []TypeOK
<1>1. Init => TypeOK
  <2> SUFFICES ASSUME Init PROVE TypeOK
    OBVIOUS
  <2>1. p \in [Backoff: Nat \ {0}, Max: Nat \ {0}, MaxRestarts: (Nat \ {0}) \cup {Unlimited}]
    BY PoliciesAssumption, DefaultsAreSafe DEF Init
  <2>2. healthy \in BOOLEAN /\ cancelled \in BOOLEAN
    BY Zenon DEF Init
  <2>3. QED
    BY <2>1, <2>2 DEF Init, TypeOK
<1>2. TypeOK /\ [Next]_vars => TypeOK'
  <2> SUFFICES ASSUME TypeOK, [Next]_vars PROVE TypeOK'
    OBVIOUS
  <2> USE DEF TypeOK, Return
  <2>1. CASE Top
    BY <2>1 DEF Top
  <2>2. ASSUME NEW err \in Errs, NEW lasted \in BOOLEAN, FnReturns(err, lasted)
        PROVE  TypeOK'
    BY <2>2 DEF FnReturns, Rescheduled
  <2>3. CASE SleepInterrupted
    BY <2>3 DEF SleepInterrupted
  <2>4. CASE SleepEnds
    <3>1. Grown \in Nat \ {0}
      BY DEF Grown, backoffFactor
    <3>2. QED
      BY <2>4, <3>1 DEF SleepEnds
  <2>5. CASE Cancel
    BY <2>5 DEF Cancel
  <2>6. CASE UNCHANGED vars
    BY <2>6 DEF vars
  <2>7. QED
    BY <2>1, <2>2, <2>3, <2>4, <2>5, <2>6 DEF Next, RunLoop
<1>3. QED
  BY <1>1, <1>2, PTL DEF Spec

\* The restart limit is exact (AttemptsBounded), whatever fn returns, however
\* long it lasts and whenever the context is cancelled.
THEOREM SuperviseAttemptsBounded == Spec => []AttemptsBounded
<1>1. Init /\ TypeOK => AttemptsInv
  BY DEF Init, AttemptsInv, Limited, TypeOK, Unlimited
<1>2. TypeOK /\ TypeOK' /\ AttemptsInv /\ [Next]_vars => AttemptsInv'
  <2> SUFFICES ASSUME TypeOK, TypeOK', AttemptsInv, [Next]_vars PROVE AttemptsInv'
    OBVIOUS
  <2> USE DEF TypeOK, AttemptsInv, Limited, Unlimited, Return
  <2>1. CASE Top
    BY <2>1 DEF Top
  <2>2. ASSUME NEW err \in Errs, NEW lasted \in BOOLEAN, FnReturns(err, lasted)
        PROVE  AttemptsInv'
    BY <2>2 DEF FnReturns, Exhausted
  <2>3. CASE SleepInterrupted
    BY <2>3 DEF SleepInterrupted
  <2>4. CASE SleepEnds
    BY <2>4 DEF SleepEnds
  <2>5. CASE Cancel
    BY <2>5 DEF Cancel
  <2>6. CASE UNCHANGED vars
    BY <2>6 DEF vars
  <2>7. QED
    BY <2>1, <2>2, <2>3, <2>4, <2>5, <2>6 DEF Next, RunLoop
<1>3. AttemptsInv => AttemptsBounded
  BY DEF AttemptsInv, AttemptsBounded, Limited
<1>4. QED
  BY <1>1, <1>2, <1>3, SuperviseTypeCorrect, PTL DEF Spec

\* No delay exceeds both the cap and the first delay (DelayBounded).
THEOREM SuperviseDelayBounded == Spec => []DelayBounded
<1>1. Init /\ TypeOK => DelayInv
  BY DEF Init, DelayInv, DelayBounded, TypeOK
<1>2. TypeOK /\ TypeOK' /\ DelayInv /\ [Next]_vars => DelayInv'
  <2> SUFFICES ASSUME TypeOK, TypeOK', DelayInv, [Next]_vars PROVE DelayInv'
    OBVIOUS
  <2> USE DEF TypeOK, DelayInv, DelayBounded, Return
  <2>1. CASE Top
    BY <2>1 DEF Top
  <2>2. ASSUME NEW err \in Errs, NEW lasted \in BOOLEAN, FnReturns(err, lasted)
        PROVE  DelayInv'
    BY <2>2 DEF FnReturns, Rescheduled
  <2>3. CASE SleepInterrupted
    BY <2>3 DEF SleepInterrupted
  <2>4. CASE SleepEnds
    BY <2>4 DEF SleepEnds, Grown, backoffFactor
  <2>5. CASE Cancel
    BY <2>5 DEF Cancel
  <2>6. CASE UNCHANGED vars
    BY <2>6 DEF vars
  <2>7. QED
    BY <2>1, <2>2, <2>3, <2>4, <2>5, <2>6 DEF Next, RunLoop
<1>3. DelayInv => DelayBounded
  BY DEF DelayInv
<1>4. QED
  BY <1>1, <1>2, <1>3, SuperviseTypeCorrect, PTL DEF Spec

\* A cancelled loop is over (NoCallAfterCancel): fn is not called again, be it
\* that the sleep's select took the timer rather than ctx.Done.
THEOREM SuperviseNoCallAfterCancel == Spec => NoCallAfterCancel
<1>1. [Next]_vars => [cancelled => calls' = calls]_vars
  <2> SUFFICES ASSUME Next, cancelled PROVE calls' = calls
    OBVIOUS
  <2>1. CASE Top
    BY <2>1 DEF Top, Stopped
  <2>2. ASSUME NEW err \in Errs, NEW lasted \in BOOLEAN, FnReturns(err, lasted)
        PROVE  calls' = calls
    BY <2>2 DEF FnReturns
  <2>3. CASE SleepInterrupted \/ SleepEnds \/ Cancel
    BY <2>3 DEF SleepInterrupted, SleepEnds, Cancel
  <2>4. QED
    BY <2>1, <2>2, <2>3 DEF Next, RunLoop
<1>2. QED
  BY <1>1, PTL DEF Spec, NoCallAfterCancel
=============================================================================
