----------------------------- MODULE ProcProofs -----------------------------
(***************************************************************************)
(* For any number of goroutines in Wait and in Stop: the program is reaped *)
(* by one of them, all of them get the answer it made, that answer is how  *)
(* the program ended, and a kill by the watchdog is reported as a timeout. *)
(***************************************************************************)
EXTENDS Proc, TLAPS

Busy == {"reap", "release", "load"}

\* The types the argument needs.
Shape ==
    /\ child \in {"unborn", "running", "zombie", "reaped", "failed"}
    /\ fate \in Fates \cup {None}
    /\ watch \in {"off", "select", "kill", "returned"}
    /\ once \in {"free", "busy", "done"}
    /\ wait \in [Callers -> {"idle", "call", "reap", "release", "load", "returned"}]
    /\ DOMAIN told = Callers
    /\ watch = "off" <=> child \in {"unborn", "failed"}
    /\ child \in {"zombie", "reaped"} => fate \in Fates

\* sync.Once: one goroutine is in wait(), and it alone reaps.
OneReaper ==
    /\ once = "free" => child # "reaped"
    /\ \A c \in Callers : wait[c] \in Busy => once = "busy"
    /\ \A c, d \in Callers : wait[c] \in Busy /\ wait[d] \in Busy => c = d
    /\ \A c \in Callers : wait[c] = "reap" => child # "reaped"
    /\ \A c \in Callers : wait[c] \in {"release", "load"} =>
            child = "reaped" /\ waitErr \in {fate, "io"}

\* The answer is made when wait() is done, of what cmd.Wait said.
Made ==
    /\ answer # None <=> once = "done"
    /\ answer # None =>
        /\ child = "reaped"
        /\ answer.err = "nil" => answer.res = resultFrom(fate)
        /\ answer.err = "timeout" => timedOut
        /\ shot => answer.err = "timeout"

\* The watchdog records why before it kills, and kills once.
Recorded ==
    /\ timedOut => late
    /\ watch = "kill" => timedOut
    /\ shot => timedOut /\ watch = "returned"

Same == \A c \in Callers : told[c] # None => told[c] = answer /\ answer # None

Inv == Shape /\ OneReaper /\ Made /\ Recorded /\ Same
-----------------------------------------------------------------------------
\* resultFrom gives a Result for every way cmd.Wait may answer.
LEMMA ResultType ==
  ASSUME NEW e \in Fates \cup {"io"}
  PROVE  resultFrom(e) \in [code: 0 .. 255, signalled: BOOLEAN]
BY DEF resultFrom, Fates, SIGTERM, SIGKILL

\* The initial state.
LEMMA InitInv == Init => Inv
BY DEF Init, Inv, Shape, OneReaper, Made, Recorded, Same, Busy

\* StartFails keeps the invariant.
LEMMA StartFailsInv ==
  ASSUME Inv, StartFails
  PROVE  Inv'
<1> USE DEF StartFails, env, dog, waits, stops
<1>1. Shape'
  BY DEF Inv, Shape, Callers, Started, OneReaper, Fates
<1>2. OneReaper'
  BY DEF Inv, Shape, OneReaper, Busy, Callers, Made
<1>3. Made'
  BY DEF Inv, Shape, OneReaper, Made, Recorded, Busy
<1>4. Recorded' /\ Same'
  BY DEF Inv, Shape, Recorded, Same, Made, OneReaper, Busy
<1>5. QED
  BY <1>1, <1>2, <1>3, <1>4 DEF Inv

\* Start keeps the invariant.
LEMMA StartInv ==
  ASSUME Inv, Start
  PROVE  Inv'
<1> USE DEF Start, env, waits, stops
<1>1. Shape'
  BY DEF Inv, Shape, Callers, Started, OneReaper, Fates
<1>2. OneReaper'
  BY DEF Inv, Shape, OneReaper, Busy, Callers, Made
<1>3. Made'
  BY DEF Inv, Shape, OneReaper, Made, Recorded, Busy
<1>4. Recorded' /\ Same'
  BY DEF Inv, Shape, Recorded, Same, Made, OneReaper, Busy
<1>5. QED
  BY <1>1, <1>2, <1>3, <1>4 DEF Inv

\* ChildEnds keeps the invariant.
LEMMA ChildEndsInv ==
  ASSUME Inv, ChildEnds
  PROVE  Inv'
<1> USE DEF ChildEnds, Dies, env, dog, waits, stops
<1>1. Shape'
  BY DEF Inv, Shape, Callers, Started, OneReaper, Fates
<1>2. OneReaper'
  BY DEF Inv, Shape, OneReaper, Busy, Callers, Made
<1>3. Made'
  BY DEF Inv, Shape, OneReaper, Made, Recorded, Busy
<1>4. Recorded' /\ Same'
  BY DEF Inv, Shape, Recorded, Same, Made, OneReaper, Busy
<1>5. QED
  BY <1>1, <1>2, <1>3, <1>4 DEF Inv

\* ChildTakesSignal keeps the invariant.
LEMMA ChildTakesSignalInv ==
  ASSUME Inv, ChildTakesSignal
  PROVE  Inv'
<1> USE DEF ChildTakesSignal, Dies, env, dog, waits, stops
<1>1. Shape'
  BY DEF Inv, Shape, Callers, Started, OneReaper, Fates
<1>2. OneReaper'
  BY DEF Inv, Shape, OneReaper, Busy, Callers, Made
<1>3. Made'
  BY DEF Inv, Shape, OneReaper, Made, Recorded, Busy
<1>4. Recorded' /\ Same'
  BY DEF Inv, Shape, Recorded, Same, Made, OneReaper, Busy
<1>5. QED
  BY <1>1, <1>2, <1>3, <1>4 DEF Inv

\* HeirLetsGo keeps the invariant.
LEMMA HeirLetsGoInv ==
  ASSUME Inv, HeirLetsGo
  PROVE  Inv'
<1> USE DEF HeirLetsGo, env, dog, waits, stops
<1>1. Shape'
  BY DEF Inv, Shape, Callers, Started, OneReaper, Fates
<1>2. OneReaper'
  BY DEF Inv, Shape, OneReaper, Busy, Callers, Made
<1>3. Made'
  BY DEF Inv, Shape, OneReaper, Made, Recorded, Busy
<1>4. Recorded' /\ Same'
  BY DEF Inv, Shape, Recorded, Same, Made, OneReaper, Busy
<1>5. QED
  BY <1>1, <1>2, <1>3, <1>4 DEF Inv

\* Cancel keeps the invariant.
LEMMA CancelInv ==
  ASSUME Inv, Cancel
  PROVE  Inv'
<1> USE DEF Cancel, kern, dog, waits, stops
<1>1. Shape'
  BY DEF Inv, Shape, Callers, Started, OneReaper, Fates
<1>2. OneReaper'
  BY DEF Inv, Shape, OneReaper, Busy, Callers, Made
<1>3. Made'
  BY DEF Inv, Shape, OneReaper, Made, Recorded, Busy
<1>4. Recorded' /\ Same'
  BY DEF Inv, Shape, Recorded, Same, Made, OneReaper, Busy
<1>5. QED
  BY <1>1, <1>2, <1>3, <1>4 DEF Inv

\* TimerFires keeps the invariant.
LEMMA TimerFiresInv ==
  ASSUME Inv, TimerFires
  PROVE  Inv'
<1> USE DEF TimerFires, kern, dog, waits, stops
<1>1. Shape'
  BY DEF Inv, Shape, Callers, Started, OneReaper, Fates
<1>2. OneReaper'
  BY DEF Inv, Shape, OneReaper, Busy, Callers, Made
<1>3. Made'
  BY DEF Inv, Shape, OneReaper, Made, Recorded, Busy
<1>4. Recorded' /\ Same'
  BY DEF Inv, Shape, Recorded, Same, Made, OneReaper, Busy
<1>5. QED
  BY <1>1, <1>2, <1>3, <1>4 DEF Inv

\* WatchReleased keeps the invariant.
LEMMA WatchReleasedInv ==
  ASSUME Inv, WatchReleased
  PROVE  Inv'
<1> USE DEF WatchReleased, env, kern, waits, stops
<1>1. Shape'
  BY DEF Inv, Shape, Callers, Started, OneReaper, Fates
<1>2. OneReaper'
  BY DEF Inv, Shape, OneReaper, Busy, Callers, Made
<1>3. Made'
  BY DEF Inv, Shape, OneReaper, Made, Recorded, Busy
<1>4. Recorded' /\ Same'
  BY DEF Inv, Shape, Recorded, Same, Made, OneReaper, Busy
<1>5. QED
  BY <1>1, <1>2, <1>3, <1>4 DEF Inv

\* WatchCancelled keeps the invariant.
LEMMA WatchCancelledInv ==
  ASSUME Inv, WatchCancelled
  PROVE  Inv'
<1> USE DEF WatchCancelled, Signals, env, waits, stops
<1>1. Shape'
  BY DEF Inv, Shape, Callers, Started, OneReaper, Fates
<1>2. OneReaper'
  BY DEF Inv, Shape, OneReaper, Busy, Callers, Made
<1>3. Made'
  BY DEF Inv, Shape, OneReaper, Made, Recorded, Busy
<1>4. Recorded' /\ Same'
  BY DEF Inv, Shape, Recorded, Same, Made, OneReaper, Busy
<1>5. QED
  BY <1>1, <1>2, <1>3, <1>4 DEF Inv

\* WatchDeadline keeps the invariant.
LEMMA WatchDeadlineInv ==
  ASSUME Inv, WatchDeadline
  PROVE  Inv'
<1> USE DEF WatchDeadline, env, kern, waits, stops
<1>1. Shape'
  BY DEF Inv, Shape, Callers, Started, OneReaper, Fates
<1>2. OneReaper'
  BY DEF Inv, Shape, OneReaper, Busy, Callers, Made
<1>3. Made'
  BY DEF Inv, Shape, OneReaper, Made, Recorded, Busy
<1>4. Recorded' /\ Same'
  BY DEF Inv, Shape, Recorded, Same, Made, OneReaper, Busy
<1>5. QED
  BY <1>1, <1>2, <1>3, <1>4 DEF Inv

\* WatchKills keeps the invariant.
LEMMA WatchKillsInv ==
  ASSUME Inv, WatchKills
  PROVE  Inv'
<1> USE DEF WatchKills, Signals, env, waits, stops
<1>1. Shape'
  BY DEF Inv, Shape, Callers, Started, OneReaper, Fates
<1>2. OneReaper'
  BY DEF Inv, Shape, OneReaper, Busy, Callers, Made
<1>3. Made'
  BY DEF Inv, Shape, OneReaper, Made, Recorded, Busy
<1>4. Recorded' /\ Same'
  BY DEF Inv, Shape, Recorded, Same, Made, OneReaper, Busy
<1>5. QED
  BY <1>1, <1>2, <1>3, <1>4 DEF Inv

\* Enter keeps the invariant.
LEMMA EnterInv ==
  ASSUME NEW c \in Callers, Inv, Enter(c)
  PROVE  Inv'
<1> USE DEF Enter, Step, env, kern, dog, stops
<1>1. Shape'
  BY DEF Inv, Shape, Callers, Started, OneReaper, Fates
<1>2. OneReaper'
  BY DEF Inv, Shape, OneReaper, Busy, Callers, Made
<1>3. Made'
  BY DEF Inv, Shape, OneReaper, Made, Recorded, Busy
<1>4. Recorded' /\ Same'
  BY DEF Inv, Shape, Recorded, Same, Made, OneReaper, Busy
<1>5. QED
  BY <1>1, <1>2, <1>3, <1>4 DEF Inv

\* Reap keeps the invariant.
LEMMA ReapInv ==
  ASSUME NEW c \in Callers, Inv, Reap(c)
  PROVE  Inv'
<1> USE DEF Reap, Step, env, dog, stops
<1>1. Shape'
  BY DEF Inv, Shape, Callers, Started, OneReaper, Fates
<1>2. OneReaper'
  BY DEF Inv, Shape, OneReaper, Busy, Callers, Made
<1>3. Made'
  BY DEF Inv, Shape, OneReaper, Made, Recorded, Busy
<1>4. Recorded' /\ Same'
  BY DEF Inv, Shape, Recorded, Same, Made, OneReaper, Busy
<1>5. QED
  BY <1>1, <1>2, <1>3, <1>4 DEF Inv

\* Release keeps the invariant.
LEMMA ReleaseInv ==
  ASSUME NEW c \in Callers, Inv, Release(c)
  PROVE  Inv'
<1> USE DEF Release, Step, env, kern, dog, stops
<1>1. Shape'
  BY DEF Inv, Shape, Callers, Started, OneReaper, Fates
<1>2. OneReaper'
  BY DEF Inv, Shape, OneReaper, Busy, Callers, Made
<1>3. Made'
  BY DEF Inv, Shape, OneReaper, Made, Recorded, Busy
<1>4. Recorded' /\ Same'
  BY DEF Inv, Shape, Recorded, Same, Made, OneReaper, Busy
<1>5. QED
  BY <1>1, <1>2, <1>3, <1>4 DEF Inv

\* Load keeps the invariant.
LEMMA LoadInv ==
  ASSUME NEW c \in Callers, Inv, Load(c)
  PROVE  Inv'
<1> USE DEF Load, Step, env, kern, dog, stops
<1>1. Shape'
  BY DEF Inv, Shape, Callers, Started, OneReaper, Fates
<1>2. OneReaper'
  BY DEF Inv, Shape, OneReaper, Busy, Callers, Made
<1>3. Made'
  <2>1. child = "reaped" /\ fate \in Fates /\ waitErr \in {fate, "io"}
    BY DEF Inv, Shape, OneReaper
  <2>2. answer' \in Answers
    BY <2>1, ResultType DEF Answers, Inv, Recorded
  <2>3. answer' # None /\ once' = "done"
    BY <2>2, ProcAssumption
  <2>4. answer'.res = resultFrom(waitErr)
    OBVIOUS
  <2>5. /\ answer'.err = "nil" => waitErr # "io"
        /\ answer'.err = "timeout" => timedOut
        /\ timedOut => answer'.err = "timeout"
    OBVIOUS
  <2>6. QED
    BY <2>1, <2>3, <2>4, <2>5 DEF Inv, Made, Recorded, resultFrom
<1>4. Recorded' /\ Same'
  BY DEF Inv, Shape, Recorded, Same, Made, OneReaper, Busy
<1>5. QED
  BY <1>1, <1>2, <1>3, <1>4 DEF Inv

\* Return keeps the invariant.
LEMMA ReturnInv ==
  ASSUME NEW c \in Callers, Inv, Return(c)
  PROVE  Inv'
<1> USE DEF Return, Step, env, kern, dog, stops
<1>1. Shape'
  BY DEF Inv, Shape, Callers, Started, OneReaper, Fates
<1>2. OneReaper'
  BY DEF Inv, Shape, OneReaper, Busy, Callers, Made
<1>3. Made'
  BY DEF Inv, Shape, OneReaper, Made, Recorded, Busy
<1>4. Recorded' /\ Same'
  BY DEF Inv, Shape, Recorded, Same, Made, OneReaper, Busy
<1>5. QED
  BY <1>1, <1>2, <1>3, <1>4 DEF Inv

\* CallWait keeps the invariant.
LEMMA CallWaitInv ==
  ASSUME NEW w \in Waiters, Inv, CallWait(w)
  PROVE  Inv'
<1> USE DEF CallWait, Step, env, kern, dog, stops
<1>1. Shape'
  BY DEF Inv, Shape, Callers, Started, OneReaper, Fates
<1>2. OneReaper'
  BY DEF Inv, Shape, OneReaper, Busy, Callers, Made
<1>3. Made'
  BY DEF Inv, Shape, OneReaper, Made, Recorded, Busy
<1>4. Recorded' /\ Same'
  BY DEF Inv, Shape, Recorded, Same, Made, OneReaper, Busy
<1>5. QED
  BY <1>1, <1>2, <1>3, <1>4 DEF Inv

\* StopAsks keeps the invariant.
LEMMA StopAsksInv ==
  ASSUME NEW s \in Stoppers, Inv, StopAsks(s)
  PROVE  Inv'
<1> USE DEF StopAsks, Signals, Step, StopStep, env, dog
<1>1. Shape'
  BY DEF Inv, Shape, Callers, Started, OneReaper, Fates
<1>2. OneReaper'
  BY DEF Inv, Shape, OneReaper, Busy, Callers, Made
<1>3. Made'
  BY DEF Inv, Shape, OneReaper, Made, Recorded, Busy
<1>4. Recorded' /\ Same'
  BY DEF Inv, Shape, Recorded, Same, Made, OneReaper, Busy
<1>5. QED
  BY <1>1, <1>2, <1>3, <1>4 DEF Inv

\* StopDone keeps the invariant.
LEMMA StopDoneInv ==
  ASSUME NEW s \in Stoppers, Inv, StopDone(s)
  PROVE  Inv'
<1> USE DEF StopDone, StopStep, env, kern, dog, waits
<1>1. Shape'
  BY DEF Inv, Shape, Callers, Started, OneReaper, Fates
<1>2. OneReaper'
  BY DEF Inv, Shape, OneReaper, Busy, Callers, Made
<1>3. Made'
  BY DEF Inv, Shape, OneReaper, Made, Recorded, Busy
<1>4. Recorded' /\ Same'
  BY DEF Inv, Shape, Recorded, Same, Made, OneReaper, Busy
<1>5. QED
  BY <1>1, <1>2, <1>3, <1>4 DEF Inv

\* StopKills keeps the invariant.
LEMMA StopKillsInv ==
  ASSUME NEW s \in Stoppers, Inv, StopKills(s)
  PROVE  Inv'
<1> USE DEF StopKills, Signals, StopStep, env, dog, waits
<1>1. Shape'
  BY DEF Inv, Shape, Callers, Started, OneReaper, Fates
<1>2. OneReaper'
  BY DEF Inv, Shape, OneReaper, Busy, Callers, Made
<1>3. Made'
  BY DEF Inv, Shape, OneReaper, Made, Recorded, Busy
<1>4. Recorded' /\ Same'
  BY DEF Inv, Shape, Recorded, Same, Made, OneReaper, Busy
<1>5. QED
  BY <1>1, <1>2, <1>3, <1>4 DEF Inv

\* GracePasses keeps the invariant.
LEMMA GracePassesInv ==
  ASSUME NEW s \in Stoppers, Inv, GracePasses(s)
  PROVE  Inv'
<1> USE DEF GracePasses, env, kern, dog, waits
<1>1. Shape'
  BY DEF Inv, Shape, Callers, Started, OneReaper, Fates
<1>2. OneReaper'
  BY DEF Inv, Shape, OneReaper, Busy, Callers, Made
<1>3. Made'
  BY DEF Inv, Shape, OneReaper, Made, Recorded, Busy
<1>4. Recorded' /\ Same'
  BY DEF Inv, Shape, Recorded, Same, Made, OneReaper, Busy
<1>5. QED
  BY <1>1, <1>2, <1>3, <1>4 DEF Inv

\* StopCancelled keeps the invariant.
LEMMA StopCancelledInv ==
  ASSUME NEW s \in Stoppers, Inv, StopCancelled(s)
  PROVE  Inv'
<1> USE DEF StopCancelled, env, kern, dog, waits
<1>1. Shape'
  BY DEF Inv, Shape, Callers, Started, OneReaper, Fates
<1>2. OneReaper'
  BY DEF Inv, Shape, OneReaper, Busy, Callers, Made
<1>3. Made'
  BY DEF Inv, Shape, OneReaper, Made, Recorded, Busy
<1>4. Recorded' /\ Same'
  BY DEF Inv, Shape, Recorded, Same, Made, OneReaper, Busy
<1>5. QED
  BY <1>1, <1>2, <1>3, <1>4 DEF Inv

-----------------------------------------------------------------------------
\* Every step keeps the invariant, so it holds of every behaviour.
LEMMA Invariance == Spec => []Inv
<1>1. Inv /\ [Next]_vars => Inv'
  <2> SUFFICES ASSUME Inv, [Next]_vars PROVE Inv'
    OBVIOUS
  <2>1. CASE UNCHANGED vars
    BY <2>1 DEF vars, env, kern, dog, waits, stops, Inv, Shape, OneReaper, Made, Recorded, Same
  <2>2. CASE StartFails \/ Start \/ ChildEnds \/ ChildTakesSignal \/ HeirLetsGo \/ Cancel \/ TimerFires
    BY <2>2, StartFailsInv, StartInv, ChildEndsInv, ChildTakesSignalInv, HeirLetsGoInv, CancelInv,
       TimerFiresInv
  <2>3. CASE Watch
    BY <2>3, WatchReleasedInv, WatchCancelledInv, WatchDeadlineInv, WatchKillsInv DEF Watch
  <2>4. ASSUME NEW c \in Callers, Waiting(c) PROVE Inv'
    BY <2>4, EnterInv, ReapInv, ReleaseInv, LoadInv, ReturnInv DEF Waiting
  <2>5. ASSUME NEW s \in Stoppers, StopAsks(s) \/ StopCancelled(s) \/ Stopping(s) PROVE Inv'
    BY <2>5, StopAsksInv, StopCancelledInv, StopDoneInv, StopKillsInv, GracePassesInv DEF Stopping
  <2>6. QED
    BY <2>1, <2>2, <2>3, <2>4, <2>5, CallWaitInv DEF Next
<1>2. QED
  BY <1>1, InitInv, PTL DEF Spec

\* proc.Timeout: whoever is in Wait or Stop, a program the watchdog killed is
\* reported as timed out to all of them, and no other before its deadline.
THEOREM TimeoutIsTold == Spec => []TimeoutTold
<1>1. Inv => TimeoutTold
  BY DEF Inv, Made, Recorded, Same, TimeoutTold
<1>2. QED
  BY <1>1, Invariance, PTL

\* proc.Wait: one reaper, one answer for all, and with no error it says how the
\* program ended.
THEOREM AnswersAgree == Spec => []OneTrueAnswer
<1>1. Inv => OneTrueAnswer
  <2> SUFFICES ASSUME Inv PROVE OneTrueAnswer
    OBVIOUS
  <2>1. \A c \in Callers : told[c] # None => told[c] = answer
    BY DEF Inv, Same
  <2>2. ASSUME answer # None, answer.err = "nil"
        PROVE  child = "reaped" /\ fate \in Fates /\ answer.res = resultFrom(fate)
    BY <2>2 DEF Inv, Made, Shape
  <2>3. ASSUME NEW f \in Fates
        PROVE  /\ resultFrom(f).signalled <=> f \in {"TERM", "KILL"}
               /\ OK(resultFrom(f)) <=> f = "zero"
    <3>1. resultFrom(f).signalled <=> f \in {"TERM", "KILL"}
      BY DEF resultFrom
    <3>2. resultFrom(f).code = 0 <=> f = "zero"
      <4>1. CASE f = "zero"
        BY <4>1 DEF resultFrom
      <4>2. CASE f = "nonzero"
        BY <4>2 DEF resultFrom
      <4>3. CASE f = "TERM"
        BY <4>3 DEF resultFrom, SIGTERM
      <4>4. CASE f = "KILL"
        BY <4>4 DEF resultFrom, SIGKILL
      <4>5. QED
        BY <4>1, <4>2, <4>3, <4>4 DEF Fates
    <3>3. QED
      BY <3>1, <3>2 DEF OK
  <2>4. QED
    BY <2>1, <2>2, <2>3 DEF OneTrueAnswer
<1>2. QED
  BY <1>1, Invariance, PTL
=============================================================================
