-------------------------------- MODULE Proc --------------------------------
(***************************************************************************)
(* kit/proc: one started program, the goroutine that watches its context   *)
(* and its timeout, any number of goroutines in Wait, and any number of    *)
(* goroutines in Stop.  The program itself, its descendants and the kernel *)
(* are the environment: it exits by itself or not at all, it may handle or *)
(* ignore SIGTERM, and a descendant may keep its output pipe open, or a    *)
(* reader or writer it was given may block.                                *)
(*                                                                         *)
(* An atomic load, a store, a signal and a channel operation are each a    *)
(* step of their own; select takes any of its ready cases.                 *)
(***************************************************************************)
EXTENDS Naturals, FiniteSets

CONSTANTS
    None,       \* no value yet
    Waiters,    \* goroutines that call Wait (Run is Start and one Wait)
    Stoppers    \* goroutines that call Stop

Callers == Waiters \cup Stoppers

\* What the program does about SIGTERM; whether we may signal it at all (a
\* program that changed its user may not be); whether it ends unasked.
Natures == [term: {"dies", "cleans", "ignores"}, ours: BOOLEAN, ends: BOOLEAN]
\* config: a Timeout, and whether input or output goes through a pipe and a
\* copying goroutine, which Capture and every Stdin reader and writer but an
\* *os.File need.
Configs == [timeout: BOOLEAN, piped: BOOLEAN]

Fates == {"zero", "nonzero", "TERM", "KILL"}

\* Result, and the error beside it.
Answers == [res: [code: 0 .. 255, signalled: BOOLEAN], err: {"nil", "io", "timeout"}]

ASSUME ProcAssumption ==
    /\ None \notin Fates \cup {"io"}
    /\ \A a \in Answers : a # None

VARIABLES
    nature, config,
    child,      \* "unborn", "running", "zombie", "reaped", "failed" (no Start)
    fate,       \* how it ended, as the kernel knows it
    inbox,      \* signals sent and not yet acted on
    heir,       \* a copying goroutine is held up: by a descendant that holds the
                \* output pipe open, a Stdin reader or a writer that blocks
    ctx,        \* the context of Start is done
    late,       \* the timer has fired
    watch,      \* watch's goroutine: "select", "kill", "returned"
    timedOut, released,
    once,       \* waitOnce: "free", "busy", "done"
    answer,     \* waitRes and waitErr
    waitErr,    \* what cmd.Wait returned to the goroutine in wait()
    wait,       \* each goroutine in Wait, Stop's own included
    told,       \* what Wait returned to it
    stop,       \* each goroutine in Stop
    stopCtx,    \* the contexts given to Stop that are done
    graced,     \* the stoppers whose grace has passed
    shot        \* history: the watchdog's SIGKILL reached a running program

env   == <<nature, config, ctx, late>>
kern  == <<child, fate, inbox, heir>>
dog   == <<watch, timedOut, shot>>
waits == <<released, once, answer, waitErr, wait, told>>
stops == <<stop, stopCtx, graced>>
vars  == <<env, kern, dog, waits, stops>>

Init ==
    /\ nature \in Natures /\ config \in Configs
    /\ child = "unborn" /\ fate = None /\ inbox = {} /\ heir = FALSE
    /\ ctx \in BOOLEAN /\ late = FALSE
    /\ watch = "off" /\ timedOut = FALSE /\ shot = FALSE
    /\ released = FALSE /\ once = "free" /\ answer = None /\ waitErr = None
    /\ wait = [c \in Callers |-> "idle"] /\ told = [c \in Callers |-> None]
    /\ stop = [s \in Stoppers |-> "idle"] /\ stopCtx = {} /\ graced = {}

-----------------------------------------------------------------------------
(* The program and the clock. *)

\* Only a copy can be held up: a plain file is handed to the program itself.
Dies(f) ==
    /\ child' = "zombie" /\ fate' = f /\ inbox' = {}
    /\ heir' \in IF config.piped THEN BOOLEAN ELSE {FALSE}

\* It exits, or somebody else kills it.
ChildEnds ==
    /\ child = "running" /\ nature.ends
    /\ \E f \in Fates : Dies(f)
    /\ UNCHANGED <<env, dog, waits, stops>>

ChildTakesSignal ==
    /\ child = "running"
    /\ \/ "KILL" \in inbox /\ Dies("KILL")
       \/ "TERM" \in inbox /\ nature.term = "dies" /\ Dies("TERM")
       \/ "TERM" \in inbox /\ nature.term = "cleans" /\ Dies("zero")
       \/ /\ "TERM" \in inbox /\ nature.term = "ignores"
          /\ inbox' = inbox \ {"TERM"} /\ UNCHANGED <<child, fate, heir>>
    /\ UNCHANGED <<env, dog, waits, stops>>

HeirLetsGo ==
    /\ heir /\ heir' = FALSE
    /\ UNCHANGED <<env, child, fate, inbox, dog, waits, stops>>

Cancel ==
    /\ ~ctx /\ ctx' = TRUE
    /\ UNCHANGED <<nature, config, late, kern, dog, waits, stops>>

\* A goroutine stops the timer once the process has been waited for, but it
\* may run late.
TimerFires ==
    /\ config.timeout /\ watch # "off" /\ ~late
    /\ late' = TRUE
    /\ UNCHANGED <<nature, config, ctx, kern, dog, waits, stops>>

-----------------------------------------------------------------------------
(* Start. *)

\* The program is not on PATH, or cannot be started: no Process is returned.
StartFails ==
    /\ child = "unborn" /\ child' = "failed"
    /\ UNCHANGED <<env, fate, inbox, heir, dog, waits, stops>>

\* The context is not consulted here, only by the goroutine watch starts.
Start ==
    /\ child = "unborn" /\ child' = "running" /\ watch' = "select"
    /\ UNCHANGED <<env, fate, inbox, heir, timedOut, shot, waits, stops>>

-----------------------------------------------------------------------------
(* watch's goroutine, which takes one case of its select and returns. *)

\* Signal: a program that is gone takes no signal and is no error; one that
\* is not ours refuses.
Signals(sig) ==
    inbox' = IF child = "running" /\ nature.ours THEN inbox \cup {sig} ELSE inbox
Refused == child \in {"running", "zombie"} /\ ~nature.ours

WatchReleased ==
    /\ watch = "select" /\ released /\ watch' = "returned"
    /\ UNCHANGED <<env, kern, timedOut, shot, waits, stops>>

WatchCancelled ==
    /\ watch = "select" /\ ctx /\ watch' = "returned"
    /\ Signals("TERM")
    /\ UNCHANGED <<env, child, fate, heir, timedOut, shot, waits, stops>>

\* Mutant: the kill is sent and its reason is not recorded.
WatchDeadlineUnrecorded ==
    /\ watch = "select" /\ late /\ watch' = "kill"
    /\ UNCHANGED <<env, kern, timedOut, shot, waits, stops>>

\* The reason is recorded before the kill.
WatchDeadline ==
    /\ watch = "select" /\ late
    /\ watch' = "kill" /\ timedOut' = TRUE
    /\ UNCHANGED <<env, kern, shot, waits, stops>>

\* Mutant: SIGTERM, which a program may ignore, at the deadline too.
WatchKillsPolitely ==
    /\ watch = "kill" /\ watch' = "returned"
    /\ Signals("TERM")
    /\ UNCHANGED <<env, child, fate, heir, dog, waits, stops>>

WatchKills ==
    /\ watch = "kill" /\ watch' = "returned"
    /\ Signals("KILL")
    /\ shot' = (child = "running" /\ nature.ours)
    /\ UNCHANGED <<env, child, fate, heir, timedOut, waits, stops>>

-----------------------------------------------------------------------------
(* Wait, called by a waiter or by the goroutine Stop starts. *)

Started == watch # "off"

Step(c, l) == wait' = [wait EXCEPT ![c] = l]

\* Mutant: no sync.Once, so every caller reaps for itself.
EnterAlways(c) ==
    /\ Started /\ wait[c] = "call"
    /\ once' = "busy" /\ Step(c, "reap")
    /\ UNCHANGED <<env, kern, dog, released, answer, waitErr, told, stops>>

\* The first caller runs wait(); the others block until it is done.
Enter(c) ==
    /\ Started /\ wait[c] = "call" /\ once = "free"
    /\ once' = "busy" /\ Step(c, "reap")
    /\ UNCHANGED <<env, kern, dog, released, answer, waitErr, told, stops>>

CallWait(w) ==
    /\ Started /\ wait[w] = "idle" /\ Step(w, "call")
    /\ UNCHANGED <<env, kern, dog, released, once, answer, waitErr, told, stops>>

\* cmd.Wait: the program is reaped, then the copying goroutines are waited
\* for.  A failed copy is reported only for a program that succeeded, and a
\* second Wait on the same command is an error.
Reap(c) ==
    /\ wait[c] = "reap" /\ child \in {"zombie", "reaped"} /\ ~heir
    /\ child' = "reaped"
    /\ waitErr' \in IF child = "reaped" THEN {"io"}
                    ELSE IF fate = "zero" /\ config.piped THEN {"zero", "io"}
                    ELSE {fate}
    /\ Step(c, "release")
    /\ UNCHANGED <<env, fate, inbox, heir, dog, released, once, answer, told, stops>>

\* stopTimer.
Release(c) ==
    /\ wait[c] = "release" /\ released' = TRUE /\ Step(c, "load")
    /\ UNCHANGED <<env, kern, dog, once, answer, waitErr, told, stops>>

SIGTERM == 15
SIGKILL == 9

\* resultFrom; 255 stands for unknownExitCode, which is -1.
resultFrom(e) ==
    [code |-> CASE e = "zero" -> 0 [] e = "nonzero" -> 1 [] e = "io" -> 255
                [] e = "TERM" -> 128 + SIGTERM [] e = "KILL" -> 128 + SIGKILL,
     signalled |-> e \in {"TERM", "KILL"}]

OK(r) == r.code = 0 /\ ~r.signalled

\* The timeout outranks every other outcome, then what is not an ExitError.
Load(c) ==
    /\ wait[c] = "load"
    /\ answer' = [res |-> resultFrom(waitErr),
                  err |-> IF timedOut THEN "timeout"
                          ELSE IF waitErr = "io" THEN "io" ELSE "nil"]
    /\ once' = "done" /\ Step(c, "call")
    /\ UNCHANGED <<env, kern, dog, released, waitErr, told, stops>>

\* Every caller is answered from memory.
Return(c) ==
    /\ wait[c] = "call" /\ once = "done"
    /\ told' = [told EXCEPT ![c] = answer] /\ Step(c, "returned")
    /\ UNCHANGED <<env, kern, dog, released, once, answer, waitErr, stops>>

-----------------------------------------------------------------------------
(* Stop: SIGTERM, a goroutine in Wait, and SIGKILL after grace. *)

StopStep(s, l) == stop' = [stop EXCEPT ![s] = l]

\* The first signal; the goroutine that waits is started right after it.
StopAsks(s) ==
    /\ Started /\ stop[s] = "idle"
    /\ \/ Refused /\ StopStep(s, "refused") /\ UNCHANGED <<inbox, wait>>
       \/ ~Refused /\ Signals("TERM") /\ StopStep(s, "select") /\ Step(s, "call")
    /\ UNCHANGED <<env, child, fate, heir, dog, released, once, answer, waitErr,
                   told, stopCtx, graced>>

Gone(s) == wait[s] = "returned"

StopDone(s) ==
    /\ stop[s] \in {"select", "drain", "drain ctx"} /\ Gone(s)
    /\ StopStep(s, IF stop[s] = "drain ctx" THEN "cancelled" ELSE "stopped")
    /\ UNCHANGED <<env, kern, dog, waits, stopCtx, graced>>

\* Grace passes, or the context given to Stop ends.
GracePasses(s) ==
    /\ stop[s] = "select" /\ s \notin graced /\ graced' = graced \cup {s}
    /\ UNCHANGED <<env, kern, dog, waits, stop, stopCtx>>

StopCancelled(s) ==
    /\ s \notin stopCtx /\ stopCtx' = stopCtx \cup {s}
    /\ UNCHANGED <<env, kern, dog, waits, stop, graced>>

\* Mutant: after grace Stop asks politely once more.
StopKillsPolitely(s) ==
    /\ stop[s] = "select" /\ s \in graced
    /\ Signals("TERM") /\ StopStep(s, "drain")
    /\ UNCHANGED <<env, child, fate, heir, dog, waits, stopCtx, graced>>

StopKills(s) ==
    /\ stop[s] = "select"
    /\ \/ s \in graced /\ Refused /\ StopStep(s, "refused")
       \/ s \in graced /\ ~Refused /\ StopStep(s, "drain")
       \/ s \in stopCtx /\ StopStep(s, "drain ctx")
    /\ Signals("KILL")
    /\ UNCHANGED <<env, child, fate, heir, dog, waits, stopCtx, graced>>

-----------------------------------------------------------------------------
Watch == WatchReleased \/ WatchCancelled \/ WatchDeadline \/ WatchKills
Waiting(c) == Enter(c) \/ Reap(c) \/ Release(c) \/ Load(c) \/ Return(c)
Stopping(s) == StopDone(s) \/ StopKills(s) \/ GracePasses(s)

Next ==
    \/ StartFails \/ Start
    \/ ChildEnds \/ ChildTakesSignal \/ HeirLetsGo \/ Cancel \/ TimerFires
    \/ Watch
    \/ \E c \in Callers : Waiting(c)
    \/ \E w \in Waiters : CallWait(w)
    \/ \E s \in Stoppers : StopAsks(s) \/ StopCancelled(s) \/ Stopping(s)

Spec == Init /\ [][Next]_vars

\* The Go scheduler runs every ready goroutine, timers fire, and the kernel
\* acts on a signal.  Nothing makes a program end unasked, a copy that is held
\* up go on, a context end or a caller call.
FairSpec ==
    /\ Spec
    /\ WF_vars(ChildTakesSignal) /\ WF_vars(TimerFires) /\ WF_vars(Watch)
    /\ \A c \in Callers : WF_vars(Waiting(c))
    /\ \A s \in Stoppers : WF_vars(Stopping(s))

-----------------------------------------------------------------------------
(* Properties. *)

TypeOK ==
    /\ nature \in Natures /\ config \in Configs
    /\ child \in {"unborn", "running", "zombie", "reaped", "failed"}
    /\ fate \in Fates \cup {None} /\ inbox \subseteq {"TERM", "KILL"}
    /\ heir \in BOOLEAN /\ ctx \in BOOLEAN /\ late \in BOOLEAN
    /\ watch \in {"off", "select", "kill", "returned"}
    /\ timedOut \in BOOLEAN /\ released \in BOOLEAN /\ shot \in BOOLEAN
    /\ once \in {"free", "busy", "done"}
    /\ answer \in Answers \cup {None}
    /\ waitErr \in Fates \cup {"io", None}
    /\ wait \in [Callers -> {"idle", "call", "reap", "release", "load", "returned"}]
    /\ told \in [Callers -> Answers \cup {None}]
    /\ stop \in [Stoppers -> {"idle", "select", "drain", "drain ctx", "stopped",
                              "cancelled", "refused"}]
    /\ stopCtx \subseteq Stoppers /\ graced \subseteq Stoppers

\* Timeout "kills the process after d and reports ErrTimeout": when the
\* watchdog's SIGKILL ended the program every caller of Wait is told so, and
\* nobody is told so before the deadline has passed.
TimeoutTold ==
    \A c \in Callers : told[c] # None =>
        /\ shot => told[c].err = "timeout"
        /\ told[c].err = "timeout" => late

\* Wait: the program is reaped once, and every caller gets one and the same
\* answer.  With no error it is how the program really ended: a kill is never
\* taken for an exit, nor an exit for a kill, and only exit zero is OK.
OneTrueAnswer ==
    /\ \A c \in Callers : told[c] # None => told[c] = answer
    /\ answer # None /\ answer.err = "nil" =>
         /\ child = "reaped"
         /\ answer.res.signalled <=> fate \in {"TERM", "KILL"}
         /\ OK(answer.res) <=> fate = "zero"

\* A program with a Timeout ends unless its context did first, and a cancelled
\* one ends unless it ignores SIGTERM or is not ours to signal.
ProgramEnds ==
    /\ (Started /\ config.timeout /\ nature.ours) ~> (child # "running" \/ ctx)
    /\ (Started /\ ctx /\ nature.term # "ignores" /\ nature.ours) ~> (child # "running")

\* Stop returns, whatever the program does with SIGTERM, whoever else waits
\* and whether or not its context ends, unless a descendant, a Stdin reader or a
\* writer holds up a copy that cmd.Wait waits for.
StopReturns ==
    \A s \in Stoppers :
        (stop[s] = "select") ~> (stop[s] \in {"stopped", "cancelled", "refused"} \/ heir)
=============================================================================
