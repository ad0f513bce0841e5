---------------------------- MODULE DebugSession ----------------------------
(***************************************************************************)
(* A run under the debugger: the engine of Pipeline with the socket-backed *)
(* Debugger of package debug (Listener.Accept, Server), the generated      *)
(* dispatcher that arms it and sets the exit code, and the client at the   *)
(* other end of the socket: the panel of `lath tui`, or, with TypeAhead, a *)
(* script or an nc session that sends controls without being asked.        *)
(***************************************************************************)
EXTENDS Pipeline

CONSTANTS
    TypeAhead,  \* the client may send again for a pause it has already answered
    MaxReruns,  \* bound: reruns an operator asks for
    MaxSends    \* bound: controls a type-ahead client sends in all

ASSUME SessionAssumption == TypeAhead \in BOOLEAN /\ MaxReruns \in Nat /\ MaxSends \in Nat

VARIABLES
    armed,       \* the dispatcher was given a socket (--debug, lath tui)
    ln,          \* Listener.ln: "open", "closed" or "nil"
    watcher,     \* the goroutine Accept starts to close ln on cancellation:
                 \* "off" before Accept, then "on", then "done"
    openErr,     \* DebuggerError() # nil
    unsent,      \* sending the current Paused event failed
    exit,        \* how the pipeline's process ended
    events,      \* on the wire, pipeline to client
    controls,    \* on the wire, client to pipeline
    client,      \* "away", "reading", "prompt", "gone"
    shown,       \* the last Paused event the client read
    status,      \* panel.status, the step list on screen
    verdict,     \* what the client ended with
    \* History and bounds.
    serial,      \* pauses announced so far
    answered,    \* pauses the engine has obeyed an answer to
    reruns, sends

wire == <<events, controls>>
srv  == <<armed, ln, watcher, openErr, unsent, exit>>
cli  == <<client, shown, status, verdict, reruns, sends>>
svars == <<vars, srv, wire, cli, serial, answered>>

Event == [kind: {"plan", "start", "done", "paused", "finished"},
          n: Nat, failed: BOOLEAN, serial: Nat]
\* "serial" in a Control is history: the pause the sender was looking at.
Control == [cmd: Action, ack: Nat, serial: Nat]

Ev(kind, n, failed, s) == [kind |-> kind, n |-> n, failed |-> failed, serial |-> s]
NoPause == Ev("paused", 0, FALSE, 0)

Running == exit = "none"
Gone == client = "gone"

SessionInit ==
    /\ Init
    /\ armed \in BOOLEAN
    /\ ln = IF armed THEN "open" ELSE "nil"
    /\ watcher = "off" /\ openErr = FALSE /\ unsent = FALSE /\ exit = "none"
    /\ events = <<>> /\ controls = <<>>
    /\ client = "away" /\ shown = NoPause /\ verdict = "none"
    /\ status = [n \in DOMAIN pipe |-> ""]
    /\ serial = 0 /\ answered = 0 /\ reruns = 0 /\ sends = 0

-----------------------------------------------------------------------------
(* The pipeline's process.                                                  *)

\* Server.send: a write after the client closed fails, and nothing is queued.
Send(es) == events' = IF dbg /\ ~Gone THEN events \o es ELSE events

\* A target may end before it builds a pipeline (bad arguments, a lint).
TargetEnds(ok) ==
    /\ Running /\ pc = "new" /\ watcher = "off"
    /\ exit' = IF ok THEN "ok" ELSE "fail"
    /\ UNCHANGED <<vars, armed, ln, watcher, openErr, unsent, wire, cli, serial, answered>>

\* NewState in a run nobody asked to supervise.
Unarmed ==
    /\ Running /\ ~armed /\ NewState(FALSE)
    /\ UNCHANGED <<srv, wire, cli, serial, answered>>

\* attachedDebugger calls Accept, which starts the watcher and blocks.
AcceptStarts ==
    /\ Running /\ armed /\ pc = "new" /\ watcher = "off"
    /\ watcher' = "on"
    /\ UNCHANGED <<vars, armed, ln, openErr, unsent, exit, wire, cli, serial, answered>>

Accepting == Running /\ pc = "new" /\ watcher # "off"

\* One client only: the listener is closed and dropped.  A client that has
\* dialled and left again is still accepted.
AcceptClient ==
    /\ Accepting /\ ln = "open" /\ client # "away"
    /\ NewState(TRUE)
    /\ ln' = "nil"
    /\ UNCHANGED <<armed, watcher, openErr, unsent, exit, wire, cli, serial, answered>>

\* The deadline passed or the listener was closed: ErrNoClient, remembered in
\* openErr, and a nil debugger.
AcceptFails ==
    /\ Accepting
    /\ NewState(FALSE)
    /\ openErr' = TRUE
    /\ UNCHANGED <<armed, ln, watcher, unsent, exit, wire, cli, serial, answered>>

\* The watcher's select, once stop or ctx.Done is ready; with both ready it
\* takes either.  AcceptClient has set l.ln to nil, so calling Close on it
\* panics unless the unsynchronised read still sees the old listener.
WatcherStops ==
    /\ Running /\ watcher = "on" /\ pc # "new"
    /\ watcher' = "done"
    /\ UNCHANGED <<vars, armed, ln, openErr, unsent, exit, wire, cli, serial, answered>>

WatcherFires ==
    /\ Running /\ watcher = "on" /\ cancelled
    /\ watcher' = "done"
    /\ \/ ln = "open" /\ ln' = "closed" /\ UNCHANGED exit
       \/ ln = "nil" /\ exit' \in {"panic", exit} /\ UNCHANGED ln
    /\ UNCHANGED <<vars, armed, openErr, unsent, wire, cli, serial, answered>>

\* Run up to run: Plan is sent before the first step, and a failed send ends
\* the run.
Prepare ==
    /\ Running
    /\ \/ (Reject \/ PrintPlan) /\ UNCHANGED events
       \/ PlanFails /\ Gone /\ UNCHANGED events
       \/ Begin /\ (dbg => ~Gone) /\ Send(<<Ev("plan", 0, FALSE, 0)>>)
    /\ UNCHANGED <<srv, controls, cli, serial, answered>>

Walk ==
    /\ Running
    /\ \/ LoopEnds /\ UNCHANGED events
       \/ StepStarts /\ Send(<<Ev("start", i, FALSE, 0)>>)
    /\ UNCHANGED <<srv, controls, cli, serial, answered>>

\* st.Run returns: StepDone is reported, and Server.Pause announces the pause.
StepEnds(ok, set) ==
    /\ Running /\ StepReturns(ok, set)
    /\ LET done   == IF ok THEN <<Ev("done", i, FALSE, 0)>> ELSE <<>>
           paused == IF Pauses(ok) THEN <<Ev("paused", i, ~ok, serial + 1)>> ELSE <<>>
       IN  Send(done \o paused)
    /\ serial' = IF Pauses(ok) THEN serial + 1 ELSE serial
    /\ unsent' = (Pauses(ok) /\ Gone)
    /\ UNCHANGED <<armed, ln, watcher, openErr, exit, controls, cli, answered>>

\* Mutant: the ack is not looked at.
StaleNever(c) == FALSE

\* Server.Pause discards a control that names another pause.
Stale(c) == c.ack # i

Discard ==
    /\ Running /\ pc = "paused" /\ ~unsent
    /\ controls # <<>> /\ Stale(Head(controls))
    /\ controls' = Tail(controls)
    /\ UNCHANGED <<vars, srv, events, cli, serial, answered>>

Obey ==
    /\ Running /\ ~unsent
    /\ controls # <<>> /\ ~Stale(Head(controls))
    /\ PauseReturns(Head(controls).cmd)
    /\ controls' = Tail(controls)
    /\ answered' = answered + 1
    /\ UNCHANGED <<srv, events, cli, serial>>

\* Mutant: only a failed announcement is noticed.
StreamEndsUnread == Gone /\ unsent

\* The announcement failed, or Decode met the end of the stream.
StreamEnds == Gone /\ (unsent \/ controls = <<>>)

\* Mutant: a debugger without an operator answers for them.
LostAnswerNext == "next"

\* Pause returns an error; it never invents an answer.
LostAnswer == "lost"

Lost ==
    /\ Running /\ StreamEnds
    /\ PauseReturns(LostAnswer)
    /\ UNCHANGED <<srv, wire, cli, serial, answered>>

\* Server.Finish, called whatever the outcome.
Farewell == <<Ev("finished", 0, result # "ok", 0)>>

\* Run reports how it ended and returns to the definition.
Goodbye ==
    /\ Running /\ Finish
    /\ Send(Farewell)
    /\ UNCHANGED <<srv, controls, cli, serial, answered>>

\* Mutant: DebuggerError is not consulted.
ExitCodeOfRun == IF result \notin {"ok", "planned"} THEN "fail" ELSE "ok"

\* The dispatcher's exit code: a debugger nobody attached to is a failed run.
ExitCode == IF openErr \/ result \notin {"ok", "planned"} THEN "fail" ELSE "ok"

Exit ==
    /\ Running /\ pc = "done"
    /\ exit' = ExitCode
    /\ UNCHANGED <<vars, armed, ln, watcher, openErr, unsent, wire, cli, serial, answered>>

Signal ==
    /\ Running /\ Cancel
    /\ UNCHANGED <<srv, wire, cli, serial, answered>>

-----------------------------------------------------------------------------
(* The client's process.                                                    *)

\* Dial succeeds while the socket listens, whether or not Accept is waiting.
Dial ==
    /\ Running /\ client = "away" /\ ln = "open"
    /\ client' = "reading"
    /\ UNCHANGED <<vars, srv, wire, shown, status, verdict, reruns, sends, serial, answered>>

Leaves(v) == client' = "gone" /\ verdict' = v

\* Mutant: a pause on a failure leaves the step shown as running.
PaintedReports(e) ==
    CASE e.kind = "start" -> [status EXCEPT ![e.n] = "running"]
      [] e.kind = "done"  -> [status EXCEPT ![e.n] = "ok"]
      [] OTHER            -> status

\* panel.status, per event.
Painted(e) ==
    CASE e.kind = "start"  -> [status EXCEPT ![e.n] = "running"]
      [] e.kind = "done"   -> [status EXCEPT ![e.n] = "ok"]
      [] e.kind = "paused" -> [status EXCEPT ![e.n] = IF e.failed THEN "FAILED" ELSE "ok"]
      [] OTHER             -> status

\* drivePanel handles one event: it prompts at a pause, leaves at the end.
ReadEvent ==
    /\ client = "reading" /\ events # <<>>
    /\ LET e == Head(events)
       IN  /\ status' = Painted(e)
           /\ \/ e.kind = "paused" /\ client' = "prompt" /\ shown' = e /\ UNCHANGED verdict
              \/ /\ e.kind = "finished"
                 /\ Leaves(IF e.failed THEN "failed" ELSE "ok") /\ UNCHANGED shown
              \/ e.kind \notin {"paused", "finished"} /\ UNCHANGED <<client, shown, verdict>>
    /\ events' = Tail(events)
    /\ UNCHANGED <<vars, srv, controls, reruns, sends, serial, answered>>

\* The stream ended without a Finished event.
ReadEOF ==
    /\ client = "reading" /\ events = <<>> /\ ~Running
    /\ Leaves("ended")
    /\ UNCHANGED <<vars, srv, wire, shown, status, reruns, sends, serial, answered>>

SendControl(a) ==
    /\ a = "rerun" => reruns < MaxReruns
    /\ controls' = Append(controls, [cmd |-> a, ack |-> shown.n, serial |-> shown.serial])
    /\ reruns' = IF a = "rerun" THEN reruns + 1 ELSE reruns

\* panel.prompt: after a failure only rerun and quit mean anything, and
\* quitting a run that is fine closes the connection instead of sending.
Prompt(a) ==
    /\ client = "prompt"
    /\ shown.failed => a \in {"rerun", "quit"}
    /\ \/ a = "quit" /\ ~shown.failed /\ Leaves("left") /\ UNCHANGED <<controls, reruns>>
       \/ ~(a = "quit" /\ ~shown.failed) /\ Running /\ SendControl(a)
          /\ client' = "reading" /\ UNCHANGED verdict
       \/ ~(a = "quit" /\ ~shown.failed) /\ ~Running /\ Leaves("ended")
          /\ UNCHANGED <<controls, reruns>>
    /\ UNCHANGED <<vars, srv, events, shown, status, sends, serial, answered>>

\* A client that types ahead: any action, for the pause it last saw.
Types(a) ==
    /\ TypeAhead /\ Running /\ client = "reading" /\ shown # NoPause
    /\ sends < MaxSends
    /\ SendControl(a)
    /\ sends' = sends + 1
    /\ UNCHANGED <<vars, srv, events, client, shown, status, verdict, serial, answered>>

\* The terminal is closed, Ctrl-D at the prompt, a crash.
Vanish ==
    /\ client \in {"reading", "prompt"}
    /\ Leaves("left")
    /\ UNCHANGED <<vars, srv, wire, shown, status, reruns, sends, serial, answered>>

-----------------------------------------------------------------------------
StepProcess == \E ok \in BOOLEAN, set \in SUBSET Key : StepEnds(ok, set)

Server ==
    \/ AcceptStarts \/ AcceptClient \/ AcceptFails \/ Unarmed
    \/ WatcherStops \/ WatcherFires
    \/ Prepare \/ Walk \/ StepProcess
    \/ Discard \/ Obey \/ Lost
    \/ Goodbye \/ Exit

Client == ReadEvent \/ ReadEOF \/ \E a \in Action : Prompt(a)

SessionNext ==
    \/ Server \/ Client
    \/ \E ok \in BOOLEAN : TargetEnds(ok)
    \/ Signal \/ Dial \/ Vanish
    \/ \E a \in Action : Types(a)

SessionSpec == SessionInit /\ [][SessionNext]_svars

(* The pipeline's process and the panel run; the operator answers in the   *)
(* end (or leaves), and asks for finitely many reruns.                     *)
SessionFairSpec == SessionSpec /\ WF_svars(Server) /\ WF_svars(Client)

-----------------------------------------------------------------------------
(* Properties.                                                              *)

\* Every decision the engine obeys was made by someone looking at the pause it
\* is obeyed at: queued keystrokes never decide a pause their author had not
\* seen.  A rerun pauses at the same position again, which the ack cannot
\* tell apart: once one has been asked for, this is no longer true.
FreshAnswers ==
    [][answered' # answered /\ reruns = 0 => Head(controls).serial = serial]_svars

\* Supervision: as long as nobody said continue, each step run after the first
\* was let through by one answered pause, so losing the client, mashing keys
\* or answering an old pause never moves the run along.
Consent == dbg /\ pauseOnSuccess => runs <= answered + 1

\* When the panel asks about the pause the engine is at, its step list shows
\* what the engine did: every step's latest outcome, and nothing running.
PanelInSync ==
    client = "prompt" /\ pc = "paused" /\ shown.serial = serial =>
        \A n \in DOMAIN pipe :
            status[n] = CASE last[n] = "never"  -> ""
                          [] last[n] = "ok"     -> "ok"
                          [] last[n] = "failed" -> "FAILED"

\* The panel reports success only for a run that succeeded, and the process
\* exits 0 after a pipeline only when it did and was supervised as asked.
HonestVerdict ==
    /\ verdict = "ok" => result = "ok"
    /\ exit = "ok" /\ pc = "done" => result \in {"ok", "planned"} /\ (armed => dbg)

\* Accept, cancelled, returns ErrNoClient: it never takes the process down.
AcceptReturns == exit # "panic"

\* A run asked to be supervised runs no step without a debugger.
NoUnsupervisedStep == armed /\ ~dbg => runs = 0

\* A session always ends: no step of the hand-off (attach, pause, answer,
\* disconnect) leaves the run or the panel waiting for the other.
SessionEnds == <>(~Running /\ client \in {"away", "gone"})
=============================================================================
