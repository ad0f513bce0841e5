------------------------------- MODULE Launch -------------------------------
(***************************************************************************)
(* Finding and starting debug sessions: kit/session's directory of         *)
(* advertisements, `lath run --debug` (openDebugSession) and `lath tui`    *)
(* (runTUI, attachTo, launchAndAttach with its waits), several of each at  *)
(* once.  What panel and run say to each other once the first event has    *)
(* arrived is the business of DebugSession.                                *)
(*                                                                         *)
(* An advertisement is a lock file and a socket, named by key and PID.     *)
(* List judges, unlocks and unlinks in separate steps, and any process may *)
(* die between two of its own.  A PID may come back: a dead run's name is  *)
(* then taken by a new run of the same target.                             *)
(***************************************************************************)
EXTENDS Naturals, FiniteSets

CONSTANTS
    None,      \* no value
    Panels,    \* `lath tui` processes
    Launchers, \* those that may launch a run of their own
    Runs,      \* runs started with --debug in another terminal
    MaxLives   \* bound: how often a run's PID may be used

ASSUME LaunchAssumption ==
    /\ MaxLives \in Nat \ {0}
    /\ Launchers \subseteq Panels /\ Panels \cap Runs = {}
    /\ None \notin Panels \cup Runs /\ None \notin 1 .. MaxLives

\* An advertisement is named after the panel or run that makes it; so is the
\* run that listens on its socket.
Names == Launchers \cup Runs

VARIABLES
    lock,     \* the lock file: None, or the life of the process that wrote it
    sock,     \* the socket file exists
    life,     \* which process of that PID is, or was last, alive
    run,      \* where each run is
    code,     \* the exit code of a run that ended
    client,   \* the panel a run has accepted
    pc,       \* where each panel is
    seen,     \* the directory entries List has still to judge
    victim,   \* the one it is removing
    listed,   \* the sessions it returned
    conn,     \* the run a panel has connected to
    first,    \* the first event waits to be read
    eof,      \* the connection has been closed by the other side
    reaped,   \* launched.done is closed
    exit,     \* the panel's exit code
    \* History.
    dead,     \* advertisers already dead when the listing began
    robbed,   \* live advertisers whose lock file a listing removed
    drove     \* panels that had a first event

session == <<lock, sock, life>>
runs    == <<run, code, client>>
listing == <<seen, victim, listed, dead, robbed>>
wire    == <<conn, first, eof>>
vars    == <<session, runs, pc, listing, wire, reaped, exit, drove>>

RunPCs == {"off", "build", "advertise", "clear", "boot", "target", "accept",
           "rogue", "session", "ended"}
PanelPCs == {"off", "judge", "unlock", "unsock", "choose", "attach",
             "advertise", "clear", "start", "dial", "select", "last", "first",
             "moment", "status", "drive", "release", "unlink", "done", "dead"}

\* The advertising process: the panel itself, or the run that is executed in
\* the place of `lath run`.
Alive(n) == IF n \in Panels THEN pc[n] \notin {"off", "done", "dead"}
            ELSE run[n] \notin {"off", "ended"}

Init ==
    /\ lock = [n \in Names |-> None] /\ sock = [n \in Names |-> FALSE]
    /\ life = [n \in Names |-> 1]
    /\ run = [n \in Names |-> "off"] /\ code = [n \in Names |-> None]
    /\ client = [n \in Names |-> None]
    /\ pc = [t \in Panels |-> "off"] /\ exit = [t \in Panels |-> None]
    /\ seen = [t \in Panels |-> {}] /\ victim = [t \in Panels |-> None]
    /\ listed = [t \in Panels |-> {}] /\ dead = [t \in Panels |-> {}] /\ robbed = {}
    /\ conn = [t \in Panels |-> None] /\ first = [t \in Panels |-> FALSE]
    /\ eof = [t \in Panels |-> FALSE] /\ reaped = [t \in Panels |-> FALSE]
    /\ drove = {}

-----------------------------------------------------------------------------
(* A run: of `lath run --debug`, or of a panel, which advertised already. *)

RunStep(n, l) == run' = [run EXCEPT ![n] = l]

RunStarts(n) ==
    /\ n \in Runs /\ run[n] = "off" /\ RunStep(n, "build")
    /\ UNCHANGED <<session, code, client, pc, listing, wire, reaped, exit, drove>>

Built(n) ==
    /\ run[n] = "build" /\ RunStep(n, IF n \in Runs THEN "advertise" ELSE "boot")
    /\ UNCHANGED <<session, code, client, pc, listing, wire, reaped, exit, drove>>

\* Acquire, which takes over the claim of a process that is gone.
RunAdvertises(n) ==
    /\ run[n] = "advertise"
    /\ lock' = [lock EXCEPT ![n] = life[n]] /\ RunStep(n, "clear")
    /\ UNCHANGED <<sock, life, code, client, pc, listing, wire, reaped, exit, drove>>

\* A leftover socket is removed before the definition takes over.
RunClears(n) ==
    /\ run[n] = "clear"
    /\ sock' = [sock EXCEPT ![n] = FALSE] /\ RunStep(n, "boot")
    /\ UNCHANGED <<lock, life, code, client, pc, listing, wire, reaped, exit, drove>>

\* The connections to a run end with it: the others' queued ones when it stops
\* listening, all of them when it exits.
Hangup(n, spared) ==
    eof' = [t \in Panels |-> eof[t] \/ (conn[t] = n /\ t # spared)]

Ends(n, c) ==
    /\ RunStep(n, "ended") /\ code' = [code EXCEPT ![n] = c]
    /\ client' = [client EXCEPT ![n] = None] /\ Hangup(n, None)

\* The dispatcher listens before it calls the target; a socket file in the way
\* is an error.
Listen(n) ==
    /\ run[n] = "boot"
    /\ \/ ~sock[n] /\ sock' = [sock EXCEPT ![n] = TRUE] /\ RunStep(n, "target")
          /\ UNCHANGED <<code, client, eof>>
       \/ sock[n] /\ Ends(n, "fail") /\ UNCHANGED sock
    /\ UNCHANGED <<lock, life, pc, listing, conn, first, reaped, exit, drove>>

\* The target builds its first pipeline, which waits for a debugger.
NewState(n) ==
    /\ run[n] = "target" /\ RunStep(n, "accept")
    /\ UNCHANGED <<session, code, client, pc, listing, wire, reaped, exit, drove>>

\* Mutant: the run goes on listening after it has a client.
AcceptEverybody(n) ==
    /\ run[n] \in {"accept", "session"}
    /\ \E t \in Panels :
        /\ conn[t] = n /\ ~eof[t] /\ t # client[n] /\ t \notin drove
        /\ client' = [client EXCEPT ![n] = t]
        /\ first' = [first EXCEPT ![t] = TRUE] /\ RunStep(n, "session")
    /\ UNCHANGED <<session, code, pc, listing, conn, eof, reaped, exit, drove>>

\* One client: the listener is closed and its file removed at once.  The
\* server's first message follows.
Accept(n) ==
    /\ run[n] = "accept"
    /\ \E t \in Panels :
        /\ conn[t] = n /\ ~eof[t]
        /\ client' = [client EXCEPT ![n] = t]
        /\ first' = [first EXCEPT ![t] = TRUE]
        /\ Hangup(n, t)
    /\ sock' = [sock EXCEPT ![n] = FALSE] /\ RunStep(n, "session")
    /\ UNCHANGED <<lock, life, code, pc, listing, conn, reaped, exit, drove>>

\* Nobody attached in time: the run goes on by itself, and still listens.
AcceptTimesOut(n) ==
    /\ run[n] = "accept" /\ RunStep(n, "rogue")
    /\ UNCHANGED <<session, code, client, pc, listing, wire, reaped, exit, drove>>

\* main returns and closes what it listens on; os.Exit does not.
RunReturns(n) ==
    /\ run[n] \in {"target", "session", "rogue"} /\ Ends(n, "ok")
    /\ sock' = [sock EXCEPT ![n] = FALSE]
    /\ UNCHANGED <<lock, life, pc, listing, conn, first, reaped, exit, drove>>

\* It fails to build, reports an error, or is killed.
RunFails(n) ==
    /\ run[n] \notin {"off", "ended"} /\ Ends(n, "fail")
    /\ UNCHANGED <<session, pc, listing, conn, first, reaped, exit, drove>>

\* The PID of a dead run is given to a new run of the same target.
Recycle(n) ==
    /\ n \in Runs /\ run[n] = "ended" /\ life[n] < MaxLives
    /\ life' = [life EXCEPT ![n] = @ + 1] /\ RunStep(n, "build")
    /\ code' = [code EXCEPT ![n] = None]
    /\ UNCHANGED <<lock, sock, client, pc, listing, wire, reaped, exit, drove>>

-----------------------------------------------------------------------------
(* session.List. *)

Goto(t, l) == pc' = [pc EXCEPT ![t] = l]
End(t, c) == Goto(t, "done") /\ exit' = [exit EXCEPT ![t] = c]

ReadDir(t) ==
    /\ pc[t] = "off" /\ Goto(t, "judge")
    /\ seen' = [seen EXCEPT ![t] = {n \in Names : lock[n] # None}]
    /\ dead' = [dead EXCEPT ![t] = {n \in Names : ~Alive(n)}]
    /\ UNCHANGED <<session, runs, victim, listed, robbed, wire, reaped, exit, drove>>

\* Mutant: a session without a socket is over.
HeldBySocket(n) == lock[n] # None /\ sock[n]

\* lock.Held: the file names a process that is alive.
Held(n) == lock[n] # None /\ lock[n] = life[n] /\ Alive(n)

Judge(t) ==
    /\ pc[t] = "judge"
    /\ \/ /\ seen[t] = {} /\ Goto(t, "choose") /\ UNCHANGED <<seen, victim, listed>>
       \/ \E n \in seen[t] :
            /\ seen' = [seen EXCEPT ![t] = @ \ {n}]
            /\ \/ /\ Held(n) /\ listed' = [listed EXCEPT ![t] = @ \cup {n}]
                  /\ UNCHANGED <<victim, pc>>
               \/ /\ ~Held(n) /\ victim' = [victim EXCEPT ![t] = n]
                  /\ Goto(t, "unlock") /\ UNCHANGED listed
    /\ UNCHANGED <<session, runs, dead, robbed, wire, reaped, exit, drove>>

Unlock(t) ==
    /\ pc[t] = "unlock" /\ Goto(t, "unsock")
    /\ lock' = [lock EXCEPT ![victim[t]] = None]
    /\ robbed' = robbed \cup {n \in {victim[t]} : lock[n] = life[n] /\ Alive(n)}
    /\ UNCHANGED <<sock, life, runs, seen, victim, listed, dead, wire, reaped, exit, drove>>

Unsock(t) ==
    /\ pc[t] = "unsock" /\ Goto(t, "judge")
    /\ sock' = [sock EXCEPT ![victim[t]] = FALSE] /\ victim' = [victim EXCEPT ![t] = None]
    /\ UNCHANGED <<lock, life, runs, seen, listed, dead, robbed, wire, reaped, exit, drove>>

-----------------------------------------------------------------------------
(* runTUI: attach to a listed session, or launch a run. *)

Dials(n) == sock[n] /\ run[n] \in {"target", "accept", "rogue"}
Connect(t, n) == conn' = [conn EXCEPT ![t] = n] /\ UNCHANGED <<first, eof>>

\* The session named or picked, a target named, none waiting, or a bad answer.
Choose(t) ==
    /\ pc[t] = "choose"
    /\ \/ /\ \E n \in listed[t] : victim' = [victim EXCEPT ![t] = n]
          /\ Goto(t, "attach") /\ UNCHANGED exit
       \/ t \in Launchers /\ Goto(t, "advertise") /\ UNCHANGED <<victim, exit>>
       \/ End(t, "usage") /\ UNCHANGED victim
    /\ listed' = [listed EXCEPT ![t] = {}] /\ dead' = [dead EXCEPT ![t] = {}]
    /\ UNCHANGED <<session, runs, seen, robbed, wire, reaped, drove>>

\* attachTo: a session may have ended since it was listed.
Attach(t) ==
    /\ pc[t] = "attach"
    /\ \/ /\ Dials(victim[t]) /\ Connect(t, victim[t]) /\ Goto(t, "drive")
          /\ UNCHANGED exit
       \/ ~Dials(victim[t]) /\ End(t, "internal") /\ UNCHANGED wire
    /\ victim' = [victim EXCEPT ![t] = None]
    /\ UNCHANGED <<session, runs, seen, listed, dead, robbed, reaped, drove>>

Advertise(t) ==
    /\ pc[t] = "advertise" /\ Goto(t, "clear")
    /\ lock' = [lock EXCEPT ![t] = life[t]]
    /\ UNCHANGED <<sock, life, runs, listing, wire, reaped, exit, drove>>

Clear(t) ==
    /\ pc[t] = "clear" /\ Goto(t, "start")
    /\ sock' = [sock EXCEPT ![t] = FALSE]
    /\ UNCHANGED <<lock, life, runs, listing, wire, reaped, exit, drove>>

\* The log file and child.Start; a failure goes through the deferred Close.
Start(t) ==
    /\ pc[t] = "start"
    /\ \/ RunStep(t, "build") /\ Goto(t, "dial") /\ UNCHANGED exit
       \/ /\ Goto(t, "release") /\ exit' = [exit EXCEPT ![t] = "internal"]
          /\ UNCHANGED run
    /\ UNCHANGED <<session, code, client, listing, wire, reaped, drove>>

-----------------------------------------------------------------------------
(* launchAndAttach once the child runs: reap, dialWhenReady, awaitFirstEvent *)
(* and status.                                                               *)

Reap(t) ==
    /\ t \in Launchers /\ run[t] = "ended" /\ ~reaped[t] /\ pc[t] # "dead"
    /\ reaped' = [reaped EXCEPT ![t] = TRUE]
    /\ UNCHANGED <<session, runs, pc, listing, wire, exit, drove>>

Dial(t) ==
    /\ pc[t] = "dial"
    /\ \/ Dials(t) /\ Connect(t, t) /\ Goto(t, "first")
       \/ ~Dials(t) /\ Goto(t, "select") /\ UNCHANGED wire
    /\ UNCHANGED <<session, runs, listing, reaped, exit, drove>>

\* The child's end, the interval, or the deadline.
Select(t) ==
    /\ pc[t] = "select"
    /\ \/ reaped[t] /\ Goto(t, "last")
       \/ Goto(t, "dial")
       \/ Goto(t, "status")
    /\ UNCHANGED <<session, runs, listing, wire, reaped, exit, drove>>

LastDial(t) ==
    /\ pc[t] = "last"
    /\ \/ Dials(t) /\ Connect(t, t) /\ Goto(t, "first")
       \/ ~Dials(t) /\ Goto(t, "status") /\ UNCHANGED wire
    /\ UNCHANGED <<session, runs, listing, reaped, exit, drove>>

Drives(t) ==
    /\ Goto(t, "drive") /\ drove' = drove \cup {t}
    /\ first' = [first EXCEPT ![t] = FALSE]

\* Mutant: only an event ends the wait.
FirstEventOnly(t) ==
    /\ pc[t] = "first" /\ first[t] /\ Drives(t)
    /\ UNCHANGED <<session, runs, listing, conn, eof, reaped, exit>>

\* The first event, the end of the stream, or the end of the child.
FirstEvent(t) ==
    /\ pc[t] = "first"
    /\ \/ first[t] /\ Drives(t)
       \/ ~first[t] /\ eof[t] /\ Goto(t, "status") /\ UNCHANGED <<first, drove>>
       \/ reaped[t] /\ Goto(t, "moment") /\ UNCHANGED <<first, drove>>
    /\ UNCHANGED <<session, runs, listing, conn, eof, reaped, exit>>

\* An event already sent has a moment to land.
Moment(t) ==
    /\ pc[t] = "moment"
    /\ \/ first[t] /\ Drives(t)
       \/ Goto(t, "status") /\ UNCHANGED <<first, drove>>
    /\ UNCHANGED <<session, runs, listing, conn, eof, reaped, exit>>

Status(t) ==
    /\ pc[t] = "status" /\ reaped[t] /\ Goto(t, "release")
    /\ exit' = [exit EXCEPT ![t] = code[t]]
    /\ UNCHANGED <<session, runs, listing, wire, reaped, drove>>

\* drivePanel, until the operator leaves or the session is over; a panel that
\* attached reads its first event here.
Driven(t) ==
    /\ pc[t] = "drive" /\ exit' = [exit EXCEPT ![t] = "driven"]
    /\ drove' = IF first[t] THEN drove \cup {t} ELSE drove
    /\ Goto(t, IF conn[t] = t THEN "release" ELSE "done")
    /\ UNCHANGED <<session, runs, listing, wire, reaped>>

\* The run sees its client leave, and aborts.
ClientLeaves(n) ==
    /\ run[n] = "session" /\ pc[client[n]] \in {"release", "unlink", "done", "dead"}
    /\ Ends(n, "fail")
    /\ UNCHANGED <<session, pc, listing, conn, first, reaped, exit, drove>>

\* The deferred adv.Close: Release, if the file is still its own, then the
\* socket.
Release(t) ==
    /\ pc[t] = "release" /\ Goto(t, "unlink")
    /\ lock' = [lock EXCEPT ![t] = None]
    /\ UNCHANGED <<sock, life, runs, listing, wire, reaped, exit, drove>>

Unlink(t) ==
    /\ pc[t] = "unlink" /\ Goto(t, "done")
    /\ sock' = [sock EXCEPT ![t] = FALSE]
    /\ UNCHANGED <<lock, life, runs, listing, wire, reaped, exit, drove>>

\* The panel is killed; the run it launched is not.
PanelDies(t) ==
    /\ pc[t] \notin {"off", "done", "dead"} /\ Goto(t, "dead")
    /\ UNCHANGED <<session, runs, listing, wire, reaped, exit, drove>>

-----------------------------------------------------------------------------
Run(n) == Built(n) \/ RunAdvertises(n) \/ RunClears(n) \/ Listen(n) \/ NewState(n)
          \/ Accept(n) \/ AcceptTimesOut(n) \/ RunReturns(n) \/ RunFails(n) \/ ClientLeaves(n)
Lists(t) == ReadDir(t) \/ Judge(t) \/ Unlock(t) \/ Unsock(t)
Opens(t) == Choose(t) \/ Attach(t) \/ Advertise(t) \/ Clear(t) \/ Start(t)
Waits(t) == Dial(t) \/ Select(t) \/ LastDial(t) \/ FirstEvent(t) \/ Moment(t) \/ Status(t)
            \/ Release(t) \/ Unlink(t)

Next ==
    \/ \E n \in Names : RunStarts(n) \/ Run(n) \/ Recycle(n)
    \/ \E t \in Panels : Lists(t) \/ Opens(t) \/ Waits(t) \/ Reap(t) \/ Driven(t) \/ PanelDies(t)

Spec == Init /\ [][Next]_vars

\* dialWhenReady's select takes the closed channel or the deadline.
Decides(t) == Select(t) /\ pc'[t] # "dial"

\* launchAndAttach and its reaper keep going, and its select does not prefer
\* the interval timer for ever when another case is ready too.  Nothing is
\* assumed of runs, of operators or of who dies.
FairSpec ==
    /\ Spec
    /\ \A t \in Launchers : WF_vars(Waits(t)) /\ WF_vars(Reap(t)) /\ SF_vars(Decides(t))

-----------------------------------------------------------------------------
(* Properties. *)

\* session.List "returns the live sessions, sweeping dead ones": it never offers
\* one whose process was dead before it began, and never removes the
\* advertisement of a live one, except when a PID has been recycled.
ListsTheLiving ==
    /\ \A t \in Panels : \A n \in listed[t] : life[n] = 1 => n \notin dead[t]
    /\ \A n \in robbed : life[n] > 1

\* "Exactly one client per session": of all the panels that found and dialled
\* a run, at most one ever gets an event from it.
OneDriver ==
    \A t, u \in Panels :
        t # u /\ conn[t] = conn[u] /\ conn[t] # None /\ life[conn[t]] = 1
            => ~((first[t] \/ t \in drove) /\ (first[u] \/ u \in drove))

\* Whatever a panel is waiting for, it does not outlast the child it launched:
\* once that has ended the panel returns or steps through what it left behind.
NoWaitForTheDead ==
    \A t \in Launchers :
        (run[t] = "ended") ~> (pc[t] \in {"done", "dead", "drive"})
=============================================================================
