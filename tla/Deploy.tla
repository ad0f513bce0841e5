------------------------------- MODULE Deploy -------------------------------
(***************************************************************************)
(* The docker steps of package steps/docker (and common.Request as the     *)
(* traffic switch) run by the engine of module Pipeline against one docker *)
(* host.  A docker command either reports success, having taken effect, or *)
(* reports failure, having taken effect or not: the ssh session may drop,  *)
(* and a cancelled context sends SIGTERM to a client whose request is      *)
(* already with the daemon.  Containers may crash by themselves.           *)
(***************************************************************************)
EXTENDS Pipeline, FiniteSets

CONSTANTS
    Name,        \* container names
    Own,         \* the names that begin with NamePrefix
    Matches,     \* the names that contain it
    Release,     \* the names Start gives this release, in order
    Routed,      \* those of routed processes
    Previous,    \* the sets of containers that may be running beforehand
    Plans,       \* the step lists definitions build
    Replacing,   \* those whose Start sets Replace
    Attempts,    \* the registry steps' attempts
    Fragile      \* bound: the containers that may crash by themselves, once each

Registry == {"registry-login", "push-image", "pull-image"}
Quiet    == {"resolve-commit", "resolve-env", "use-image", "prune-image"}
Kind == Registry \cup Quiet \cup
        {"build-image", "run-once", "start-processes", "wait-healthy", "switch-traffic",
         "stop-previous"}

KeyValues == {"commit", "branch", "env", "image", "containers", "routed"}

Requires(kind) ==
    CASE kind = "build-image" -> {"commit"}
      [] kind \in {"push-image", "pull-image", "run-once"} -> {"image"}
      [] kind = "start-processes" -> {"image", "env"}
      [] kind \in {"wait-healthy", "stop-previous"} -> {"containers"}
      [] kind = "switch-traffic" -> {"routed"}
      [] OTHER -> {}

Provides(kind) ==
    CASE kind = "resolve-commit" -> <<"commit", "branch">>
      [] kind = "resolve-env" -> <<"env">>
      [] kind \in {"build-image", "use-image"} -> <<"image">>
      [] kind = "start-processes" -> <<"containers", "routed">>
      [] OTHER -> <<>>

\* The steps of a plan as the engine sees them.
Steps(p) == [n \in DOMAIN p |->
    [valid |-> TRUE, requires |-> Requires(p[n]), provides |-> Provides(p[n])]]

InRelease == Elems(Release)

ASSUME KeyAssumption == Key = KeyValues
ASSUME PlansAssumption ==
    Plans \subseteq Seq(Kind) /\ \A p \in Plans : Steps(p) \in Pipelines
ASSUME NamesAssumption ==
    /\ Own \subseteq Matches /\ Matches \subseteq Name /\ IsFiniteSet(Name)
    /\ Release \in Seq(Own) /\ Release # <<>> /\ Routed \subseteq InRelease
    /\ \A previous \in Previous : previous \subseteq Name
ASSUME BoundsAssumption ==
    Replacing \subseteq Plans /\ Attempts \in Nat \ {0} /\ Fragile \subseteq Name

VARIABLES
    plan, check,   \* the steps; how WaitHealthy judges: "probe", "declared" or "uptime"
    \* The world.
    host,          \* each name: "absent", "up", "looping" (restarted at least once), "stopped"
    upstreams,     \* the containers the proxy sends traffic to
    acted,         \* the registry and run-once steps whose command took effect
    \* The running step's locals.
    sub,           \* where its Run is
    k,             \* position in Release; attempt of a registry step
    stale, target, \* StopPrevious: names left to stop, and the one being removed
    upSince,       \* waitSettled has seen the container up
    \* History.
    previous,      \* the containers running beforehand
    judged,        \* release containers judged healthy since they were started
    crashed,       \* containers that crashed
    fell           \* those that had been judged healthy when they did

falls == <<crashed, fell>>

config == <<plan, check, previous>>
world  == <<host, upstreams, acted>>
local  == <<sub, k, stale, target, upSince>>
deploy == <<config, world, local, judged, falls>>
deployVars == <<vars, deploy>>

Live == {"up", "looping"}
None == "none"
dry  == mode = "dry-run"

Replace == plan \in Replacing

At(kind) == pc = "running" /\ plan[i] = kind

\* The step's Run returns nil, or an error, having set these keys; or goes on.
Succeeds(set) == StepReturns(TRUE, set) /\ UNCHANGED local
Fails(set)    == StepReturns(FALSE, set) /\ UNCHANGED local
Continues     == UNCHANGED vars

-----------------------------------------------------------------------------
DeployInit ==
    /\ plan \in Plans /\ check \in {"probe", "declared", "uptime"}
    /\ previous \in Previous
    /\ Init /\ pipe = Steps(plan)
    /\ host = [n \in Name |-> IF n \in previous THEN "up" ELSE "absent"]
    /\ upstreams = previous \cap Own
    /\ acted = {}
    /\ sub = "begin" /\ k = 1 /\ stale = {} /\ target = None /\ upSince = FALSE
    /\ judged = {} /\ crashed = {} /\ fell = {}

\* The engine calls the step's Run: fresh locals.
EnterStep ==
    /\ StepStarts
    /\ sub' = "begin" /\ k' = 1 /\ stale' = {} /\ target' = None /\ upSince' = FALSE
    /\ UNCHANGED <<config, world, judged, falls>>

\* Steps that change nothing a property looks at.  They set their keys last,
\* so only when they succeed.
Quietly(kind, ok) ==
    /\ At(kind)
    /\ IF ok THEN Succeeds(Elems(pipe[i].provides)) ELSE Fails({})
    /\ UNCHANGED <<config, world, judged, falls>>

\* Reads and checks only, under a dry run too.
ResolveCommit(ok) == Quietly("resolve-commit", ok)
ResolveEnv(ok) == Quietly("resolve-env", ok)
UseImage(ok) == Quietly("use-image", ok)

Prune(ok) == Quietly("prune-image", ok) /\ (dry => ok)

\* Build sets the image before it builds, so a failed build leaves the key.
Build(ok) ==
    /\ At("build-image")
    /\ dry => ok
    /\ IF ok THEN Succeeds({"image"}) ELSE Fails({"image"})
    /\ UNCHANGED <<config, world, judged, falls>>

\* Mutant: RunOnce forgets to ask whether this is a dry run.
RehearsesAllButRunOnce == Registry \cup {"start-processes", "wait-healthy"}

\* The steps that return before their first command under a dry run.
Rehearses == Registry \cup {"run-once", "start-processes", "wait-healthy"}

\* They say what they would do, and set their keys like the real run.
Rehearse ==
    /\ pc = "running" /\ dry /\ plan[i] \in Rehearses
    /\ Succeeds(Elems(pipe[i].provides))
    /\ UNCHANGED <<config, world, judged, falls>>

Executes(kind) == At(kind) /\ ~(dry /\ kind \in Rehearses)

-----------------------------------------------------------------------------
(* Login, Push and Pull: one command under retryRegistry.                   *)

Login == Executes("registry-login")
Push  == Executes("push-image")
Pull  == Executes("pull-image")
RegistryStep == Login \/ Push \/ Pull

\* What an attempt's error amounts to, by permanentIfHopeless.
Said == {"ok", "failure", "permanent"}

\* supervise.Retry, before an attempt or in the sleep before it: a cancelled
\* context ends it without an error.
RetryStops ==
    /\ RegistryStep /\ sub = "begin" /\ cancelled
    /\ Succeeds({})
    /\ UNCHANGED <<config, world, judged, falls>>

Attempt ==
    /\ RegistryStep /\ sub = "begin" /\ ~cancelled
    /\ sub' = "call"
    /\ Continues /\ UNCHANGED <<config, world, k, stale, target, upSince, judged, falls>>

\* Another attempt is allowed.
TriesLeft == k < Attempts

\* A permanent error, or the last attempt failed.
GivesUp == Fails({})

\* The command returns.  Once ctx is cancelled Retry returns nil whatever the command said.
AttemptReturns(said, effect) ==
    /\ RegistryStep /\ sub = "call"
    /\ said = "ok" => effect
    /\ acted' = IF effect THEN acted \cup {plan[i]} ELSE acted
    /\ \/ (said = "ok" \/ cancelled) /\ Succeeds({})
       \/ /\ ~cancelled
          /\ said = "permanent" \/ (said = "failure" /\ ~TriesLeft)
          /\ GivesUp
       \/ /\ said = "failure" /\ ~cancelled /\ TriesLeft
          /\ sub' = "begin" /\ k' = k + 1 /\ UNCHANGED <<stale, target, upSince>>
          /\ Continues
    /\ UNCHANGED <<config, host, upstreams, judged, falls>>

-----------------------------------------------------------------------------
\* The one-off container runs to completion and is removed.
RunOnce(ok, effect) ==
    /\ Executes("run-once")
    /\ ok => effect
    /\ acted' = IF effect THEN acted \cup {"run-once"} ELSE acted
    /\ IF ok THEN Succeeds({}) ELSE Fails({})
    /\ UNCHANGED <<config, host, upstreams, judged, falls>>

-----------------------------------------------------------------------------
(* The docker commands' effect on the host.                                 *)

\* docker stop.
Stop(n) == IF host[n] \in Live THEN [host EXCEPT ![n] = "stopped"] ELSE host

\* docker rm, which refuses a running container.
Remove(n) == IF host[n] = "stopped" THEN [host EXCEPT ![n] = "absent"] ELSE host

\* docker run -d --name: a name in use is refused, and a failed run may leave
\* the container created, or even running.
RunLeaves(n, ok, left) ==
    IF host[n] # "absent" THEN ~ok /\ left = host[n]
    ELSE IF ok THEN left = "up" ELSE left \in {"absent", "stopped", "up"}

\* docker ps --filter name=NamePrefix, which matches anywhere in the name.
Names == {n \in Matches : host[n] \in Live}

-----------------------------------------------------------------------------
(* Start: for every replica, replaceExisting if asked, then docker run.     *)

Starting(where) == Executes("start-processes") /\ sub = where /\ k <= Len(Release)

\* replaceExisting: docker stop, then docker rm, whose errors are ignored.
ReplaceStop(effect) ==
    /\ Starting("begin") /\ Replace
    /\ host' = IF effect THEN Stop(Release[k]) ELSE host
    /\ sub' = "rm"
    /\ UNCHANGED <<config, upstreams, acted, k, stale, target, upSince, judged, falls>>
    /\ Continues

ReplaceRemove(effect) ==
    /\ Starting("rm")
    /\ host' = IF effect THEN Remove(Release[k]) ELSE host
    /\ sub' = "run"
    /\ UNCHANGED <<config, upstreams, acted, k, stale, target, upSince, judged, falls>>
    /\ Continues

\* client.Run for replica k; the first error ends the step.
RunContainer(ok, left) ==
    /\ Starting(IF Replace THEN "run" ELSE "begin")
    /\ RunLeaves(Release[k], ok, left)
    /\ host' = [host EXCEPT ![Release[k]] = left]
    /\ judged' = judged \ {Release[k]}
    /\ IF ok THEN /\ sub' = "begin" /\ k' = k + 1 /\ UNCHANGED <<stale, target, upSince>>
                  /\ Continues
             ELSE Fails({})
    /\ UNCHANGED <<config, upstreams, acted, falls>>

StartEnds ==
    /\ Executes("start-processes") /\ sub = "begin" /\ k > Len(Release)
    /\ Succeeds({"containers", "routed"})
    /\ UNCHANGED <<config, world, judged, falls>>

-----------------------------------------------------------------------------
(* WaitHealthy: every container of KeyContainers in turn, by wait.Until.    *)

Probing == Executes("wait-healthy") /\ k <= Len(Release)

\* HTTPOK: anything but a 2xx is waited out.
Answers(n) == IF host[n] \in Live THEN {"ready", "wait"} ELSE {"wait"}

\* The image's own check decides alone.
Declared(n) ==
    CASE host[n] \in Live     -> {"ready", "wait", "bad"}
      [] host[n] = "stopped" -> {"wait", "bad"}
      [] OTHER               -> {"bad"}

\* Mutant: a container that restarts is given more time.
SettledPatient(n) ==
    CASE host[n] \in Live     -> IF upSince THEN {"ready", "wait", "bad"} ELSE {"wait", "bad"}
      [] host[n] = "stopped" -> {"wait", "bad"}
      [] OTHER               -> {"bad"}

\* Without one, any restart is final, and the container has to have been up
\* since an earlier poll.  Inspect itself may fail at any time.
Settled(n) ==
    CASE host[n] = "up"      -> IF upSince THEN {"ready", "wait", "bad"} ELSE {"wait", "bad"}
      [] host[n] = "stopped" -> {"wait", "bad"}
      [] OTHER               -> {"bad"}

\* What one poll may conclude.
Verdict(n) == CASE check = "probe"    -> Answers(n)
                [] check = "declared" -> Declared(n)
                [] check = "uptime"   -> Settled(n)

\* One round of wait.Until.
Poll(verdict) ==
    /\ Probing /\ verdict \in Verdict(Release[k])
    /\ \/ /\ verdict = "wait"
          /\ upSince' = (check = "uptime" /\ host[Release[k]] \in Live)
          /\ Continues /\ UNCHANGED <<sub, k, stale, target, judged>>
       \/ /\ verdict = "ready"
          /\ judged' = judged \cup {Release[k]}
          /\ k' = k + 1 /\ upSince' = FALSE
          /\ Continues /\ UNCHANGED <<sub, stale, target>>
       \/ verdict = "bad" /\ Fails({}) /\ UNCHANGED judged
    /\ UNCHANGED <<config, world, falls>>

\* Mutant: the wait has no deadline.
WaitTimesOutNever == FALSE

\* ctx ends, by the timeout or by cancellation, between two polls.
WaitTimesOut ==
    /\ Probing /\ Fails({})
    /\ UNCHANGED <<config, world, judged, falls>>

WaitEnds ==
    /\ Executes("wait-healthy") /\ k > Len(Release)
    /\ Succeeds({})
    /\ UNCHANGED <<config, world, judged, falls>>

-----------------------------------------------------------------------------
\* common.Request as the traffic switch: Body refuses an empty upstream list,
\* under a dry run too.
Switch(ok, effect) ==
    /\ At("switch-traffic")
    /\ IF Routed = {} THEN ~ok /\ ~effect ELSE IF dry THEN ok /\ ~effect ELSE ok => effect
    /\ upstreams' = IF effect THEN Routed ELSE upstreams
    /\ IF ok THEN Succeeds({}) ELSE Fails({})
    /\ UNCHANGED <<config, host, acted, judged, falls>>

-----------------------------------------------------------------------------
(* StopPrevious.                                                            *)

\* Mutant: the containers of this release are not kept.
PreviousNamesAll == Names

\* What is running under the prefix, less the containers of this release.
PreviousNames == Names \ InRelease

\* The listing, also under a dry run, where its failure is only reported.
ListPrevious(ok) ==
    /\ At("stop-previous") /\ sub = "begin"
    /\ \/ ~ok /\ ~dry /\ Fails({})
       \/ (IF ok THEN dry \/ PreviousNames = {} ELSE dry) /\ Succeeds({})
       \/ /\ ok /\ ~dry /\ PreviousNames # {}
          /\ sub' = "drain" /\ stale' = PreviousNames
          /\ Continues /\ UNCHANGED <<k, target, upSince>>
    /\ UNCHANGED <<config, world, judged, falls>>

DrainCut ==
    /\ At("stop-previous") /\ sub = "drain" /\ cancelled
    /\ Fails({})
    /\ UNCHANGED <<config, world, judged, falls>>

\* The drain window passed, or there is none.
DrainEnds ==
    /\ At("stop-previous") /\ sub = "drain"
    /\ sub' = "stop"
    /\ Continues /\ UNCHANGED <<config, world, k, stale, target, upSince, judged, falls>>

\* docker stop on the next stale container, in whatever order ps listed them.
StopOne(n, ok, effect) ==
    /\ At("stop-previous") /\ sub = "stop" /\ n \in stale
    /\ ok => effect
    /\ host' = IF effect THEN Stop(n) ELSE host
    /\ IF ok THEN /\ sub' = "rm" /\ target' = n
                  /\ Continues /\ UNCHANGED <<k, stale, upSince>>
             ELSE Fails({})
    /\ UNCHANGED <<config, upstreams, acted, judged, falls>>

\* Mutant: a container that could not be removed ends the list.
AfterRemoveFirst == {}

AfterRemove == stale \ {target}

\* docker rm on the container just stopped.
RemoveOne(ok, effect) ==
    /\ At("stop-previous") /\ sub = "rm"
    /\ ok => effect
    /\ effect => host[target] = "stopped"
    /\ host' = IF effect THEN Remove(target) ELSE host
    /\ IF ok THEN /\ sub' = "stop" /\ stale' = AfterRemove
                  /\ Continues /\ UNCHANGED <<k, target, upSince>>
             ELSE Fails({})
    /\ UNCHANGED <<config, upstreams, acted, judged, falls>>

StopEnds ==
    /\ At("stop-previous") /\ sub = "stop" /\ stale = {}
    /\ Succeeds({})
    /\ UNCHANGED <<config, world, judged, falls>>

-----------------------------------------------------------------------------
\* A container's process dies and docker's restart policy brings it back.
CrashLoop(n) ==
    /\ host[n] = "up" /\ n \in Fragile \ crashed /\ pc # "done"
    /\ host' = [host EXCEPT ![n] = "looping"]
    /\ crashed' = crashed \cup {n}
    /\ fell' = IF n \in judged THEN fell \cup {n} ELSE fell
    /\ UNCHANGED <<vars, config, upstreams, acted, local, judged>>

StepActs ==
    \/ \E ok \in BOOLEAN :
           \/ ResolveCommit(ok) \/ ResolveEnv(ok) \/ UseImage(ok) \/ Prune(ok)
           \/ Build(ok) \/ ListPrevious(ok)
    \/ Rehearse
    \/ RetryStops \/ Attempt
    \/ \E said \in Said, effect \in BOOLEAN :
           AttemptReturns(said, effect)
    \/ \E ok, effect \in BOOLEAN : RunOnce(ok, effect) \/ Switch(ok, effect)
    \/ \E effect \in BOOLEAN : ReplaceStop(effect) \/ ReplaceRemove(effect)
    \/ \E ok \in BOOLEAN, left \in {"absent", "up", "looping", "stopped"} :
           RunContainer(ok, left)
    \/ StartEnds
    \/ \E verdict \in {"ready", "wait", "bad"} : Poll(verdict)
    \/ WaitTimesOut \/ WaitEnds
    \/ DrainCut \/ DrainEnds
    \/ \E n \in Name, ok, effect \in BOOLEAN : StopOne(n, ok, effect)
    \/ \E ok, effect \in BOOLEAN : RemoveOne(ok, effect)
    \/ StopEnds

\* The engine between steps.
EngineActs ==
    /\ \/ \E d \in BOOLEAN : NewState(d)
       \/ Reject \/ PrintPlan \/ PlanFails \/ Begin \/ LoopEnds \/ Finish
    /\ UNCHANGED deploy

Operator ==
    /\ Cancel \/ \E a \in Answer : PauseReturns(a)
    /\ UNCHANGED deploy

DeployNext == EngineActs \/ EnterStep \/ StepActs \/ Operator \/ \E n \in Fragile : CrashLoop(n)

DeploySpec == DeployInit /\ [][DeployNext]_deployVars

(* The engine and the commands go on.  A poll need never settle: only the  *)
(* deadline ends a wait for sure.                                          *)
DeployFairSpec ==
    /\ DeploySpec
    /\ WF_deployVars(EngineActs) /\ WF_deployVars(EnterStep)
    /\ WF_deployVars(StepActs /\ ~Probing) /\ WF_deployVars(WaitTimesOut)

-----------------------------------------------------------------------------
(* Properties.                                                              *)

Has(kind) == kind \in Elems(plan)

\* The order that the author of a pipeline sees to, src/example/.lath/deploy.go:
\* "ordering invariants, which Validate cannot infer".  A release is waited for
\* before it gets the traffic or its predecessor is stopped, traffic moves before
\* a predecessor is stopped, image and schema are there before a container starts.
Orderly(p) ==
    /\ \A n \in DOMAIN p : p[n] \in {"switch-traffic", "stop-previous"} =>
           \E w \in DOMAIN p : w < n /\ p[w] = "wait-healthy"
    /\ \A m, n \in DOMAIN p : p[m] = "switch-traffic" /\ p[n] = "stop-previous" => m < n
    /\ \A m, n \in DOMAIN p :
           p[m] \in {"pull-image", "run-once"} /\ p[n] = "start-processes" => m < n

\* The release before this one, as far as it is this tool's.
Prior == (previous \cap Own) \ InRelease

\* No deploy opens "a window with nothing running": at every moment an old
\* container is up or all of the new release is, judged healthy, through failed
\* and lost commands, crash loops, cancellation, reruns and aborted pipelines,
\* unless a container crashes after it was judged.  Judged by uptime it has
\* never restarted.
NoOutage ==
    Prior # {} /\ fell = {} =>
        \/ \E n \in Prior : host[n] \in Live
        \/ /\ InRelease \subseteq judged
           /\ \A n \in InRelease : host[n] = "up" \/ (host[n] = "looping" /\ check # "uptime")

\* Traffic never moves to a release that has not proven itself, and never
\* points at a container the deploy has stopped.  A redeploy of the release
\* that is running is excepted: there Start.Replace accepts a gap.
TrafficServed ==
    Has("switch-traffic") /\ previous \cap InRelease = {} =>
        \A n \in upstreams : host[n] \in Live /\ (n \in previous \/ n \in judged)

\* A successful deploy leaves one release: every container of it is there and
\* no other container of this tool's is running.
OneRelease ==
    result = "ok" /\ mode = "execute" =>
        /\ Has("start-processes") => \A n \in InRelease : host[n] # "absent"
        /\ Has("stop-previous") => \A n \in Own \ InRelease : host[n] \notin Live

\* The schema is ready and the image fetched before a container of the new
\* release boots.  Retry hides a cancelled pull behind nil, so this rests on
\* the engine looking at ctx before the next step.
SchemaFirst ==
    \A n \in InRelease \ previous : host[n] # "absent" =>
        {kind \in {"pull-image", "run-once"} : Has(kind)} \subseteq acted

\* A rehearsal touches neither the host nor the proxy nor the registry: only
\* containers that crash by themselves change.
RehearsalTouchesNothing ==
    [][mode = "dry-run" =>
           /\ UNCHANGED <<upstreams, acted>>
           /\ \A n \in Name : host'[n] # host[n] => host[n] = "up" /\ host'[n] = "looping"]_deployVars

\* Run reports success only when every registry step did its work.
NilMeansDone ==
    result = "ok" /\ mode = "execute" => {kind \in Registry : Has(kind)} \subseteq acted

\* StopPrevious considers nothing on the host that does not carry the prefix.
OwnOnly == \A n \in previous \ Own : host[n] \in Live

\* What is left of the step that runs: attempts, replicas to start or to judge,
\* containers to stop and to remove.
Work ==
    CASE plan[i] \in Registry -> 2 * (Attempts - k) + (IF sub = "begin" THEN 1 ELSE 0)
      [] plan[i] = "start-processes" ->
             3 * (Len(Release) + 1 - k) + (IF sub = "begin" THEN 2 ELSE IF sub = "rm" THEN 1 ELSE 0)
      [] plan[i] = "wait-healthy" -> Len(Release) + 1 - k
      [] plan[i] = "stop-previous" ->
             IF sub = "begin" THEN 2 * Cardinality(Matches) + 3
             ELSE 2 * Cardinality(stale) + (IF sub = "drain" THEN 2 ELSE IF sub = "stop" THEN 1 ELSE 0)
      [] OTHER -> 0

\* No docker step goes round in circles: whatever the commands report, every
\* move that does not end it leaves it less to do, but for a poll that settles
\* nothing, which the deadline ends.
StepDescends ==
    [][pc = "running" /\ pc' = "running" =>
           \/ Work' \in 0 .. Work - 1
           \/ Poll("wait") \/ Cancel \/ \E n \in Fragile : CrashLoop(n)]_deployVars

\* Without a debugger every deploy ends.
DeployReturns == <>(pc = "done" \/ dbg)
=============================================================================
