# lath: a TLA+ model

lath runs deploy pipelines written in Go: a definition builds a `Pipeline` of typed steps, the
engine validates its wiring and walks it, an operator may supervise the walk from a terminal, and
the `kit` packages supply the locks, retries, processes and clients the steps are made of. This
directory models the parts in which several actors, failures or long sequences of calls decide
whether a deploy is safe. Paths below are relative to `src/`.

## Inventory

| component | state | operations | what is hard | what makes it correct |
|---|---|---|---|---|
| engine `pipeline/` | position, state bag, snapshot, mode, `pauseOnSuccess` | `Validate`, `NewState`, `Run`, `run` | cancellation at any moment; failures, reruns and restores in any order; forced modes | inputs are there and current; no step past a failed one; a rehearsal has no effects; the run ends |
| debugger `pipeline/debug/`, `pipeline/debugger.go` | listener, connection, process-wide `attached` | `Accept`, `Plan`, `Pause`, `Finish`, `Send`, `Next` | client vanishing, queued keystrokes, a goroutine racing `Accept` | nothing advances without an answer to this pause |
| dispatcher `cmd/lath/generate.go` | `ctx`, listener, exit code | arm, run a target, exit | attach timeout, signals | exit 0 only for a supervised success |
| panel `cmd/lath/tui.go` | step list, prompt | `drivePanel`, `prompt` | a screen rebuilt from events | shows what the engine did |
| panel launch `cmd/lath/tui_launch.go`, `debug.go` | child process, socket | launch, dial when ready, await the first event, reap | the child ending at any of these moments, a second panel | never waits for a dead child; one driver |
| runner and build cache `cmd/lath/main.go`, `build.go`, `cache.go`, `init.go` | generated file, cached binaries, their sidecars | scan, generate, build, exec, init, prune, clean | no lock: runners, edits, upgrades and prunes between any two file operations | the binary under a hash is what the hash was taken over; nothing is left in the author's tree |
| discovery `cmd/lath/discover.go`, `generate.go` | none | discover, classify, generate, dispatch | names folded here and spelt there; three places that take flags away | the function that runs is the one that was typed |
| `kit/lock` | the lock file | `Acquire`, `Release` | crashes and other processes between two file-system calls, recycled PIDs, other hosts | one holder; a crash never wedges |
| `kit/supervise` | back-off, restarts | `Loop`, `Retry` | timers racing cancellation, limits at their edge | bounded attempts, bounded delay |
| `kit/session` | advertisements, sockets | `Advertise`, `List`, `Close` | sweeping what another process is writing | only the living are listed, and none of them is swept |
| `kit/proc`, `kit/wait` | child process, timers | `Start`, `Wait`, `Stop`, `Until` | exit, timeout and cancel racing | one reap, one answer, and it is the real cause; the program ends |
| `kit/fsx`, `kit/remotefs`, `kit/download` | files | atomic writes, here and over a connection | kills, refused renames, lost connections, two writers | old or new content, never a mix; no credential readable by others; no litter |
| `kit/secret` | a remote store | `Sync`, prune | calls that fail after they took effect, cancellation, other writers | nil means converged; the report is the boundary |
| `kit/docker`, `steps/docker` | containers on a host | build, push, start, wait, stop-previous | a failure half-way, retries, reruns | never a moment with neither release running |
| `steps/common`, `steps/git`, `kit/git`, `github`, `cloudflare`, `caddy`, `certs`, `brew`, `ssh`, `runner`, `archive`, `checksum`, `hashtree`, `scan`, `confirm`, `env`, `repo`, `out`, `settings` | none of their own | one call each | I/O | - |

Interactions: the dispatcher creates the context and arms the debugger; `NewState` opens it; `Run`
calls the debugger, which talks over a unix socket to the panel in another process. `kit/session`
advertises that socket with `kit/lock`, which asks `kit/proc` for liveness and `kit/fsx` for the
atomic rename. Registry steps wrap `kit/docker` calls in `supervise.Retry`.

`PROJECT.json` lists the hazards with their lines and the properties that would catch them.

## Modules

| module | models |
|---|---|
| `Pipeline` | `Validate`, `NewState`, `Run`, `run`; the steps and the debugger are its environment |
| `DebugSession` | extends `Pipeline` with `Listener.Accept`, `Server`, the dispatcher and the panel |
| `Deploy` | extends `Pipeline` with the docker steps, `retryRegistry` and the traffic switch, over one docker host |
| `Lock` | `kit/lock`: `Acquire`, `Release` of several processes on several hosts |
| `Supervise` | `withDefaults` and `runLoop` |
| `Runner` | the runner's verbs as processes over the definition, the generated file and the build cache |
| `Targets` | discovery, the generated switch and the command line, as operators checked against a reference |
| `Proc` | `kit/proc`: a program, its watchdog, callers of `Wait` and `Stop` |
| `AtomicFile` | abstract: what a reader of an atomically written path may see, and what a writer may be told |
| `Files` | `WriteAtomic`, `WriteFileOwner`'s script and their callers; implements `AtomicFile` |
| `SecretSync` | `kit/secret`: `Sync` and `prune` |
| `Launch` | `kit/session`, `lath run --debug` and `lath tui` finding, launching and attaching |
| `EngineProofs` | theorems about `Pipeline`, `DebugSession` and `Deploy`, in three parts: the second and third use the lemmas of the first |
| `LockProofs`, `SuperviseProofs`, `ProcProofs`, `FilesProofs`, `SecretSyncProofs`, `RunnerProofs`, `LaunchProofs` | theorems |
| `MC...` | instances for TLC |

`DebugSession` and `Deploy` are compositions: each replaces one side of the engine's environment
(the debugger; the steps) by the code that plays it. Their engine actions are `Pipeline`'s own.
`Launch` ends where `DebugSession` begins, at the first event; `Runner` leaves to `Targets` which
commands a definition has.

### Pipeline

A step is what the engine sees of one: whether its own `Validate` accepts it, the keys it requires
and the list of keys it provides. `values` is `State.values`; a value is abstracted to the number of
the `st.Run` call that set it, which is what wiring and reruns have to tell apart. `pc` says where
`Run`/`run` is: `new` (before `NewState`), `run` (`Validate`, plan and `dbg.Plan`), `top` (the loop
condition and the context check), `running` (inside `st.Run`), `paused` (inside `dbg.Pause`),
`finish` (before `dbg.Finish`), `done`. One action per section of code between two points where
something else may happen: `StepReturns` is everything from the return of `st.Run` to the next
blocking point, `PauseReturns` the whole `switch` on the answer. `Cancel` may happen anywhere. A step
returns any outcome the contract in `step.go` allows: it sets its declared keys (some of them when
it fails) and has side effects only outside a dry run. `MaxRuns` bounds reruns; the code has no bound.
`runs`, `last`, `wrote`, `firstIn` and `effects` are history the properties read and nothing else.

### DebugSession

Two processes and two FIFO streams. Events carry the position and, as history, the serial number of
the pause; controls carry the ack (a position) and, as history, the serial their author was looking
at. `Stale` is the code's test, on positions; `FreshAnswers` is about serials. `ln` and `watcher`
are the listener field and the goroutine of `Accept`; the unsynchronised read of `l.ln` is a
nondeterministic choice between the old listener and nil. The panel obeys `panel.prompt`: after a
failure only rerun and quit are sent, quitting a healthy run closes the connection. `TypeAhead` adds
a client that is not the panel. Detail and output events decide nothing and are left out, as is what
is drawn. One pipeline per process.

### Deploy

`plan` is the list of step kinds a definition builds; `pipe` is what the engine sees of it (`Steps`).
A step's `Run` starts at `EnterStep` with fresh locals (`sub`, `k`, `stale`, `target`, `upSince`) and
takes one action per command it issues, so that cancellation, a crash of a container or the loss of
the connection can come between any two; it ends in `Pipeline`'s `StepReturns`. The host maps every
container name to `absent`, `up`, `looping` (it has restarted) or `stopped`. A command that reports
success took effect; one that reports failure may have. `docker run` under a name in use is refused and
a failed one may leave a container behind; `docker rm` refuses a running one; `docker ps --filter
name=` matches anywhere in the name (`Matches`, against `Own` for the names that begin with the
prefix). `WaitHealthy` judges by probe, by the image's own check or by uptime (`check`), one poll of
`wait.Until` at a time. Login, Push and Pull are attempts under `supervise.Retry`, whose delays are
`Supervise`'s subject. Build, prune, use-image and the resolve steps touch nothing a property looks
at; a failed build leaves its key set, as in the code. `previous`, `judged`, `crashed` and `fell` are history.

`NoOutage` and `TrafficServed` except what the code cannot see: a container that crashes after it was
judged, and for traffic the redeploy of the very release that is running, where `Start.Replace`
documents a gap. Both hold of plans in the documented order; `Validate` cannot infer that order,
and a plan that retires before it waits has no such guarantee.

### Lock

Every file-system call and every liveness check is an action of its own. A claim names its process
(PID with start time and host) and which of that process's claims it is (`Since`). A process may
crash at any step; its PID may be taken by another program (`lingers`); a claim may pass `staleAfter`
(`old`). `Alive` follows `alive()`: on the holder's host, dead processes are found out unless their
PID answers again and start times are not available; on another host the answer is about an unrelated
PID. `breach` is history: some steal replaced something other than the dead claim it had judged.

### Supervise

Durations are whole seconds; whether a run lasted `HealthyAfter` is an input. `Policies` are policies
as callers write them, zero and negative fields included. `MaxCalls` bounds an unlimited loop.

### Runner

Nothing in the runner takes a lock, so every file operation is an action and any number of processes
share the directories. A process runs once: `Invoke` and `Discover` are the two discoveries `run` and
`runTarget` make, `Scan` and `Lookup` the hash and the cache, `Check`/`Remove` the two halves of
`removeGenerated`, `Truncate`/`Write` the two halves of `os.WriteFile` (the inode matters: a writer
whose file was unlinked writes into nothing, and two writers of one inode leave a mixture),
`Compile`/`Link` `go build`, `Sweep`/`Unlink` the removal afterwards, `Manifest` and `Exec` the rest.
`lath init`, `cache prune` and `cache clean` have their own steps. A content stands for the sources of a
definition; the digest is taken as injective over what is mixed into it. The modules a definition replaces
by local directories are state of their own (`mod`, changed by `EditModule`): `localReplaceDirs` walks the
replace graph as the code does, depth first, each directory once and to `MaxReplaceDepth`, so a cycle ends;
what `go build` links obeys only the definition's own `replace` lines, as Go does. Parsing `go.mod` is
abstracted to the constant `Replaces`. `raced` and `crowded` are history: a change of the definition or the tools
under a process that has begun to read, and two builds in one directory. The code cannot exclude either,
and the two properties that need it say so.

### Targets

A definition is a set of declarations (directory, name, type parameters, results, parameters).
`discover`, `generate` and `Dispatch` are operators; `Ask` is one command line. The properties compare
the answer with a reference that knows nothing of dispatchers: a target is the function whose directory
and name were typed. Lower-casing and import aliases are functions over the names of the instance.

### Proc

One program and everything that may happen to it. `Natures` is what it does about SIGTERM, whether it
may be signalled and whether it ends unasked. A goroutine that copies its input or output may be held up
(`heir`), by a descendant that holds the pipe open, a `Stdin` reader or a writer that blocks, and then
`cmd.Wait` does not return. The watchdog's `select` is `WatchReleased`, `WatchCancelled` or
`WatchDeadline` followed by `WatchKills`; `timedOut` is stored and the signal sent in two steps, as in
the code. `Enter`, `Reap`, `Release`, `Load`, `Return` are `Wait` under `waitOnce`. `Stop` is a goroutine of its
own with a waiter inside it.

### AtomicFile and Files

`AtomicFile` has three actions: a writer's whole version replaces what is there; what is there gets the mode
of a read-only version from before, made writable; a writer is told a result that is true. So the contents
are always one whole version, while the mode may be another one's. `Files` has one action per system call of `WriteAtomic`
and `replace`, and one per command of the shell script `WriteFileOwner` sends; any of them may fail, a
writer or its shell may be killed at any step (a kill leaves its temporary file), and a remote caller may
get an error while its shell goes on, which is why an error of a remote write is not `sure`. Modes are
sets of three bits. `Drops` lets the connection break during the transfer: what the shell has read so far
is then decoded and installed, which `AtomicFile` does not allow; the run and the theorems are
about `~Drops`, and `FilesDropped.cfg` shows the other case. `clearReadOnly` is two calls: `Stat` reads the
mode of a read-only target (`seen`), `Relax` sets it, writable, on whatever is at the path by then. When that
is another file the history variable `misset` says so until the path is replaced again: such a file can be
more open than its writer asked for, which `NeverExposed` excepts and `FilesReopened.cfg` shows. `old`, the
file there to begin with, is history too.

### SecretSync

The loop of `Sync` visits keys in order, `prune` what `List` returned. Every call of the store may fail, before
or after taking effect; the store may or may not be able to compare and to provision; another writer may
change any key, in which case nothing is claimed of that key. `wrote` and `deleted` are history.

### Launch

An advertisement is a lock file and a socket, named by key and PID. `Advertise` acquires, then clears a
leftover socket; `List` reads the directory, judges each lock by `Held` and removes the two files in two
steps; `Close` removes them too. Runs build, advertise, listen, accept one client and end; panels list, choose and attach, or advertise, start a child,
dial until the socket opens, the child ends or the deadline passes, await the first event and at the
end report the child's status. Any process may die between two of its steps, and a dead run's PID may be
used again (`life`), for which `ListsTheLiving` makes an exception, because the code does.

## Runs

| run | instance | shows |
|---|---|---|
| `pipeline` | 8 pipelines of up to 3 steps (one per fault, chains, a shared provider), 2 keys, at most 4 runs of steps | wiring, fail-fast, reruns, cancellation; only a rerun gives a run more to do; termination |
| `debug_panel` | 4 pipelines of up to 3 steps, 2 reruns, one unasked control | consent, fresh answers, a truthful panel and verdict, no deadlock between the two processes |
| `lock` | 3 processes on 2 hosts, one claim each | one holder unless a steal was overtaken; crashes never wedge |
| `lock_double_hold` | 2 processes, 2 claims each | *violated*: two holders after overtaken steals |
| `supervise` | 14 policies | attempts, delays, cancellation |
| `deploy` | publish; fetch, start, switch, retire; migrate and roll out with `Replace`; the README's pipeline. 2 new containers, 2 old ones or one old and one of this release, 2 registry attempts, 5 runs of steps, one container that may crash | no outage, traffic only to proven containers, one release after a success, schema and image first, inert rehearsals, termination |
| `runner` | 3 processes, 2 checkouts, 3 contents (one does not compile), an engine replaced by a local directory and a module it replaces in a cycle, one change, one fault | the cache is sound, no residue, no false "did not compile" |
| `proc` | one waiter, one stopper, 12 natures, 4 configurations | the timeout is told, all answers agree, the program ends, `Stop` returns |
| `files` | 2 writers of one path with 8 jobs; no old file, a public, a read-only public and a private read-only one; 2 attempts | implements `AtomicFile`, nothing exposed unless by a stale mode, no litter |
| `secret` | 3 keys, 3 desired and 3 reserved sets, every store, one write by others | nil means converged, the report is the boundary, nothing unasked |
| `launch` | 2 panels, one of them launching, a run from elsewhere whose PID is used twice | only the living are listed, one driver, nobody waits for the dead |
| `targets` | up to 3 of 14 declarations, command lines of up to 3 of 8 words | the right target with the right words; what is listed runs |

Why the bounds are enough. Three steps give a first, a middle and a last one, which is all `run`
distinguishes; two keys give a key with two readers and a step with two keys; four runs of steps allow
a rerun after a rerun. In the session two reruns allow a pause, its repetition and one more, and one
control sent unasked is enough to be too early. Three
processes give a holder, a thief and an overtaker. The policies are at and around each comparison
in `withDefaults` and `runLoop`. Two containers on each side give a release that is half started, half
judged and half retired; two attempts give a first and a last one; five runs of steps let an early step
of a plan be rerun (a plan that needs more to finish still finishes: only reruns are bounded). One fragile
container crashes before, between or after the polls. In `runner` two processes build in one directory while the third prunes, cleans,
initialises or lists, and one change suffices to make any value read stale. One
waiter and one stopper are three goroutines that race to reap. Two writers give one that overtakes
the other at every call. Three keys give one desired, one reserved and one to prune. A namespaced
command has two words and one argument.
`CHECK_DEADLOCK FALSE` is set because every one of these programs
ends; `Runner` has an explicit `Rest` instead, so there a process that is stuck half-way would be a deadlock.

Fairness. The engine and its steps run (a step returns: contract 4 in `step.go`); an operator may
leave a pause unanswered in `Pipeline`, and in `DebugSession` answers or leaves in the end, within
`MaxReruns`. Nothing is assumed about signals, dialling or vanishing. In `Lock` a process goes on with
an `Acquire` it has begun, while holders need never release. In `Deploy` the engine goes on and a docker command returns (a migration with no `Timeout` is
waited for as long as it takes: that it ends is an assumption), and a wait that does not settle meets the deadline
every `wait.Until` has. In `Proc` goroutines run, timers fire and the kernel delivers signals; nothing is assumed of
the program (one that ignores SIGTERM may run for ever) or of its descendants. In `Launch` a launching
panel and its reaper go on, and `dialWhenReady`'s `select` does not prefer the interval timer for ever over a
case that stays ready (`SF` on `Decides`: Go chooses among ready cases at random); nothing is assumed of runs.

Besides the runs, these configurations reproduce counterexamples to what a comment or document says
(`tlc -config X.cfg M`). TLC ends each of them with a violation.

| configuration | module | shows |
|---|---|---|
| `DebugNobodyAttached` | `MCDebugSession` | an armed run nobody attached to starts its first step |
| `DebugAcceptCancelled` | `MCDebugSession` | a cancelled `Accept` panics |
| `LockRelease` | `MCLock` | a `Release` removes a claim put in place after its `Read` |
| `DeployForeign` | `MCDeploy` | a container that merely contains the prefix is stopped |
| `DeployCancelledPush` | `MCDeploy` | `Run` returns nil with nothing pushed |
| `RunnerPrune` | `MCRunner` | `prune` deletes the binary of a living project |
| `FilesDropped` | `MCFiles` | a dropped connection installs a truncated file |
| `FilesReopened` | `MCFiles` | one writer's `Chmod` opens the 0600 credential of another |
| `TargetsBareDebug` | `MCTargets` | `lath run --debug` panics |
| `TargetsCapital` | `MCTargets` | a target in a directory with a capital is listed and never runs |

## Proofs

Checked by TLAPS for every value of the constants that the named assumptions allow. A hypothesis of a theorem
is in its `ASSUME`.

The engine (`EngineProofs`, part 1), from the assumption that pipelines are sequences of steps:

* `PipelineTypeCorrect`.
* `PipelineFailFast`. `FailFast` is not inductive: it does not say where the engine is. `Progress` adds that
  steps before `i` succeeded, steps after it have not been reached, and what `runErr` and `result` say about
  step `i`.
* `PipelineInputsWired`. `Wiring` says of every step before `i` that what it provides is in the bag, with the
  number of its latest run; at a pause the same holds of the snapshot, which is what makes a restore safe.
  `AcceptedIsWired` turns acceptance by `Validate` into unique providers.
* `PipelineRerunSeesOriginalInputs`. `Replay`: with a debugger the snapshot at a pause is the bag the step
  first saw, and a step that is about to run again finds it restored.
* `PipelineRehearsalIsInert`, from the mode `NewState` leaves behind.
* `PipelineNoStepAfterCancel`, an action property: a step begins only through `StepStarts`, which looks at
  ctx.
* `PipelineDescends`, the safety half of termination: `ToDo` (steps left, the stage of the current one, a
  signal that may still come) is a natural number, every step of a run lessens it except an answered rerun, and
  after a cancellation no step begins.
  So a run without reruns ends as soon as its steps and its debugger return; that they do is the fairness that
  `RunReturns` adds, which TLC checks.

The supervised run (part 2):

* `SessionImplementsPipeline`: every step of a session, seen by the engine, is an engine step or a stutter
  (`SessionStepIsRunStep`), so part 1 holds of supervised runs.
* `SessionConsent`. `Paced` adds where the engine is: at the top of the loop every step run so far was paid
  for by an answer; only while a step runs, or is paused on, is one run unpaid.
* `SessionHonestVerdict`. `Candid`: a `finished` event on its way, read or not, speaks of a run that is over.
* `SessionFreshAnswers`, an action property. `Fresh` dates everything that names a pause, the events under
  way, the one on the screen and the queued controls: until a rerun, each names an earlier position or the
  very pause the engine is at, so a matching ack means a matching pause.
* `SessionPanelInSync`. `Screen` says of every step that the last event about it still on its way tells the
  engine's record, and that the screen does if there is none; `Announced` that the pause the engine is at is
  the last thing it said. So when the panel prompts for that pause nothing is on its way, and the screen is
  the record.

Deploys (part 3):

* `DeployImplementsPipeline`: the engine's part of every deploy step is an engine step or a stutter
  (`StepIsEngineStep`), so part 1 applies to deploys; `DeployFailFast` is its first use.
* `DeployRehearsalTouchesNothing`, for every plan and host: an action property. It needs `Rehearsed`: the host
  is a function on names, and under a dry run `StopPrevious`, the one step that still talks to docker, never
  gets past its listing.
* `DeployNoOutage`, `DeployTrafficServed`, `DeployOneRelease` and `DeploySchemaFirst`, for every host, release
  and outcome of the commands, assuming of every plan that it is `Orderly`: it waits before it switches or
  stops, switches before it stops, and pulls and migrates before it starts. `example/.lath/deploy.go` lists
  these as what "Validate cannot infer"; the plans of `MCDeploy` keep them (TLC evaluates `MCOrderly`), the
  example itself does not (see below). The invariant `Safe` has three parts. `Deeds`: what each step that is
  behind the engine has done (for a pull: unless a cancellation, which `Retry` turns into success, keeps the
  engine from going on). `Loops`: how far the running step's loop has come. `World`: whoever was judged
  healthy is left alone from then on (`Kept`), and the old release runs and has the traffic until the new one
  is proven (`Relay`).
* `DeployStepDescends`, for every plan and host: `Work`, what the running step has left to try, start, judge or
  retire, lessens with every move that stays inside the step, except an unsettled poll (ended by the deadline of
  `wait.Until`), a signal and a crash. `Measured` keeps the step's counters within what it has to do and the
  container being removed among those still to be. The listing of old containers makes a set of them, so `Name`
  is assumed finite (`NamesAssumption`), as it is on a host. No run lists `StepDescends`; the theorem covers its
  instance.

The other components:

* `LockExclusion`, for any processes and hosts: `SoleHolderNamed` is inductive with `TypeOK`; the link needs
  no file, an undisturbed steal needs its claim's owner to be dead, and `Release` removes what names it.
* `LockStaleMeansDead`: the dead stay dead.
* `SuperviseAttemptsBounded` (`AttemptsInv` ties calls to restarts at each point of the loop),
  `SuperviseDelayBounded` (`DelayInv` bounds the next delay as well as the last) and
  `SuperviseNoCallAfterCancel`, an action property.
* `RunnerProofs`, for any processes, checkouts, contents, modules and changes, from `MarkersAssumption` (what
  stands for "nothing" is not a value). `RunnerCacheSound`: `Informed` says what a building process has read
  is still so, at each point as much as it has read by then; with it `CacheInv` holds of the unit about to be
  linked and of every entry. It rests on `WalkCovers`: for every replace graph, cyclic or not, and every
  `MaxReplaceDepth`, the walk of `localReplaceDirs` finds at least the definition's own modules. That is
  induction over the depth left and over the directives of a file (`Visited`: a walk loses nothing it has seen).
  `RunnerNoResidue`: a generated file is always `Minded`, somebody past creating it in that directory is still
  to remove it, and with several in one directory the last to leave finds it. `RunnerHonestCompile`: a process
  that is `Alone` in its directory compiles its own file, and `Blamed` follows a failure from the compiler to
  the exit.
* `TargetsRightTarget` and `TargetsListedRuns` (also in `RunnerProofs`), for every set of declarations and
  command lines of any length. `Asked` says the answer is `AnswerTo` of the definition and the words; what that
  computes is followed through lemmas: `Dispatched` (which case of the switch a word selects), `OneName` (no two
  targets of an accepted definition share a command), `Handed` (whatever ran had its command as first words and
  got the rest) and, the other way round, `Reached` and `Complete`. What taking flags away does to a command
  line, in lath (`--json`, `--debug`) and again in the dispatcher, is the lemmas about `Without`, by induction
  over the words. `FlagsAssumption` says a flag is no name (a Go identifier has no dash, no element of an import path begins with one)
  and that nobody types the flags lath appends for its own use. Names are ASCII, so that `strings.ToLower` and the
  dispatcher's own `lower` agree.
* `LaunchProofs`, for any panels, runs and lives of a PID, from `LaunchAssumption`. `LaunchListsTheLiving`:
  `Listing` says that a lock file, an entry read and an entry about to be swept belong to somebody past
  advertising (`Past`), and that one found dead has gone for good (`Gone`): were it possible to advertise
  again, the sweep would rob it. `LaunchOneDriver`: `Driving` says an event comes only over a connection, from
  a run that has stopped accepting.
* `ProcProofs`: `TimeoutIsTold` and `AnswersAgree`, for any goroutines in `Wait` and `Stop`. The invariant is
  `OneReaper` (what `sync.Once` gives: one goroutine between `Enter` and `Return`, and it alone reaps), `Made`
  (the answer is made of what `cmd.Wait` said, and says timeout if the watchdog's kill landed), `Recorded`
  (the reason is stored before the kill) and `Same` (what was told is the answer). `Recorded` is the heart of
  it: were the store after the signal, the reaper could load `timedOut` in between.
* `FilesProofs`: `Implements` (`Files` implements `AtomicFile`), `NothingIsExposed` and `NothingIsLeft`, for
  any writers, jobs and attempts, from `~Drops`. `Inv` says for each writer which machinery it uses, what its
  temporary file holds at every point (it is whole by the rename), and what it has been told. `Closed` ties
  a file's mode to the job of whoever's bytes it holds. `InPlace` says it of the target unless it is `misset`,
  and that a misset target is writable: so what `Stat` finds read-only is a version as it was installed
  (`Earlier`), which is what `AtomicFile`'s `Relax` asks for, and a `Chmod` of the file that was read leaves
  it closed.
* `SecretSyncProofs`: `NilMeansConverged`, `ReportIsBoundary` and `AsksFirst`, for any keys and sets.
  `Outcome` says the report partitions the keys the loop is through with, `Held` what the store contains for
  those, and `Pruned` that deletions keep clear of both.

`StepIsEngineStep` is checked against the step contract `Pipeline` assumes, so the two modules cannot drift
apart unnoticed.

Induction. The library's induction theorems take an operator as a parameter, which the provers cannot
instantiate. `RunnerProofs` therefore begins with induction said of sets: `Least` (a set of numbers that is not
empty has a least one, from the well-foundedness of `<`), `Climb` (a set that has 0 and, with each number, the next
has them all) and `Recursion` (there is a function on `0 .. N` whose value at each number is computed from the one
before, so a recursive definition means what it says). `Build` is induction over sequences, by appending.

The attempt to prove `RightTarget` corrected it: it had said that no other function of the definition has the
typed name, which is false where a function of an unsupported shape differs from a usable one only in case.
discover passes such a function over, so the property now speaks of the usable ones, and the instance contains
such a pair.

Only model-checked: the liveness properties (`RunReturns`, `SessionEnds`, `CrashNeverWedges`, `DeployReturns`,
`ProgramEnds`, `StopReturns`, `NoWaitForTheDead`), because liveness under fairness and `ENABLED` are out of this prover's
reach. Every other property of a passing run is the statement of a theorem.

## What the checks found

Places where the code and what is written about it disagree. One is a run (`lock_double_hold`), ten have
a configuration listed above, the others were met while modelling and are why a property carries a
condition. `PROJECT.json` quotes both sides of each.

* Debugger: a queued keystroke decides the pause of a rerun; an armed run nobody attached to runs its
  steps; `Accept` may panic when cancelled; the panel gives up on a child that compiles for two minutes.
* Lock: two holders after an overtaken steal; a `Release` that removes the claim of whoever stole the lock
  after its `Read`; a recycled PID outlives `StaleAfter` where start times
  are not available.
* Retry: a `Backoff` above `Max` is slept in full; a cancelled `Retry` is a success.
* Docker: the prefix is matched anywhere in a name. The README's pipeline is refused for want of
  `ResolveEnv`, and the example retires the old containers before it moves the traffic.
* Runner: `prune` deletes a binary that a second checkout runs; the Go tool on PATH is not part of the hash; an
  interrupted write of the dispatcher leaves a file the next run refuses to delete.
* Targets: `lath run --debug` with no target panics; some definitions pass discovery and do not compile; lath's
  flags reach a target of a definition that does not use the pipeline module; a target in a directory with a
  capital is listed and cannot be run.
* Files: a dropped connection can install a truncated file; execute bits are lost; where a rename is refused
  over a read-only file, `clearReadOnly` can give its mode to a credential another writer has installed since.
* Secrets: the report is incomplete after a cancellation.
* Proc: a cancelled program is no longer killed at its timeout, and its `Wait` returns a nil error.

## Plan

1. An abstract specification of supervised sequencing (steps let through one answer at a time) that `DebugSession` implements.
2. Two deploys at once under one prefix, with and without the lock; a second `NewState` in one process.
3. Ranking properties like `Descends` for `Launch` and `Proc`.

Not modelled, and not planned: drawing, the parsing of Go source and of `.env` files, formatting, single-call
helpers, process-table queries (`kit/proc` `Find`), Windows, and the clients of
external services, which make one request per call: there is no state of lath's own in them to be wrong.
