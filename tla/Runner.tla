------------------------------- MODULE Runner -------------------------------
(***************************************************************************)
(* The runner: `lath run`, `plan`, `list`, `init` and `cache` as separate  *)
(* processes over the files they share (src/cmd/lath/main.go, build.go,    *)
(* cache.go, init.go, and the file half of generate.go).                   *)
(*                                                                         *)
(* Nothing in the runner takes a lock.  Every process reads the            *)
(* definition, hashes it, and on a cache miss writes one generated file    *)
(* into the definition's own directory, has the Go tool compile that       *)
(* directory, deletes the file again and replaces itself by the binary.    *)
(* Meanwhile an author edits the definition, a checkout is deleted, lath   *)
(* or Go is upgraded, and `lath cache prune` walks the same cache.         *)
(*                                                                         *)
(* A process runs once.  Which command lines exist, what discovery accepts *)
(* and which of the author's functions a command reaches is the business   *)
(* of module Targets: here a definition is one of a few contents, each     *)
(* with the set of commands discovery finds in it.                         *)
(***************************************************************************)
EXTENDS Naturals, Sequences, FiniteSets, FiniteSetsExt

Seqs == INSTANCE SequencesExt

CONSTANTS
  None,          \* no such file, directory or value
  Empty, Mixed,  \* a generated file just truncated, or written by two
  Projects,      \* checkouts: each has one definition directory
  Contents,      \* what a definition directory may contain
  Commands,      \* [Contents -> sets of commands]: what discover returns
  Compiles,      \* the contents the Go compiler accepts
  Checkouts,     \* what the projects may hold to begin with
  Starter,       \* the content `lath init` writes
  Modules,       \* directories of modules under development nearby
  Replaces,      \* which of them each go.mod replaces, in its order
  MaxReplaceDepth, \* maxReplaceDepth
  NameOf,        \* [Projects -> naturals]: rank of the readable cache name
  Procs,         \* runner processes
  Jobs,          \* [Procs -> sets of jobs]: what each may be asked, where
  MaxChanges,    \* bound on edits, deletions and upgrades together
  MaxFaults      \* bound on crashes and failed writes together

Verbs == {"run", "plan", "list", "init", "prune", "clean"}

ASSUME RunnerAssumption ==
  /\ Commands \in [Contents -> SUBSET STRING]
  /\ Compiles \subseteq Contents /\ Starter \in Contents
  /\ Checkouts \subseteq [Projects -> Contents \cup {None}]
  /\ Replaces \in [Contents \cup Modules -> Seq(Modules)]
  /\ MaxReplaceDepth \in Nat /\ NameOf \in [Projects -> Nat]
  /\ Jobs \in [Procs -> SUBSET [verb : Verbs, at : Projects]]
  /\ MaxChanges \in Nat /\ MaxFaults \in Nat

\* A definition directory that holds no Go file yet.
Bare == "bare"

Versions == 1 .. 1 + MaxChanges
\* The short hash naming a cache entry, taken as injective: 0 for a module
\* whose sources were not read.
Hashes == [src : Contents \cup {Bare}, lath : Versions,
           mods : [Modules -> {0} \cup Versions]]
Entries == {NameOf[p] : p \in Projects} \X Hashes
\* A generated dispatcher: which commands it switches on, which template.
Dispatchers == [commands : SUBSET UNION {Commands[c] : c \in Contents},
                lath : Versions]
\* The generated file: who created the inode, and what has been written.
\* An Empty file has no header; a Mixed one holds parts of two dispatchers.
Files == [by : Procs, body : Dispatchers \cup {Empty, Mixed}]
\* A compiled definition, and what the compiler read.
Binaries == [src : Contents, mods : [Modules -> Versions],
             disp : Dispatchers, go : Versions]

\* What stands for "nothing" is none of the things it is told apart from.
ASSUME MarkersAssumption ==
  /\ Bare \notin Contents
  /\ None \notin Contents /\ None \notin Files /\ None \notin Binaries
  /\ None \notin {"ok", "usage", "internal", "compile", "ran"}
  /\ Empty # Mixed /\ Empty \notin Dispatchers /\ Mixed \notin Dispatchers

VARIABLES
  job,       \* the command line and working directory of each process
  src,       \* what each definition directory holds
  mod,       \* the state of each module's sources
  gen,       \* the generated file in it, if any
  bin,       \* the cache: the entries there are, with their binaries
  man,       \* the sidecars there are: the project each entry names
  lath, go,  \* the installed runner and the Go tool on PATH
  pc,        \* where each process is
  ver,       \* the version of lath each process is
  targets,   \* what discover returned to it
  hash,      \* what scan returned to it
  entry,     \* its binPath
  fd,        \* the creator of the inode it writes the dispatcher into
  unit,      \* what the compiler produced for it
  victims,   \* what a cache command still has to remove
  out,       \* how it ended
  changes, faults,
  raced,     \* history: something changed under a process about to compile
  crowded    \* history: projects two processes built in at the same time

files == <<src, mod, gen, bin, man>>
tools == <<lath, go, job>>
own   == <<ver, targets, hash, entry, fd, unit, victims>>
hist  == <<changes, faults, raced, crowded>>
vars  == <<job, src, mod, gen, bin, man, lath, go, pc, ver, targets, hash, entry,
           fd, unit, victims, out, changes, faults, raced, crowded>>

PCs == {"off", "discover", "scan", "lookup", "check", "remove", "truncate",
        "write", "compile", "link", "sweep", "unlink", "manifest", "exec",
        "mkdir", "scaffold", "tidy", "list", "binary", "sidecar",
        "done", "crashed"}
\* Between reading the definition and the compiler reading it again.
Building == {"discover", "scan", "lookup", "check", "remove", "truncate",
             "write", "compile"}
\* Holding, or about to hold, the generated file.
Generating == {"check", "remove", "truncate", "write", "compile", "link",
               "sweep", "unlink"}
Outs == {None, "ok", "usage", "internal", "compile", "ran"}

Verb(r) == job[r].verb
At(r) == job[r].at

Init ==
  /\ job \in [Procs -> UNION {Jobs[r] : r \in Procs}]
  /\ \A r \in Procs : job[r] \in Jobs[r]
  /\ src \in Checkouts
  /\ gen = [p \in Projects |-> None]
  /\ mod = [m \in Modules |-> 1]
  /\ bin = <<>> /\ man = <<>>
  /\ lath = 1 /\ go = 1
  /\ pc = [r \in Procs |-> "off"]
  /\ ver = [r \in Procs |-> 1]
  /\ targets = [r \in Procs |-> {}]
  /\ hash = [r \in Procs |-> None]
  /\ entry = [r \in Procs |-> None]
  /\ fd = [r \in Procs |-> None]
  /\ unit = [r \in Procs |-> None]
  /\ victims = [r \in Procs |-> {}]
  /\ out = [r \in Procs |-> None]
  /\ changes = 0 /\ faults = 0
  /\ raced = FALSE /\ crowded = {}

-----------------------------------------------------------------------------
(* Steps of one process. *)

Midway(p) == \E r \in Procs : At(r) = p /\ pc[r] \in Building

Here(r) == src[At(r)]

\* A file written, and one deleted.
With(f, e, v) == [x \in DOMAIN f \cup {e} |-> IF x = e THEN v ELSE f[x]]
Drop(f, e) == [x \in DOMAIN f \ {e} |-> f[x]]

Goto(r, l) == pc' = [pc EXCEPT ![r] = l] /\ UNCHANGED out
End(r, code) == /\ pc' = [pc EXCEPT ![r] = "done"]
                /\ out' = [out EXCEPT ![r] = code]

\* What discover makes of a directory: nothing, or commands to run.
Found(c) == IF c \in Contents THEN Commands[c] ELSE {}

\* run(): the discovery `run` and `list` do before anything else, and the
\* start of the other verbs.  The process is whatever lath is installed.
Invoke(r) ==
  /\ pc[r] = "off"
  /\ ver' = [ver EXCEPT ![r] = lath]
  /\ CASE Verb(r) \in {"run", "list"} ->
            IF Found(Here(r)) = {} THEN End(r, "usage")
            ELSE IF Verb(r) = "list" THEN End(r, "ok")
            ELSE Goto(r, "discover")
       [] Verb(r) = "plan" -> Goto(r, "discover")
       [] Verb(r) = "init" ->
            IF Here(r) # None THEN End(r, "usage") ELSE Goto(r, "mkdir")
       [] OTHER -> Goto(r, "list")
  /\ UNCHANGED <<files, tools, hist, targets, hash, entry, fd, unit, victims>>

\* runTarget's own discovery: what the dispatcher will be generated from.
Discover(r) ==
  /\ pc[r] = "discover"
  /\ IF Found(Here(r)) = {}
     THEN End(r, "usage") /\ UNCHANGED targets
     ELSE Goto(r, "scan") /\ targets' = [targets EXCEPT ![r] = Found(Here(r))]
  /\ UNCHANGED <<files, tools, hist, ver, hash, entry, fd, unit, victims>>

\* The loop of walk over what a go.mod replaces, in its order: a module seen
\* before is passed over, the others are walked, which is w, one level down.
visit(dir, seen, w) ==
  LET after[n \in 0 .. Len(Replaces[dir])] ==
        IF n = 0 THEN seen
        ELSE IF Replaces[dir][n] \in after[n - 1] THEN after[n - 1]
        ELSE w[Replaces[dir][n]][after[n - 1] \cup {Replaces[dir][n]}]
  IN  after[Len(Replaces[dir])]

\* localReplaceDirs: every module reached through replace directives, each
\* once, with so many levels left at most.
localReplaceDirs ==
  LET walk[left \in 0 .. MaxReplaceDepth + 1] ==
        [dir \in Contents \cup Modules |-> [seen \in SUBSET Modules |->
           IF left = 0 THEN seen ELSE visit(dir, seen, walk[left - 1])]]
  IN  [c \in Contents \cup {Bare} |->
         IF c = Bare THEN {} ELSE walk[MaxReplaceDepth + 1][c][{}]]

\* The state of a module's sources, tests and vendored code left out.
hashDirInto(m) == mod[m]

localReplaceHash(c) ==
  [m \in Modules |-> IF m \in localReplaceDirs[c] THEN hashDirInto(m) ELSE 0]

\* Mutant: an engine under development may change and the hash does not.
HashOfDefinitionOnly(r) ==
  [src |-> Here(r), lath |-> ver[r], mods |-> [m \in Modules |-> 0]]

\* What scan mixes into the digest: the runner's own identity, every source
\* file of the definition, never the generated one, and the local modules.
HashOf(r) ==
  [src |-> Here(r), lath |-> ver[r], mods |-> localReplaceHash(Here(r))]

Scan(r) ==
  /\ pc[r] = "scan"
  /\ IF Here(r) = None
     THEN End(r, "internal") /\ UNCHANGED hash
     ELSE Goto(r, "lookup") /\ hash' = [hash EXCEPT ![r] = HashOf(r)]
  /\ UNCHANGED <<files, tools, hist, ver, targets, entry, fd, unit, victims>>

\* cacheLookup: any name will do, and the first in order is taken.
Matches(h) == {e \in DOMAIN bin : e[2] = h}

Lookup(r) ==
  /\ pc[r] = "lookup"
  /\ IF Matches(hash[r]) = {}
     THEN /\ entry' = [entry EXCEPT ![r] = <<NameOf[At(r)], hash[r]>>]
          /\ Goto(r, "check")
     ELSE /\ entry' = [entry EXCEPT ![r] =
                         <<Min({e[1] : e \in Matches(hash[r])}), hash[r]>>]
          /\ Goto(r, "exec")
  /\ crowded' = IF pc'[r] = "check" /\ \E q \in Procs \ {r} :
                     At(q) = At(r) /\ pc[q] \in Generating
                THEN crowded \cup {At(r)} ELSE crowded
  /\ UNCHANGED <<files, tools, changes, faults, raced, ver, targets, hash,
                 fd, unit, victims>>

Headed(f) == f # None /\ f.body # Empty

\* removeGenerated reads the file and refuses one without the header; the
\* deletion is a later system call.
Check(r) ==
  /\ pc[r] = "check"
  /\ CASE gen[At(r)] = None   -> Goto(r, "truncate")
       [] Headed(gen[At(r)])  -> Goto(r, "remove")
       [] OTHER               -> End(r, "internal")
  /\ UNCHANGED <<files, tools, hist, own>>

Remove(r) ==
  /\ pc[r] = "remove"
  /\ IF gen[At(r)] = None
     THEN End(r, "internal") /\ UNCHANGED gen
     ELSE Goto(r, "truncate") /\ gen' = [gen EXCEPT ![At(r)] = None]
  /\ UNCHANGED <<mod, src, bin, man, tools, hist, own>>

\* os.WriteFile opens with O_TRUNC: it creates the inode, or empties the one
\* another process created.  Without a directory, or without the go.mod the
\* module path is read from, generate fails.
Truncate(r) ==
  /\ pc[r] = "truncate"
  /\ IF Here(r) \notin Contents
     THEN End(r, "internal") /\ UNCHANGED <<gen, fd>>
     ELSE LET maker == IF gen[At(r)] = None THEN r ELSE gen[At(r)].by IN
          /\ gen' = [gen EXCEPT ![At(r)] = [by |-> maker, body |-> Empty]]
          /\ fd' = [fd EXCEPT ![r] = maker]
          /\ Goto(r, "write")
  /\ UNCHANGED <<mod, src, bin, man, tools, hist, ver, targets, hash, entry, unit,
                 victims>>

\* Mutant: a case is generated for a function discovery had rejected.
DispatcherWithRejected(r) ==
  [commands |-> targets[r] \cup {"rejected"}, lath |-> ver[r]]

Dispatcher(r) == [commands |-> targets[r], lath |-> ver[r]]

\* The write reaches the directory only while the inode is still linked.
Written(r) ==
  IF gen[At(r)] # None /\ gen[At(r)].by = fd[r]
  THEN [gen EXCEPT ![At(r)].body =
          IF @ \in {Empty, Dispatcher(r)} THEN Dispatcher(r) ELSE Mixed]
  ELSE gen

Write(r) ==
  /\ pc[r] = "write"
  /\ gen' = Written(r) /\ Goto(r, "compile")
  /\ UNCHANGED <<mod, src, bin, man, tools, hist, own>>

\* The disk is full: generate returns, and nothing removes what it left.
WriteFails(r) ==
  /\ pc[r] = "write" /\ faults < MaxFaults
  /\ faults' = faults + 1 /\ End(r, "internal")
  /\ UNCHANGED <<files, tools, own, changes, raced, crowded>>

\* What `go build` makes of the directory: it needs a main function, every
\* command the dispatcher calls, and sources that compile.
Builds(p) ==
  /\ src[p] \in Compiles /\ gen[p] # None
  /\ gen[p].body \notin {Empty, Mixed}
  /\ gen[p].body.commands \subseteq Commands[src[p]]

Compile(r) ==
  /\ pc[r] = "compile"
  /\ IF Builds(At(r))
     THEN /\ unit' = [unit EXCEPT ![r] =
                        [src |-> Here(r), mods |-> mod,
                         disp |-> gen[At(r)].body, go |-> go]]
          /\ Goto(r, "link")
     ELSE Goto(r, "sweep") /\ UNCHANGED unit
  /\ UNCHANGED <<files, tools, hist, ver, targets, hash, entry, fd, victims>>

Link(r) ==
  /\ pc[r] = "link"
  /\ bin' = With(bin, entry[r], unit[r])
  /\ Goto(r, "sweep")
  /\ UNCHANGED <<mod, src, gen, man, tools, hist, own>>

\* After removeGenerated the build's own error is looked at, and not before.
Judge(r) == IF unit[r] = None THEN End(r, "compile") ELSE Goto(r, "manifest")

\* Mutant: the removal is deferred, and exec never returns to run it.
SweepDeferred(r) ==
  /\ pc[r] = "sweep"
  /\ IF unit[r] = None /\ Headed(gen[At(r)]) THEN Goto(r, "unlink") ELSE Judge(r)
  /\ UNCHANGED <<files, tools, hist, own>>

\* removeGenerated again; what it reports is printed and otherwise ignored.
Sweep(r) ==
  /\ pc[r] = "sweep"
  /\ IF Headed(gen[At(r)]) THEN Goto(r, "unlink") ELSE Judge(r)
  /\ UNCHANGED <<files, tools, hist, own>>

Unlink(r) ==
  /\ pc[r] = "unlink"
  /\ gen' = [gen EXCEPT ![At(r)] = None]
  /\ Judge(r)
  /\ UNCHANGED <<mod, src, bin, man, tools, hist, own>>

\* writeManifest; its failure is printed and otherwise ignored.
Manifest(r) ==
  /\ pc[r] = "manifest"
  /\ man' \in {man, With(man, entry[r], At(r))}
  /\ Goto(r, "exec")
  /\ UNCHANGED <<mod, src, gen, bin, tools, hist, own>>

\* handOff: the process becomes the binary, if it is still there.
Exec(r) ==
  /\ pc[r] = "exec"
  /\ IF entry[r] \notin DOMAIN bin
     THEN End(r, "internal") /\ UNCHANGED unit
     ELSE End(r, "ran") /\ unit' = [unit EXCEPT ![r] = bin[entry[r]]]
  /\ UNCHANGED <<files, tools, hist, ver, targets, hash, entry, fd, victims>>

-----------------------------------------------------------------------------
(* `lath init` *)

Mkdir(r) ==
  /\ pc[r] = "mkdir"
  /\ src' = [src EXCEPT ![At(r)] = IF @ = None THEN Bare ELSE @]
  /\ Goto(r, "scaffold")
  /\ UNCHANGED <<mod, gen, bin, man, tools, hist, own>>

Scaffold(r) ==
  /\ pc[r] = "scaffold"
  /\ IF Here(r) = None
     THEN End(r, "internal") /\ UNCHANGED src
     ELSE Goto(r, "tidy") /\ src' = [src EXCEPT ![At(r)] = Starter]
  /\ raced' = (raced \/ Midway(At(r)))
  /\ UNCHANGED <<mod, gen, bin, man, tools, own, changes, faults, crowded>>

\* `go mod tidy` resolves the engine, or does not; what was written stays.
Tidy(r) ==
  /\ pc[r] = "tidy"
  /\ \E code \in {"ok", "usage"} : End(r, code)
  /\ UNCHANGED <<files, tools, hist, own>>

-----------------------------------------------------------------------------
(* `lath cache prune` and `lath cache clean` *)

Orphaned(e) == e \notin DOMAIN man \/ src[man[e]] = None

\* listCache: what exists is read first, and judged by its sidecar.
ListCache(r) ==
  /\ pc[r] = "list"
  /\ victims' = [victims EXCEPT ![r] =
       {e \in DOMAIN bin : Verb(r) = "prune" => Orphaned(e)}]
  /\ Goto(r, "binary")
  /\ UNCHANGED <<files, tools, hist, ver, targets, hash, entry, fd, unit>>

\* removeEntry: the binary, then the sidecar; an entry that is already gone
\* is reported and skipped.
RemoveBinary(r, e) ==
  /\ pc[r] = "binary"
  /\ IF e \notin DOMAIN bin
     THEN /\ victims' = [victims EXCEPT ![r] = @ \ {e}]
          /\ UNCHANGED <<bin, pc, out, entry>>
     ELSE /\ bin' = Drop(bin, e)
          /\ entry' = [entry EXCEPT ![r] = e]
          /\ Goto(r, "sidecar") /\ UNCHANGED victims
  /\ UNCHANGED <<mod, src, gen, man, tools, hist, ver, targets, hash, fd, unit>>

RemoveManifest(r) ==
  /\ pc[r] = "sidecar"
  /\ man' = Drop(man, entry[r])
  /\ victims' = [victims EXCEPT ![r] = @ \ {entry[r]}]
  /\ Goto(r, "binary")
  /\ UNCHANGED <<mod, src, gen, bin, tools, hist, ver, targets, hash, entry, fd,
                 unit>>

CacheDone(r) ==
  /\ pc[r] = "binary" /\ victims[r] = {}
  /\ End(r, "ok")
  /\ UNCHANGED <<files, tools, hist, own>>

-----------------------------------------------------------------------------
(* What happens around the processes. *)

\* The author saves a file, checks a definition out, or deletes the checkout.
Edit(p) ==
  /\ changes < MaxChanges /\ changes' = changes + 1
  /\ \E c \in (Contents \cup {None}) \ {src[p]} :
       /\ src' = [src EXCEPT ![p] = c]
       /\ gen' = IF c = None THEN [gen EXCEPT ![p] = None] ELSE gen
  /\ raced' = (raced \/ Midway(p))
  /\ UNCHANGED <<mod, bin, man, tools, pc, out, own, faults, crowded>>

\* A module nearby is edited; whoever replaces it is not.
EditModule(m) ==
  /\ changes < MaxChanges /\ changes' = changes + 1
  /\ mod' = [mod EXCEPT ![m] = @ + 1]
  /\ raced' = (raced \/ \E p \in Projects : Midway(p))
  /\ UNCHANGED <<src, gen, bin, man, tools, pc, out, own, faults, crowded>>

\* A new lath, or a new Go tool on PATH.
Upgrade ==
  /\ changes < MaxChanges /\ changes' = changes + 1
  /\ \/ lath' = lath + 1 /\ UNCHANGED <<go, job>>
     \/ go' = go + 1 /\ UNCHANGED <<lath, job>>
  /\ raced' = (raced \/ \E p \in Projects : Midway(p))
  /\ UNCHANGED <<files, pc, out, own, faults, crowded>>

Crash(r) ==
  /\ faults < MaxFaults /\ faults' = faults + 1
  /\ pc[r] \notin {"off", "done", "crashed"}
  /\ pc' = [pc EXCEPT ![r] = "crashed"]
  /\ UNCHANGED <<files, tools, own, out, changes, raced, crowded>>

Finished == \A r \in Procs : pc[r] \in {"done", "crashed"}
Rest == Finished /\ UNCHANGED vars

Step(r) ==
  \/ Invoke(r) \/ Discover(r) \/ Scan(r) \/ Lookup(r) \/ Check(r)
  \/ Remove(r) \/ Truncate(r) \/ Write(r) \/ WriteFails(r) \/ Compile(r)
  \/ Link(r) \/ Sweep(r) \/ Unlink(r) \/ Manifest(r) \/ Exec(r)
  \/ Mkdir(r) \/ Scaffold(r) \/ Tidy(r)
  \/ ListCache(r) \/ (\E e \in victims[r] : RemoveBinary(r, e))
  \/ RemoveManifest(r) \/ CacheDone(r) \/ Crash(r)

Next == (\E r \in Procs : Step(r)) \/ (\E p \in Projects : Edit(p))
        \/ (\E m \in Modules : EditModule(m)) \/ Upgrade \/ Rest

Spec == Init /\ [][Next]_vars

-----------------------------------------------------------------------------
\* An entry found under a hash was compiled from exactly what the hash was
\* taken over: that source, with every module it replaces as it was then, and
\* a dispatcher for its commands written by that version of lath.  It does not
\* survive a change made while some process is between reading the definition
\* and compiling it.  (Go obeys the replace directives of the definition's own
\* go.mod only.)
CacheSound ==
  ~raced => \A e \in DOMAIN bin :
    /\ bin[e].src = e[2].src
    /\ \A m \in Seqs!ToSet(Replaces[bin[e].src]) : bin[e].mods[m] = e[2].mods[m]
    /\ bin[e].disp = [commands |-> Commands[e[2].src], lath |-> e[2].lath]

\* However many processes shared a definition directory, once they have all
\* ended, none by a crash or a failed write, no generated file is left in it.
NoResidue ==
  Finished /\ faults = 0 => \A p \in Projects : gen[p] = None

\* "Did not compile" is said of definitions that do not compile: unless the
\* definition was being changed or another process was building in the same
\* directory, the author is never blamed for lath's own file.
HonestCompile ==
  \A r \in Procs :
    out[r] = "compile" /\ ~raced /\ At(r) \notin crowded
      => hash[r].src \notin Compiles

\* prune removes orphans only: the entry a project that still exists would
\* run next is not one.
PruneKeepsLive ==
  [][\A e \in DOMAIN bin, p \in Projects :
       /\ src[p] = e[2].src /\ e[2].lath = lath
       /\ e \notin DOMAIN bin'
       => \E r \in Procs : Verb(r) = "clean" /\ pc[r] = "binary"]_vars
=============================================================================
