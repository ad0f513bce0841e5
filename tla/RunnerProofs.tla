---------------------------- MODULE RunnerProofs ----------------------------
(***************************************************************************)
(* Proofs about Runner, for any number of processes, checkouts, contents   *)
(* and modules, of edits, upgrades and crashes: the build cache is sound,  *)
(* no generated file outlives the processes, and nobody is blamed for a    *)
(* file that lath wrote.  And about Targets, for any definition and any    *)
(* command line: what runs is what was typed, and a listed command runs.   *)
(*                                                                         *)
(* Both compute by recursion, over replace directives and over words: the  *)
(* lemmas that come first are induction over the numbers, said of sets.    *)
(***************************************************************************)
EXTENDS Runner, Targets, TLAPS, WellFoundedInduction, SequenceTheorems

-----------------------------------------------------------------------------
(* Induction. *)

\* Every set of numbers that is not empty has a least one.
LEMMA Least ==
  ASSUME NEW T, T \subseteq Nat, T # {}
  PROVE  \E x \in T : \A y \in T : x <= y
<1> DEFINE R == OpToRel(<, Nat)
<1>1. IsWellFoundedOn(R, Nat)
  BY NatLessThanWellFounded
<1>2. \A x, y \in Nat : y < x => <<y, x>> \in R
  BY DEF OpToRel
<1> HIDE DEF R
<1>3. PICK x \in T : \A y \in T : ~ (<<y, x>> \in R)
  BY <1>1, WFMin
<1>4. ASSUME NEW y \in T PROVE x <= y
  <2>1. ~(y < x)
    BY <1>2, <1>3
  <2>2. x \in Nat /\ y \in Nat
    OBVIOUS
  <2>3. QED
    BY <2>1, <2>2
<1>5. QED
  BY <1>4

\* Induction, for a set: one that has 0, and with n also n + 1, has all numbers.
LEMMA Climb ==
  ASSUME NEW P, 0 \in P, \A n \in Nat : n \in P => n + 1 \in P
  PROVE  \A n \in Nat : n \in P
<1> SUFFICES ASSUME Nat \ P # {} PROVE FALSE
  OBVIOUS
<1>1. PICK x \in Nat \ P : \A y \in Nat \ P : x <= y
  <2>1. Nat \ P \subseteq Nat
    OBVIOUS
  <2>2. QED
    BY <2>1, Least
<1>2. x - 1 \in Nat /\ (x - 1) + 1 = x
  OBVIOUS
<1>3. x - 1 \in P
  BY <1>1, <1>2
<1>4. QED
  BY <1>2, <1>3

\* A function computed by recursion over 0 .. N, with values in V: h[n] takes the
\* value at n - 1 to the one at n.
Steps(h, N, V) == h \in [1 .. N -> [V -> V]]
Iterates(f, h, N, V, v) ==
    f \in [0 .. N -> V] /\ f[0] = v /\ \A n \in 1 .. N : f[n] = h[n][f[n - 1]]

\* There is one.
LEMMA Recursion ==
  ASSUME NEW N \in Nat, NEW V, NEW v \in V, NEW h, Steps(h, N, V)
  PROVE  \E f : Iterates(f, h, N, V, v)
<1> DEFINE Upto(m) == m <= N => \E f : Iterates(f, h, m, V, v)
<1> DEFINE P == {m \in Nat : Upto(m)}
<1>1. 0 \in P
  <2> DEFINE f == [n \in 0 .. 0 |-> v]
  <2>1. f \in [0 .. 0 -> V] /\ f[0] = v /\ \A n \in 1 .. 0 : FALSE
    OBVIOUS
  <2> HIDE DEF f
  <2>2. QED
    BY <2>1 DEF Iterates
<1>2. ASSUME NEW m \in Nat, m \in P PROVE m + 1 \in P
  <2> SUFFICES ASSUME m + 1 <= N PROVE Upto(m + 1)
    OBVIOUS
  <2>1. PICK f : Iterates(f, h, m, V, v)
    BY <1>2
  <2> DEFINE g == [n \in 0 .. m + 1 |-> IF n = m + 1 THEN h[m + 1][f[m]] ELSE f[n]]
  <2>2. f[m] \in V /\ h[m + 1] \in [V -> V]
    BY <2>1 DEF Iterates, Steps
  <2>3. g \in [0 .. m + 1 -> V]
    BY <2>1, <2>2 DEF Iterates
  <2>4. g[0] = v
    BY <2>1 DEF Iterates
  <2>5. ASSUME NEW n \in 1 .. m + 1 PROVE g[n] = h[n][g[n - 1]]
    <3>1. CASE n = m + 1
      BY <3>1
    <3>2. CASE n # m + 1
      <4>1. n \in 1 .. m /\ n - 1 \in 0 .. m
        BY <3>2
      <4>2. QED
        BY <2>1, <4>1 DEF Iterates
    <3>3. QED
      BY <3>1, <3>2
  <2> HIDE DEF g
  <2>6. QED
    BY <2>3, <2>4, <2>5 DEF Iterates
<1>3. N \in P
  <2> HIDE DEF P
  <2>1. QED
    BY <1>1, <1>2, Climb
<1>4. QED
  BY <1>3

-----------------------------------------------------------------------------
(* Runner. *)

\* All commands any definition has.
AnyCommand == UNION {Commands[c] : c \in Contents}

\* The types of what the proofs need to know the type of.
TypeOK ==
  /\ job \in [Procs -> [verb : Verbs, at : Projects]]
  /\ src \in [Projects -> Contents \cup {Bare, None}]
  /\ mod \in [Modules -> Versions]
  /\ gen \in [Projects -> Files \cup {None}]
  /\ \A e \in DOMAIN bin : bin[e] \in Binaries \cup {None}
  /\ lath \in Versions /\ go \in Versions
  /\ pc \in [Procs -> PCs] /\ ver \in [Procs -> Versions]
  /\ targets \in [Procs -> SUBSET AnyCommand]
  /\ hash \in [Procs -> Hashes \cup {None}]
  /\ DOMAIN entry = Procs /\ DOMAIN fd = Procs /\ DOMAIN victims = Procs
  /\ unit \in [Procs -> Binaries \cup {None}]
  /\ out \in [Procs -> Outs]
  /\ changes \in 0 .. MaxChanges
  /\ lath <= 1 + changes /\ go <= 1 + changes /\ \A m \in Modules : mod[m] <= 1 + changes

\* An entry e may hold a binary u.
Sound(e, u) ==
  /\ u.src = e[2].src
  /\ \A m \in Seqs!ToSet(Replaces[u.src]) : u.mods[m] = e[2].mods[m]
  /\ u.disp = [commands |-> Commands[e[2].src], lath |-> e[2].lath]

\* What a process that is building has read is still so, and nobody has
\* written another dispatcher over its own.
Informed(r) ==
  /\ pc[r] \in Building => ver[r] = lath
  /\ pc[r] \in Building \ {"discover"} => Here(r) \in Contents /\ targets[r] = Commands[Here(r)]
  /\ pc[r] \in Building \ {"discover", "scan"} => hash[r] = HashOf(r)
  /\ pc[r] \in {"check", "remove", "truncate", "write", "compile", "link"} => entry[r][2] = hash[r]
  /\ pc[r] \in {"write", "compile"} =>
         gen[At(r)] = None \/ gen[At(r)].body \in {Empty, Dispatcher(r)}

\* As long as nothing was changed under a process that is building.
InformedInv == ~raced => \A r \in Procs : Informed(r)

\* As long, what is in the cache, or about to be, is sound.
CacheInv ==
  ~raced => /\ \A r \in Procs : pc[r] = "link" => Sound(entry[r], unit[r])
            /\ \A e \in DOMAIN bin : Sound(e, bin[e])

\* A generated file has somebody who will remove it.
Minded(p) ==
  gen[p] # None => \E r \in Procs :
    /\ At(r) = p
    /\ \/ pc[r] = "write" /\ fd[r] = gen[p].by
       \/ pc[r] \in {"compile", "link", "sweep", "unlink"} /\ gen[p].body # Empty

\* As long as nobody crashed and no write failed.
ResidueInv == faults = 0 => \A p \in Projects : Minded(p)

\* A process that builds alone finds its own file.
Alone(r) ==
  /\ \A q \in Procs \ {r} :
        At(q) = At(r) /\ pc[r] \in Generating => pc[q] \notin Generating
  /\ pc[r] \in {"write", "compile"} /\ ~raced =>
        /\ gen[At(r)] # None
        /\ pc[r] = "write" => gen[At(r)].by = fd[r] /\ gen[At(r)].body = Empty
        /\ pc[r] = "compile" => gen[At(r)].body = Dispatcher(r)

\* A process that has nothing compiled, and has tried, was not to blame.
Blamed(r) ==
  /\ pc[r] \in Building \cup {"off"} => unit[r] = None
  /\ out[r] = "compile" => pc[r] = "done" /\ unit[r] = None
  /\ pc[r] = "link" => unit[r] # None
  /\ ~raced /\ unit[r] = None /\ (pc[r] \in {"sweep", "unlink"} \/ out[r] = "compile") =>
        hash[r].src \notin Compiles

\* As long as a directory was one process's own.
HonestInv ==
  \A r \in Procs : At(r) \notin crowded => Alone(r) /\ Blamed(r)

\* What the constants are.
LEMMA Setting ==
  /\ \A c \in Contents : Commands[c] \subseteq AnyCommand
  /\ Jobs \in [Procs -> SUBSET [verb : Verbs, at : Projects]]
  /\ Checkouts \subseteq [Projects -> Contents \cup {None}]
  /\ Starter \in Contents /\ MaxChanges \in Nat
<1>1. \A c \in Contents : Commands[c] \subseteq AnyCommand
  BY DEF AnyCommand
<1>2. QED
  BY <1>1, RunnerAssumption

\* A step of a process moves only that process.
LEMMA OwnStep ==
  ASSUME TypeOK, NEW r \in Procs, Step(r)
  PROVE  /\ UNCHANGED <<job, lath, go, mod>>
         /\ \A q \in Procs \ {r} :
                UNCHANGED <<pc[q], ver[q], targets[q], hash[q], entry[q], fd[q], unit[q], out[q]>>
<1>t. /\ DOMAIN pc = Procs /\ DOMAIN ver = Procs /\ DOMAIN targets = Procs /\ DOMAIN hash = Procs
      /\ DOMAIN entry = Procs /\ DOMAIN fd = Procs /\ DOMAIN unit = Procs /\ DOMAIN out = Procs
  BY DEF TypeOK
<1> USE DEF Goto, End, files, tools, own, hist
<1>1. CASE Invoke(r)
  BY <1>1, <1>t DEF Invoke
<1>2. CASE Discover(r) \/ Scan(r) \/ Check(r) \/ Remove(r)
  BY <1>2, <1>t DEF Discover, Scan, Check, Remove
<1>3. CASE Lookup(r)
  BY <1>3, <1>t DEF Lookup
<1>4. CASE Truncate(r) \/ Write(r) \/ WriteFails(r)
  BY <1>4, <1>t DEF Truncate, Write, WriteFails
<1>5. CASE Compile(r) \/ Link(r)
  BY <1>5, <1>t DEF Compile, Link
<1>6. CASE Sweep(r) \/ Unlink(r) \/ Manifest(r)
  BY <1>6, <1>t DEF Sweep, Unlink, Judge, Manifest
<1>7. CASE Exec(r)
  BY <1>7, <1>t DEF Exec
<1>8. CASE Mkdir(r) \/ Scaffold(r) \/ Tidy(r)
  BY <1>8, <1>t DEF Mkdir, Scaffold, Tidy
<1>9. CASE ListCache(r) \/ RemoveManifest(r) \/ CacheDone(r) \/ Crash(r)
  BY <1>9, <1>t DEF ListCache, RemoveManifest, CacheDone, Crash
<1>10. ASSUME NEW e, RemoveBinary(r, e)
       PROVE  /\ UNCHANGED <<job, lath, go, mod>>
              /\ \A q \in Procs \ {r} :
                    UNCHANGED <<pc[q], ver[q], targets[q], hash[q], entry[q], fd[q], unit[q], out[q]>>
  BY <1>10, <1>t DEF RemoveBinary
<1>11. QED
  BY <1>1, <1>2, <1>3, <1>4, <1>5, <1>6, <1>7, <1>8, <1>9, <1>10 DEF Step

\* The initial states have the types.
LEMMA TypeInit == Init => TypeOK
<1> SUFFICES ASSUME Init PROVE TypeOK
  OBVIOUS
<1>1. job \in [Procs -> [verb : Verbs, at : Projects]]
  BY Setting DEF Init
<1>2. src \in [Projects -> Contents \cup {Bare, None}]
  BY Setting DEF Init
<1>3. DOMAIN bin = {}
  <2>1. DOMAIN <<>> = {}
    OBVIOUS
  <2>2. QED
    BY <2>1 DEF Init
<1>4. 1 \in Versions /\ 0 \in 0 .. MaxChanges /\ 1 <= 1 + 0
  BY Setting DEF Versions
<1>5. QED
  BY <1>1, <1>2, <1>3, <1>4 DEF Init, TypeOK, PCs, Outs

\* What scan computes is a hash.
LEMMA HashTyped ==
  ASSUME TypeOK, NEW r \in Procs, Here(r) # None
  PROVE  HashOf(r) \in Hashes
<1>1. Here(r) \in Contents \cup {Bare} /\ ver[r] \in Versions
  BY DEF TypeOK, Here, At
<1>2. localReplaceHash(Here(r)) \in [Modules -> {0} \cup Versions]
  BY DEF TypeOK, localReplaceHash, hashDirInto
<1>3. QED
  BY <1>1, <1>2 DEF HashOf, Hashes

\* What generate writes is a dispatcher.
LEMMA DispatcherTyped ==
  ASSUME TypeOK, NEW r \in Procs
  PROVE  Dispatcher(r) \in Dispatchers
BY DEF TypeOK, Dispatcher, Dispatchers, AnyCommand

\* A write leaves generated files.
LEMMA WrittenTyped ==
  ASSUME TypeOK, NEW r \in Procs
  PROVE  Written(r) \in [Projects -> Files \cup {None}]
<1>1. CASE gen[At(r)] # None /\ gen[At(r)].by = fd[r]
  <2>1. gen[At(r)] \in Files /\ At(r) \in Projects
    BY <1>1 DEF TypeOK, At
  <2> DEFINE b == IF gen[At(r)].body \in {Empty, Dispatcher(r)} THEN Dispatcher(r) ELSE Mixed
  <2>2. b \in Dispatchers \cup {Empty, Mixed}
    BY DispatcherTyped
  <2>3. [gen[At(r)] EXCEPT !.body = b] \in Files
    <3> HIDE DEF b
    <3> QED BY <2>1, <2>2 DEF Files
  <2>4. Written(r) = [gen EXCEPT ![At(r)] = [gen[At(r)] EXCEPT !.body = b]]
    BY <1>1 DEF Written
  <2> HIDE DEF b
  <2>5. QED
    BY <2>1, <2>3, <2>4 DEF TypeOK
<1>2. CASE ~(gen[At(r)] # None /\ gen[At(r)].by = fd[r])
  BY <1>2 DEF Written, TypeOK
<1>3. QED
  BY <1>1, <1>2

\* What the compiler makes of a directory that builds is a binary.
LEMMA BuildTyped ==
  ASSUME TypeOK, NEW r \in Procs, Builds(At(r))
  PROVE  [src |-> Here(r), mods |-> mod, disp |-> gen[At(r)].body, go |-> go] \in Binaries
<1>1. At(r) \in Projects /\ Here(r) \in Contents
  BY RunnerAssumption DEF TypeOK, At, Here, Builds
<1>2. gen[At(r)].body \in Dispatchers
  BY <1>1 DEF TypeOK, Builds, Files
<1>3. QED
  BY <1>1, <1>2 DEF TypeOK, Binaries

\* Steps of a process keep the types ...
LEMMA TypeOwn == ASSUME TypeOK, NEW r \in Procs, Step(r) PROVE TypeOK'
<1>t. /\ At(r) \in Projects /\ gen \in [Projects -> Files \cup {None}]
      /\ src \in [Projects -> Contents \cup {Bare, None}]
      /\ pc \in [Procs -> PCs] /\ out \in [Procs -> Outs] /\ ver \in [Procs -> Versions]
      /\ lath \in Versions /\ targets \in [Procs -> SUBSET AnyCommand]
      /\ hash \in [Procs -> Hashes \cup {None}] /\ unit \in [Procs -> Binaries \cup {None}]
      /\ \A e \in DOMAIN bin : bin[e] \in Binaries \cup {None}
      /\ DOMAIN entry = Procs /\ DOMAIN fd = Procs /\ DOMAIN victims = Procs
  BY DEF TypeOK, At
<1>f. ASSUME /\ pc' \in [Procs -> PCs] /\ out' \in [Procs -> Outs]
             /\ src' \in [Projects -> Contents \cup {Bare, None}]
             /\ gen' \in [Projects -> Files \cup {None}]
             /\ \A e \in DOMAIN bin' : bin'[e] \in Binaries \cup {None}
             /\ ver' \in [Procs -> Versions] /\ targets' \in [Procs -> SUBSET AnyCommand]
             /\ hash' \in [Procs -> Hashes \cup {None}]
             /\ unit' \in [Procs -> Binaries \cup {None}]
             /\ DOMAIN entry' = Procs /\ DOMAIN fd' = Procs /\ DOMAIN victims' = Procs,
             UNCHANGED <<job, mod, lath, go, changes>>
      PROVE  TypeOK'
  BY <1>f DEF TypeOK
<1> USE DEF Goto, End, files, tools, own, hist, PCs, Outs
<1>1. CASE Invoke(r)
  <2>1. ver' \in [Procs -> Versions] /\ pc' \in [Procs -> PCs] /\ out' \in [Procs -> Outs]
    BY <1>1, <1>t DEF Invoke
  <2>2. QED
    BY <1>1, <1>t, <1>f, <2>1 DEF Invoke
<1>2. CASE Discover(r)
  <2>1. Found(Here(r)) \in SUBSET AnyCommand
    BY Setting DEF Found
  <2>2. targets' \in [Procs -> SUBSET AnyCommand] /\ pc' \in [Procs -> PCs] /\ out' \in [Procs -> Outs]
    BY <1>2, <1>t, <2>1 DEF Discover
  <2>3. QED
    BY <1>2, <1>t, <1>f, <2>2 DEF Discover
<1>3. CASE Scan(r)
  <2>1. Here(r) # None => HashOf(r) \in Hashes
    BY HashTyped
  <2>2. hash' \in {hash, [hash EXCEPT ![r] = HashOf(r)]} /\ (Here(r) = None => hash' = hash)
    BY <1>3 DEF Scan
  <2>3. hash' \in [Procs -> Hashes \cup {None}]
    BY <1>t, <2>1, <2>2
  <2>4. pc' \in [Procs -> PCs] /\ out' \in [Procs -> Outs]
    BY <1>3, <1>t DEF Scan
  <2>5. QED
    BY <1>3, <1>t, <1>f, <2>3, <2>4 DEF Scan
<1>4. CASE Lookup(r)
  <2>1. pc' \in [Procs -> PCs] /\ out' = out /\ DOMAIN entry' = Procs
    BY <1>4, <1>t DEF Lookup
  <2>2. QED
    BY <1>4, <1>t, <1>f, <2>1 DEF Lookup
<1>5. CASE Check(r) \/ Sweep(r) \/ Tidy(r) \/ CacheDone(r) \/ Crash(r) \/ WriteFails(r)
  <2>1. pc' \in [Procs -> PCs] /\ out' \in [Procs -> Outs]
    BY <1>5, <1>t DEF Check, Sweep, Judge, Tidy, CacheDone, Crash, WriteFails
  <2>2. UNCHANGED <<files, tools, own, changes>>
    BY <1>5 DEF Check, Sweep, Tidy, CacheDone, Crash, WriteFails
  <2>3. QED
    BY <1>t, <1>f, <2>1, <2>2
<1>6. CASE Remove(r) \/ Unlink(r)
  <2>1. pc' \in [Procs -> PCs] /\ out' \in [Procs -> Outs]
    BY <1>6, <1>t DEF Remove, Unlink, Judge
  <2>2. gen' \in {gen, [gen EXCEPT ![At(r)] = None]}
    BY <1>6 DEF Remove, Unlink
  <2>3. UNCHANGED <<mod, src, bin, man, tools, own, changes>>
    BY <1>6 DEF Remove, Unlink
  <2>4. QED
    BY <1>t, <1>f, <2>1, <2>2, <2>3
<1>7. CASE Truncate(r)
  <2>1. PICK maker \in Procs :
          /\ gen' \in {gen, [gen EXCEPT ![At(r)] = [by |-> maker, body |-> Empty]]}
          /\ fd' \in {fd, [fd EXCEPT ![r] = maker]}
    <3> DEFINE maker == IF gen[At(r)] = None THEN r ELSE gen[At(r)].by
    <3>1. maker \in Procs
      BY <1>t DEF Files
    <3>2. /\ gen' \in {gen, [gen EXCEPT ![At(r)] = [by |-> maker, body |-> Empty]]}
          /\ fd' \in {fd, [fd EXCEPT ![r] = maker]}
      BY <1>7 DEF Truncate
    <3> HIDE DEF maker
    <3>3. QED
      BY <3>1, <3>2
  <2>2. [by |-> maker, body |-> Empty] \in Files
    BY DEF Files
  <2>3. gen' \in [Projects -> Files \cup {None}] /\ DOMAIN fd' = Procs
    BY <1>t, <2>1, <2>2
  <2>4. pc' \in [Procs -> PCs] /\ out' \in [Procs -> Outs]
    BY <1>7, <1>t DEF Truncate
  <2>5. UNCHANGED <<mod, src, bin, tools, ver, targets, hash, entry, unit, victims, changes>>
    BY <1>7 DEF Truncate
  <2>6. QED
    BY <1>t, <1>f, <2>3, <2>4, <2>5
<1>8. CASE Write(r)
  <2>1. gen' \in [Projects -> Files \cup {None}]
    BY <1>8, WrittenTyped DEF Write
  <2>2. pc' \in [Procs -> PCs] /\ out' = out
    BY <1>8, <1>t DEF Write
  <2>3. QED
    BY <1>8, <1>t, <1>f, <2>1, <2>2 DEF Write
<1>9. CASE Compile(r)
  <2>1. unit' \in [Procs -> Binaries \cup {None}]
    BY <1>9, <1>t, BuildTyped DEF Compile
  <2>2. pc' \in [Procs -> PCs] /\ out' = out
    BY <1>9, <1>t DEF Compile
  <2>3. QED
    BY <1>9, <1>t, <1>f, <2>1, <2>2 DEF Compile
<1>10. CASE Link(r)
  <2>1. \A e \in DOMAIN bin' : bin'[e] \in Binaries \cup {None}
    BY <1>10, <1>t DEF Link, With
  <2>2. pc' \in [Procs -> PCs] /\ out' = out
    BY <1>10, <1>t DEF Link
  <2>3. QED
    BY <1>10, <1>t, <1>f, <2>1, <2>2 DEF Link
<1>11. CASE Manifest(r)
  <2>1. pc' \in [Procs -> PCs] /\ out' = out
    BY <1>11, <1>t DEF Manifest
  <2>2. QED
    BY <1>11, <1>t, <1>f, <2>1 DEF Manifest
<1>12. CASE Exec(r)
  <2>1. unit' \in [Procs -> Binaries \cup {None}]
    BY <1>12, <1>t DEF Exec
  <2>2. pc' \in [Procs -> PCs] /\ out' \in [Procs -> Outs]
    BY <1>12, <1>t DEF Exec
  <2>3. QED
    BY <1>12, <1>t, <1>f, <2>1, <2>2 DEF Exec
<1>13. CASE Mkdir(r) \/ Scaffold(r)
  <2>1. src' \in [Projects -> Contents \cup {Bare, None}]
    <3>1. \E c \in {src[At(r)], Bare, Starter} : src' = [src EXCEPT ![At(r)] = c]
      <4>1. src = [src EXCEPT ![At(r)] = src[At(r)]]
        BY <1>t
      <4>2. QED
        BY <1>13, <4>1, Zenon DEF Mkdir, Scaffold
    <3>2. QED
      BY <3>1, <1>t, Setting
  <2>2. pc' \in [Procs -> PCs] /\ out' \in [Procs -> Outs]
    BY <1>13, <1>t DEF Mkdir, Scaffold
  <2>3. UNCHANGED <<mod, gen, bin, man, tools, own, changes>>
    BY <1>13 DEF Mkdir, Scaffold
  <2>4. QED
    BY <1>t, <1>f, <2>1, <2>2, <2>3
<1>14. CASE ListCache(r) \/ RemoveManifest(r)
  <2>1. pc' \in [Procs -> PCs] /\ out' = out /\ DOMAIN victims' = Procs
    BY <1>14, <1>t DEF ListCache, RemoveManifest
  <2>2. UNCHANGED <<src, mod, gen, bin, tools, ver, targets, hash, entry, fd, unit, changes>>
    BY <1>14 DEF ListCache, RemoveManifest
  <2>3. QED
    BY <1>t, <1>f, <2>1, <2>2
<1>15. ASSUME NEW e, RemoveBinary(r, e) PROVE TypeOK'
  <2>1. pc' \in [Procs -> PCs] /\ out' = out /\ DOMAIN victims' = Procs /\ DOMAIN entry' = Procs
    BY <1>15, <1>t DEF RemoveBinary
  <2>2. \A x \in DOMAIN bin' : bin'[x] \in Binaries \cup {None}
    BY <1>15, <1>t DEF RemoveBinary, Drop
  <2>3. QED
    BY <1>15, <1>t, <1>f, <2>1, <2>2 DEF RemoveBinary
<1>16. QED
  BY <1>1, <1>2, <1>3, <1>4, <1>5, <1>6, <1>7, <1>8, <1>9, <1>10, <1>11, <1>12,
     <1>13, <1>14, <1>15 DEF Step

\* ... and so does what happens around them.
LEMMA TypeAround ==
  ASSUME TypeOK,
         (\E p \in Projects : Edit(p)) \/ (\E m \in Modules : EditModule(m)) \/ Upgrade
  PROVE  TypeOK'
<1>c. changes \in Nat /\ changes \in 0 .. MaxChanges /\ MaxChanges \in Nat
  BY Setting DEF TypeOK
<1> USE DEF files, tools, own, TypeOK
<1>1. ASSUME NEW p \in Projects, Edit(p) PROVE TypeOK'
  <2>1. src' \in [Projects -> Contents \cup {Bare, None}]
    BY <1>1 DEF Edit
  <2>2. gen' \in [Projects -> Files \cup {None}]
    BY <1>1 DEF Edit
  <2>3. changes' \in 0 .. MaxChanges /\ changes' = changes + 1
    BY <1>1, <1>c DEF Edit
  <2>4. UNCHANGED <<mod, bin, man, tools, pc, out, own>>
    BY <1>1 DEF Edit
  <2>5. QED
    BY <2>1, <2>2, <2>3, <2>4, <1>c DEF Versions
<1>2. ASSUME NEW m \in Modules, EditModule(m) PROVE TypeOK'
  <2>1. mod' \in [Modules -> Versions] /\ \A n \in Modules : mod'[n] <= 1 + changes'
    BY <1>2, <1>c DEF EditModule, Versions
  <2>2. QED
    BY <1>2, <2>1, <1>c DEF EditModule, Versions
<1>3. CASE Upgrade
  BY <1>3, <1>c DEF Upgrade, Versions
<1>4. QED
  BY <1>1, <1>2, <1>3

\* Where a process has, or may have, a generated file to remove.
Holding == {"write", "compile", "link", "sweep", "unlink"}

\* What a step of a process does to the generated files.
LEMMA FileMoves ==
  ASSUME TypeOK, NEW r \in Procs, Step(r)
  PROVE  \/ pc[r] \notin {"write", "unlink"} /\ UNCHANGED gen
         \/ faults' = faults + 1 /\ UNCHANGED gen
         \/ pc[r] \in {"remove", "unlink"} /\ gen' = [gen EXCEPT ![At(r)] = None]
         \/ /\ pc[r] = "truncate" /\ pc'[r] = "write"
            /\ Here(r) \in Contents
            /\ fd'[r] = (IF gen[At(r)] = None THEN r ELSE gen[At(r)].by)
            /\ gen' = [gen EXCEPT ![At(r)] = [by |-> fd'[r], body |-> Empty]]
         \/ pc[r] = "write" /\ pc'[r] = "compile" /\ UNCHANGED fd /\ gen' = Written(r)
<1>t. r \in DOMAIN pc /\ r \in DOMAIN fd
  BY DEF TypeOK
<1> USE DEF Goto, End, files, own, hist
<1>1. CASE Remove(r)
  BY <1>1 DEF Remove
<1>2. CASE Truncate(r)
  BY <1>2, <1>t DEF Truncate
<1>3. CASE Write(r)
  BY <1>3, <1>t DEF Write
<1>4. CASE Unlink(r)
  BY <1>4 DEF Unlink
<1>5. CASE WriteFails(r) \/ Crash(r)
  BY <1>5 DEF WriteFails, Crash
<1>6. CASE Invoke(r) \/ Discover(r) \/ Scan(r) \/ Lookup(r) \/ Check(r)
  BY <1>6 DEF Invoke, Discover, Scan, Lookup, Check
<1>7. CASE Compile(r) \/ Link(r) \/ Sweep(r) \/ Manifest(r) \/ Exec(r)
  BY <1>7 DEF Compile, Link, Sweep, Manifest, Exec
<1>8. CASE Mkdir(r) \/ Scaffold(r) \/ Tidy(r)
  BY <1>8 DEF Mkdir, Scaffold, Tidy
<1>9. CASE ListCache(r) \/ RemoveManifest(r) \/ CacheDone(r)
  BY <1>9 DEF ListCache, RemoveManifest, CacheDone
<1>10. ASSUME NEW e, RemoveBinary(r, e) PROVE pc[r] \notin {"write", "unlink"} /\ UNCHANGED gen
  BY <1>10 DEF RemoveBinary
<1>11. QED
  BY <1>1, <1>2, <1>3, <1>4, <1>5, <1>6, <1>7, <1>8, <1>9, <1>10 DEF Step

\* While one file is left alone and its keeper does not move, it is minded.
LEMMA Bystander ==
  ASSUME TypeOK, NEW r \in Procs, Step(r), NEW p \in Projects, Minded(p),
         gen'[p] = gen[p], At(r) # p \/ pc[r] \notin Holding
  PROVE  Minded(p)'
<1> SUFFICES ASSUME gen'[p] # None PROVE Minded(p)'
  BY DEF Minded
<1>1. PICK q \in Procs :
        /\ At(q) = p
        /\ \/ pc[q] = "write" /\ fd[q] = gen[p].by
           \/ pc[q] \in {"compile", "link", "sweep", "unlink"} /\ gen[p].body # Empty
  BY DEF Minded
<1>2. q # r
  BY <1>1 DEF Holding
<1>3. pc'[q] = pc[q] /\ fd'[q] = fd[q] /\ job' = job
  BY <1>2, OwnStep
<1>4. QED
  BY <1>1, <1>3 DEF Minded, At

\* What a write makes of each generated file.
LEMMA WrittenAt ==
  ASSUME TypeOK, NEW r \in Procs
  PROVE  /\ \A p \in Projects : p # At(r) => Written(r)[p] = gen[p]
         /\ gen[At(r)] = None => Written(r)[At(r)] = None
         /\ gen[At(r)] # None =>
              /\ Written(r)[At(r)] # None
              /\ Written(r)[At(r)].by = gen[At(r)].by
              /\ gen[At(r)].by # fd[r] => Written(r)[At(r)] = gen[At(r)]
              /\ gen[At(r)].by = fd[r] => Written(r)[At(r)].body =
                   IF gen[At(r)].body \in {Empty, Dispatcher(r)} THEN Dispatcher(r) ELSE Mixed
<1>1. At(r) \in Projects /\ gen \in [Projects -> Files \cup {None}]
  BY DEF TypeOK, At
<1>2. CASE ~(gen[At(r)] # None /\ gen[At(r)].by = fd[r])
  BY <1>2 DEF Written
<1>3. CASE gen[At(r)] # None /\ gen[At(r)].by = fd[r]
  <2> DEFINE b == IF gen[At(r)].body \in {Empty, Dispatcher(r)} THEN Dispatcher(r) ELSE Mixed
  <2>1. Written(r) = [gen EXCEPT ![At(r)] = [gen[At(r)] EXCEPT !.body = b]]
    BY <1>3 DEF Written
  <2>2. gen[At(r)] \in Files
    BY <1>1, <1>3
  <2>3. b \in Dispatchers \cup {Empty, Mixed}
    BY DispatcherTyped
  <2> HIDE DEF b
  <2>4. Written(r)[At(r)] = [gen[At(r)] EXCEPT !.body = b]
    BY <2>1, <1>1
  <2>5. [gen[At(r)] EXCEPT !.body = b] \in Files
    BY <2>2, <2>3 DEF Files
  <2>6. Written(r)[At(r)].body = b /\ Written(r)[At(r)].by = gen[At(r)].by
    BY <2>2, <2>4 DEF Files
  <2>7. Written(r)[At(r)] # None
    BY <2>4, <2>5, MarkersAssumption
  <2>8. \A p \in Projects : p # At(r) => Written(r)[p] = gen[p]
    BY <2>1, <1>1
  <2>9. QED
    BY <1>3, <2>6, <2>7, <2>8 DEF b
<1>4. QED
  BY <1>2, <1>3

\* Nothing that is written is empty.
LEMMA RealBody ==
  ASSUME TypeOK, NEW r \in Procs
  PROVE  Dispatcher(r) # Empty /\ Mixed # Empty
BY DispatcherTyped, MarkersAssumption

\* A generated file stays minded through every step of a process: who creates
\* one removes it, or hands it to whoever emptied or overwrote it.
LEMMA ResidueOwn ==
  ASSUME TypeOK, NEW r \in Procs, Step(r), faults = 0, faults' = 0,
         NEW p \in Projects, Minded(p)
  PROVE  Minded(p)'
<1>t. /\ r \in DOMAIN pc /\ r \in DOMAIN fd /\ job' = job
      /\ gen \in [Projects -> Files \cup {None}]
  BY OwnStep DEF TypeOK
<1>f. faults' # faults + 1
  OBVIOUS
<1>1. CASE gen'[p] = gen[p] /\ (At(r) # p \/ pc[r] \notin Holding)
  BY <1>1, Bystander
<1>2. CASE At(r) = p /\ pc[r] \in Holding
  <2> USE DEF Goto, End, files, own, hist
  <2> SUFFICES ASSUME gen'[p] # None PROVE Minded(p)'
    BY DEF Minded
  <2>1. CASE pc[r] = "write"
    <3>1. pc'[r] = "compile" /\ UNCHANGED fd /\ gen' = Written(r)
      BY <2>1, <1>f, FileMoves
    <3>2. gen[p] # None
      BY <3>1, <1>2, WrittenAt
    <3>3. CASE gen[p].by = fd[r]
      <4>1. gen'[p].body # Empty
        BY <3>1, <3>2, <3>3, <1>2, WrittenAt, RealBody
      <4>2. QED
        BY <4>1, <3>1, <1>2, <1>t DEF Minded, At
    <3>4. CASE gen[p].by # fd[r]
      <4>1. gen'[p] = gen[p]
        BY <3>1, <3>2, <3>4, <1>2, WrittenAt
      <4>2. PICK q \in Procs :
              /\ At(q) = p
              /\ \/ pc[q] = "write" /\ fd[q] = gen[p].by
                 \/ pc[q] \in {"compile", "link", "sweep", "unlink"} /\ gen[p].body # Empty
        BY <3>2 DEF Minded
      <4>3. q # r
        BY <4>2, <2>1, <3>4
      <4>4. pc'[q] = pc[q] /\ fd'[q] = fd[q]
        BY <4>3, OwnStep
      <4>5. QED
        BY <4>1, <4>2, <4>4, <1>t DEF Minded, At
    <3>5. QED
      BY <3>3, <3>4
  <2>2. CASE pc[r] = "unlink"
    <3>1. gen'[p] = None
      BY <2>2, <1>2, <1>f, <1>t, FileMoves
    <3>2. QED
      BY <3>1
  <2>3. CASE pc[r] \in {"compile", "link", "sweep"}
    <3>0. gen' = gen
      BY <2>3, FileMoves
    <3>1. pc'[r] \in {"link", "sweep", "unlink"} \/ (pc[r] = "sweep" /\ ~Headed(gen[p]))
      <4>1. Compile(r) \/ Link(r) \/ Sweep(r)
        BY <2>3, <1>f DEF Step, Invoke, Discover, Scan, Lookup, Check, Remove, Truncate, Write,
           WriteFails, Unlink, Manifest, Exec, Mkdir, Scaffold, Tidy, ListCache, RemoveBinary,
           RemoveManifest, CacheDone, Crash
      <4>2. QED
        BY <4>1, <1>2, <1>t DEF Compile, Link, Sweep
    <3>2. CASE gen[p].body # Empty
      <4>1. pc'[r] \in {"link", "sweep", "unlink"}
        BY <3>0, <3>1, <3>2 DEF Headed
      <4>2. QED
        BY <4>1, <3>0, <3>2, <1>2, <1>t DEF Minded, At
    <3>3. CASE gen[p].body = Empty
      <4>1. PICK q \in Procs : At(q) = p /\ pc[q] = "write" /\ fd[q] = gen[p].by
        BY <3>0, <3>3 DEF Minded
      <4>2. q # r
        BY <4>1, <2>3
      <4>3. pc'[q] = pc[q] /\ fd'[q] = fd[q]
        BY <4>2, OwnStep
      <4>4. QED
        BY <3>0, <4>1, <4>3, <1>t DEF Minded, At
    <3>4. QED
      BY <3>2, <3>3
  <2>4. QED
    BY <1>2, <2>1, <2>2, <2>3 DEF Holding
<1>3. CASE gen'[p] # gen[p] /\ (At(r) # p \/ pc[r] \notin Holding)
  <2>1. At(r) = p
    BY <1>3, <1>t, FileMoves, WrittenAt
  <2>2. \/ pc[r] = "remove" /\ gen' = [gen EXCEPT ![At(r)] = None]
        \/ pc'[r] = "write" /\ gen' = [gen EXCEPT ![At(r)] = [by |-> fd'[r], body |-> Empty]]
    BY <2>1, <1>3, FileMoves DEF Holding
  <2>3. QED
    BY <2>1, <2>2, <1>t DEF Minded, At
<1>4. QED
  BY <1>1, <1>2, <1>3

\* Faults are counted.
LEMMA FaultStep ==
  ASSUME NEW r \in Procs, Step(r) PROVE faults' \in {faults, faults + 1}
BY DEF Step, Invoke, Discover, Scan, Lookup, Check, Remove, Truncate, Write,
   WriteFails, Compile, Link, Sweep, Unlink, Manifest, Exec, Mkdir, Scaffold, Tidy,
   ListCache, RemoveBinary, RemoveManifest, CacheDone, Crash, hist

\* Every generated file stays minded.
LEMMA ResidueNext ==
  ASSUME TypeOK, faults \in Nat, ResidueInv, [Next]_vars PROVE ResidueInv'
<1> SUFFICES ASSUME faults' = 0, NEW p \in Projects PROVE Minded(p)'
  BY DEF ResidueInv
<1>t. gen \in [Projects -> Files \cup {None}]
  BY DEF TypeOK
<1>1. ASSUME NEW r \in Procs, Step(r) PROVE Minded(p)'
  <2>2. faults = 0
    BY <1>1, <1>t, FaultStep
  <2>3. QED
    BY <1>1, <2>2, ResidueOwn DEF ResidueInv
<1>2. ASSUME gen'[p] \in {None, gen[p]}, UNCHANGED <<job, pc, fd, faults>> PROVE Minded(p)'
  BY <1>2 DEF Minded, ResidueInv, At
<1>3. ASSUME NEW o \in Projects, Edit(o) PROVE Minded(p)'
  BY <1>2, <1>3, <1>t DEF Edit, tools, own
<1>4. CASE (\E m \in Modules : EditModule(m)) \/ Upgrade \/ Rest \/ UNCHANGED vars
  BY <1>2, <1>4 DEF EditModule, Upgrade, Rest, vars, files, tools, own
<1>5. QED
  BY <1>1, <1>3, <1>4 DEF Next

\* Every step keeps the types.
LEMMA TypeNext == TypeOK /\ [Next]_vars => TypeOK'
<1>1. TypeOK /\ UNCHANGED vars => TypeOK'
  BY DEF TypeOK, vars
<1>2. QED
  BY <1>1, TypeOwn, TypeAround DEF Next, Rest

\* The types hold throughout.
LEMMA RunnerTyped == Spec => []TypeOK
BY TypeInit, TypeNext, PTL DEF Spec

\* However many processes generate, overwrite and delete one file in one
\* definition directory, in any order (generate, build and removeGenerated take
\* no lock): once all have ended, none by a crash or a failed write, it is gone.
THEOREM RunnerNoResidue == Spec => []NoResidue
<1>1. Init => ResidueInv
  BY DEF Init, ResidueInv, Minded
<1>2. TypeOK /\ ResidueInv => NoResidue
  BY DEF ResidueInv, Minded, NoResidue, Finished
<1>3. TypeOK /\ faults \in Nat /\ ResidueInv /\ [Next]_vars => ResidueInv'
  BY ResidueNext
<1>4. Spec => [](faults \in Nat)
  <2>1. Init => faults \in Nat
    BY DEF Init
  <2>2. faults \in Nat /\ [Next]_vars => (faults \in Nat)'
    <3> SUFFICES ASSUME faults \in Nat, [Next]_vars PROVE faults' \in {faults, faults + 1}
      OBVIOUS
    <3>1. QED
      BY FaultStep DEF Next, Edit, EditModule, Upgrade, Rest, vars
  <2>3. QED
    BY <2>1, <2>2, PTL DEF Spec
<1>5. QED
  BY <1>1, <1>2, <1>3, <1>4, RunnerTyped, PTL DEF Spec

\* Only `lath init` writes a definition, and it marks the race it starts.
LEMMA SourceMoves ==
  ASSUME TypeOK, NEW r \in Procs, Step(r), ~raced'
  PROVE  /\ ~raced
         /\ \/ src' = src
            \/ src[At(r)] = None /\ src' = [src EXCEPT ![At(r)] = Bare]
            \/ ~Midway(At(r)) /\ src' = [src EXCEPT ![At(r)] = Starter]
<1> USE DEF files, hist
<1>1. CASE Mkdir(r)
  <2>1. src[At(r)] # None => [src EXCEPT ![At(r)] = src[At(r)]] = src
    BY DEF TypeOK
  <2>2. QED
    BY <1>1, <2>1 DEF Mkdir
<1>2. CASE Scaffold(r)
  BY <1>2, Zenon DEF Scaffold
<1>3. CASE Invoke(r) \/ Discover(r) \/ Scan(r) \/ Lookup(r) \/ Check(r)
  BY <1>3 DEF Invoke, Discover, Scan, Lookup, Check
<1>4. CASE Remove(r) \/ Truncate(r) \/ Write(r) \/ WriteFails(r) \/ Compile(r) \/ Link(r)
  BY <1>4 DEF Remove, Truncate, Write, WriteFails, Compile, Link
<1>5. CASE Sweep(r) \/ Unlink(r) \/ Manifest(r) \/ Exec(r) \/ Tidy(r)
  BY <1>5 DEF Sweep, Unlink, Manifest, Exec, Tidy
<1>6. CASE ListCache(r) \/ RemoveManifest(r) \/ CacheDone(r) \/ Crash(r)
  BY <1>6 DEF ListCache, RemoveManifest, CacheDone, Crash
<1>7. ASSUME NEW e, RemoveBinary(r, e) PROVE ~raced /\ src' = src
  BY <1>7 DEF RemoveBinary
<1>8. QED
  BY <1>1, <1>2, <1>3, <1>4, <1>5, <1>6, <1>7 DEF Step

\* What a process that is building has discovered stays on disk.
LEMMA SourceKept ==
  ASSUME TypeOK, NEW r \in Procs, Step(r), ~raced',
         NEW q \in Procs, pc[q] \in Building, src[At(q)] \in Contents
  PROVE  src'[At(q)] = src[At(q)]
<1>1. src \in [Projects -> Contents \cup {Bare, None}] /\ At(q) \in Projects /\ At(r) \in Projects
  BY DEF TypeOK, At
<1>2. src[At(q)] # None
  BY MarkersAssumption
<1>3. ~Midway(At(r)) => At(q) # At(r)
  BY DEF Midway
<1>4. QED
  BY <1>1, <1>2, <1>3, SourceMoves

\* What Informed says of q when nothing q has read changes.
LEMMA InformedFrame ==
  ASSUME NEW q \in Procs, Informed(q),
         UNCHANGED <<pc[q], ver[q], targets[q], hash[q], entry[q], job, mod>>,
         pc[q] \in Building => lath' = lath,
         pc[q] \in Building \ {"discover"} => src'[At(q)] = src[At(q)],
         pc[q] \in {"write", "compile"} =>
           gen'[At(q)] = None \/ gen'[At(q)].body \in {Empty, Dispatcher(q)}
  PROVE  Informed(q)'
<1>1. At(q)' = At(q) /\ Dispatcher(q)' = Dispatcher(q)
  BY DEF At, Dispatcher
<1>2. pc[q] \in Building \ {"discover"} => Here(q)' = Here(q)
  BY <1>1 DEF Here
<1>3. pc[q] \in Building \ {"discover"} => HashOf(q)' = HashOf(q)
  BY <1>2 DEF HashOf, localReplaceHash, hashDirInto
<1>4. {"write", "compile"} \subseteq Building
  BY DEF Building
<1>5. QED
  BY <1>1, <1>2, <1>3, <1>4 DEF Informed

\* A step of one process leaves the others informed: two that build one
\* directory write the same dispatcher.
LEMMA InformedOthers ==
  ASSUME TypeOK, NEW r \in Procs, Step(r), ~raced', \A n \in Procs : Informed(n),
         NEW q \in Procs \ {r}
  PROVE  Informed(q)'
<1>1. /\ UNCHANGED <<pc[q], ver[q], targets[q], hash[q], entry[q], job, mod>> /\ lath' = lath
      /\ Informed(q) /\ Informed(r)
  BY OwnStep
<1>2. pc[q] \in Building \ {"discover"} => src'[At(q)] = src[At(q)]
  BY <1>1, SourceKept DEF Informed, Here
<1>3. ASSUME pc[q] \in {"write", "compile"}
      PROVE  gen'[At(q)] = None \/ gen'[At(q)].body \in {Empty, Dispatcher(q)}
  <2>t. gen \in [Projects -> Files \cup {None}] /\ At(q) \in Projects /\ At(r) \in Projects
    BY DEF TypeOK, At
  <2>0. gen[At(q)] = None \/ gen[At(q)].body \in {Empty, Dispatcher(q)}
    BY <1>1, <1>3 DEF Informed
  <2>1. CASE At(q) # At(r) \/ UNCHANGED gen
    <3>1. gen'[At(q)] = gen[At(q)]
      BY <2>1, <2>t, FileMoves, WrittenAt
    <3>2. QED
      BY <2>0, <3>1
  <2>2. CASE At(q) = At(r) /\ pc[r] = "write" /\ gen' = Written(r)
    <3>1. /\ pc[q] \in Building \ {"discover"} /\ pc[r] \in Building \ {"discover"}
          /\ Here(q) = Here(r)
      BY <1>3, <2>2 DEF Building, Here
    <3>2. Dispatcher(r) = Dispatcher(q)
      BY <1>1, <3>1 DEF Informed, Dispatcher
    <3>3. QED
      BY <2>0, <2>2, <3>2, WrittenAt
  <2>3. CASE At(q) = At(r) /\ ~(pc[r] = "write" /\ gen' = Written(r)) /\ ~UNCHANGED gen
    <3>1. \/ gen' = [gen EXCEPT ![At(r)] = None]
          \/ gen' = [gen EXCEPT ![At(r)] = [by |-> fd'[r], body |-> Empty]]
      BY <2>3, FileMoves
    <3>2. QED
      BY <2>3, <2>t, <3>1
  <2>4. QED
    BY <2>1, <2>2, <2>3
<1>4. QED
  BY <1>1, <1>2, <1>3, InformedFrame

\* A process keeps in step with the definition as it goes on.
LEMMA InformedOwn ==
  ASSUME TypeOK, NEW r \in Procs, Step(r), ~raced', Informed(r)
  PROVE  Informed(r)'
<1>t. /\ r \in DOMAIN pc /\ r \in DOMAIN ver /\ r \in DOMAIN targets /\ r \in DOMAIN hash
      /\ r \in DOMAIN entry /\ At(r) \in Projects /\ gen \in [Projects -> Files \cup {None}]
  BY DEF TypeOK, At
<1>j. At(r)' = At(r) /\ UNCHANGED <<job, mod, lath>>
  BY OwnStep DEF At
<1>b. {"check", "remove", "truncate", "write", "compile"} \subseteq Building \ {"discover", "scan"}
      /\ "lookup" \in Building \ {"discover", "scan"} /\ "scan" \in Building /\ "discover" \in Building
  BY DEF Building
<1>i. CASE pc'[r] \notin Building \cup {"link"}
  BY <1>i, <1>b DEF Informed
<1> USE DEF Goto, End, files, own, hist, tools
<1>1. CASE Invoke(r)
  <2>1. ver'[r] = lath' /\ pc'[r] \in {"discover", "done", "mkdir", "list"}
    BY <1>1, <1>t, <1>j DEF Invoke
  <2>2. QED
    BY <2>1 DEF Informed, Building
<1>2. CASE Discover(r)
  <2>1. src' = src /\ UNCHANGED ver /\ pc[r] = "discover"
    BY <1>2 DEF Discover
  <2>2. \/ pc'[r] = "done"
        \/ pc'[r] = "scan" /\ Found(Here(r)) # {} /\ targets'[r] = Found(Here(r))
    BY <1>2, <1>t DEF Discover
  <2>3. CASE pc'[r] = "done"
    BY <2>3, <1>i DEF Building
  <2>4. CASE pc'[r] = "scan" /\ Found(Here(r)) # {} /\ targets'[r] = Found(Here(r))
    <3>1. Here(r) \in Contents /\ targets'[r] = Commands[Here(r)]
      BY <2>4 DEF Found
    <3>2. Here(r)' = Here(r) /\ ver'[r] = lath'
      BY <2>1, <1>j, <1>b DEF Here, Informed
    <3>3. QED
      BY <2>4, <3>1, <3>2 DEF Informed
  <2>5. QED
    BY <2>2, <2>3, <2>4
<1>3. CASE Scan(r)
  <2>1. src' = src /\ UNCHANGED <<ver, targets>> /\ pc[r] = "scan"
    BY <1>3 DEF Scan
  <2>2. pc'[r] = "done" \/ (pc'[r] = "lookup" /\ hash'[r] = HashOf(r))
    BY <1>3, <1>t DEF Scan
  <2>3. Here(r)' = Here(r) /\ HashOf(r)' = HashOf(r)
    BY <2>1, <1>j DEF Here, HashOf, localReplaceHash, hashDirInto
  <2>4. CASE pc'[r] = "done"
    BY <2>4, <1>i DEF Building
  <2>5. CASE pc'[r] = "lookup" /\ hash'[r] = HashOf(r)
    BY <2>1, <2>3, <2>5, <1>j, <1>b DEF Informed
  <2>6. QED
    BY <2>2, <2>4, <2>5
<1>4. CASE Lookup(r)
  <2>1. src' = src /\ UNCHANGED <<ver, targets, hash>> /\ pc[r] = "lookup"
    BY <1>4 DEF Lookup
  <2>2. pc'[r] = "exec" \/ (pc'[r] = "check" /\ entry'[r] = <<NameOf[At(r)], hash[r]>>)
    <3>1. \/ pc' = [pc EXCEPT ![r] = "exec"]
          \/ /\ pc' = [pc EXCEPT ![r] = "check"]
             /\ entry' = [entry EXCEPT ![r] = <<NameOf[At(r)], hash[r]>>]
      BY <1>4, Zenon DEF Lookup
    <3>2. QED
      BY <3>1, <1>t
  <2>3. Here(r)' = Here(r) /\ HashOf(r)' = HashOf(r)
    BY <2>1, <1>j DEF Here, HashOf, localReplaceHash, hashDirInto
  <2>4. CASE pc'[r] = "exec"
    BY <2>4, <1>i DEF Building
  <2>5. CASE pc'[r] = "check" /\ entry'[r] = <<NameOf[At(r)], hash[r]>>
    BY <2>1, <2>3, <2>5, <1>j, <1>b DEF Informed
  <2>6. QED
    BY <2>2, <2>4, <2>5
<1>5. CASE Check(r) \/ Remove(r) \/ Truncate(r) \/ Write(r) \/ Compile(r)
  <2>1. src' = src /\ UNCHANGED <<ver, targets, hash, entry>>
    BY <1>5 DEF Check, Remove, Truncate, Write, Compile
  <2>2. pc[r] \in {"check", "remove", "truncate", "write", "compile"}
    BY <1>5 DEF Check, Remove, Truncate, Write, Compile
  <2>3. Here(r)' = Here(r) /\ HashOf(r)' = HashOf(r) /\ Dispatcher(r)' = Dispatcher(r)
    BY <2>1, <1>j DEF Here, HashOf, localReplaceHash, hashDirInto, Dispatcher
  <2>4. /\ pc'[r] \in {"truncate", "remove", "write", "compile", "link", "sweep", "done"}
        /\ pc'[r] = "write" => gen'[At(r)].body = Empty
        /\ pc'[r] = "compile" => pc[r] = "write" /\ gen' = Written(r)
    BY <1>5, <1>t DEF Check, Remove, Truncate, Write, Compile
  <2>5. pc'[r] \in {"write", "compile"} =>
           gen'[At(r)] = None \/ gen'[At(r)].body \in {Empty, Dispatcher(r)}
    BY <2>4, WrittenAt DEF Informed
  <2>6. QED
    BY <2>1, <2>2, <2>3, <2>4, <2>5, <1>j, <1>b, <1>i DEF Informed
<1>6. CASE WriteFails(r) \/ Link(r) \/ Sweep(r) \/ Unlink(r) \/ Manifest(r) \/ Exec(r)
  BY <1>6, <1>t, <1>i DEF WriteFails, Link, Sweep, Judge, Unlink, Manifest, Exec, Building
<1>7. CASE Mkdir(r) \/ Scaffold(r) \/ Tidy(r)
  BY <1>7, <1>t, <1>i DEF Mkdir, Scaffold, Tidy, Building
<1>8. CASE ListCache(r) \/ RemoveManifest(r) \/ CacheDone(r) \/ Crash(r)
  BY <1>8, <1>t, <1>i DEF ListCache, RemoveManifest, CacheDone, Crash, Building
<1>9. ASSUME NEW e, RemoveBinary(r, e) PROVE Informed(r)'
  BY <1>9, <1>t, <1>i DEF RemoveBinary, Building
<1>10. QED
  BY <1>1, <1>2, <1>3, <1>4, <1>5, <1>6, <1>7, <1>8, <1>9 DEF Step

\* What happens around the processes.
Around ==
  (\E p \in Projects : Edit(p)) \/ (\E m \in Modules : EditModule(m)) \/ Upgrade

\* What happens around the processes leaves those alone that are building, or
\* is remembered.
LEMMA AroundFrame ==
  ASSUME TypeOK, Around, ~raced'
  PROVE  /\ ~raced /\ UNCHANGED <<job, bin, pc, out, own, faults, crowded>>
         /\ \A q \in Procs : pc[q] \in Building =>
               src'[At(q)] = src[At(q)] /\ gen'[At(q)] = gen[At(q)] /\ UNCHANGED <<mod, lath>>
<1>p. \A q \in Procs : At(q) \in Projects
  BY DEF TypeOK, At
<1>t. DOMAIN src = Projects /\ DOMAIN gen = Projects
  BY DEF TypeOK
<1>1. ASSUME NEW p \in Projects, Edit(p)
      PROVE  /\ ~raced /\ UNCHANGED <<job, bin, pc, out, own, faults, crowded>>
             /\ \A q \in Procs : pc[q] \in Building =>
                   src'[At(q)] = src[At(q)] /\ gen'[At(q)] = gen[At(q)] /\ UNCHANGED <<mod, lath>>
  <2>1. ~raced /\ ~Midway(p) /\ UNCHANGED <<job, bin, pc, out, own, faults, crowded, mod, lath>>
    BY <1>1, Zenon DEF Edit, tools
  <2>2. PICK c : src' = [src EXCEPT ![p] = c] /\ gen' \in {gen, [gen EXCEPT ![p] = None]}
    BY <1>1 DEF Edit
  <2>3. \A q \in Procs : pc[q] \in Building => At(q) # p
    BY <2>1 DEF Midway
  <2>4. QED
    BY <2>1, <2>2, <2>3, <1>p, <1>t
<1>2. ASSUME NEW m \in Modules, EditModule(m)
      PROVE  /\ ~raced /\ UNCHANGED <<job, bin, pc, out, own, faults, crowded>>
             /\ \A q \in Procs : pc[q] \notin Building
  <2>1. ~raced /\ (\A p \in Projects : ~Midway(p)) /\ UNCHANGED <<job, bin, pc, out, own, faults, crowded>>
    BY <1>2, Zenon DEF EditModule, tools
  <2>2. QED
    BY <2>1, <1>p DEF Midway
<1>3. ASSUME Upgrade
      PROVE  /\ ~raced /\ UNCHANGED <<job, bin, pc, out, own, faults, crowded>>
             /\ \A q \in Procs : pc[q] \notin Building
  <2>1. ~raced /\ (\A p \in Projects : ~Midway(p)) /\ UNCHANGED <<pc, out, own, faults, crowded>>
    BY <1>3, Zenon DEF Upgrade
  <2>2. UNCHANGED <<job, bin>>
    BY <1>3 DEF Upgrade, files
  <2>3. QED
    BY <2>1, <2>2, <1>p DEF Midway
<1>4. QED
  BY <1>1, <1>2, <1>3 DEF Around

\* Every step keeps every process informed.
LEMMA InformedNext ==
  ASSUME TypeOK, InformedInv, [Next]_vars PROVE InformedInv'
<1> SUFFICES ASSUME ~raced', NEW q \in Procs PROVE Informed(q)'
  BY DEF InformedInv
<1>1. ASSUME NEW r \in Procs, Step(r) PROVE Informed(q)'
  <2>1. \A n \in Procs : Informed(n)
    BY <1>1, SourceMoves DEF InformedInv
  <2>2. QED
    BY <1>1, <2>1, InformedOthers, InformedOwn
<1>2. CASE Around
  <2>1. Informed(q) /\ UNCHANGED <<job, pc, own>>
    BY <1>2, AroundFrame DEF InformedInv
  <2>2. pc[q] \in Building => src'[At(q)] = src[At(q)] /\ gen'[At(q)] = gen[At(q)] /\ UNCHANGED <<mod, lath>>
    BY <1>2, AroundFrame
  <2>3. UNCHANGED <<pc[q], ver[q], targets[q], hash[q], entry[q]>>
    BY <2>1 DEF own
  <2>4. CASE pc[q] \in Building
    <3>1. pc[q] \in {"write", "compile"} =>
             gen'[At(q)] = None \/ gen'[At(q)].body \in {Empty, Dispatcher(q)}
      BY <2>1, <2>2, <2>4 DEF Informed
    <3>2. QED
      BY <2>1, <2>2, <2>3, <2>4, <3>1, InformedFrame
  <2>5. CASE pc[q] \notin Building
    BY <2>1, <2>3, <2>5 DEF Informed, Building
  <2>6. QED
    BY <2>4, <2>5
<1>3. CASE UNCHANGED vars
  BY <1>3 DEF vars, InformedInv, Informed, Here, At, HashOf, localReplaceHash, hashDirInto, Dispatcher
<1>4. QED
  BY <1>1, <1>2, <1>3 DEF Next, Around, Rest

\* Processes stay informed throughout.
LEMMA RunnerInformed == Spec => []InformedInv
<1>1. Init => InformedInv
  BY DEF Init, InformedInv, Informed, Building
<1>2. TypeOK /\ InformedInv /\ [Next]_vars => InformedInv'
  BY InformedNext
<1>3. QED
  BY <1>1, <1>2, RunnerTyped, PTL DEF Spec

\* What a walk returns: the modules seen before, and others.
Walks ==
  {w \in [Contents \cup Modules -> [SUBSET Modules -> SUBSET Modules]] :
      \A d \in Contents \cup Modules : \A s \in SUBSET Modules : s \subseteq w[d][s]}

\* The loop of walk passes over no module that a go.mod replaces.
LEMMA Visited ==
  ASSUME NEW dir \in Contents \cup Modules, NEW seen \in SUBSET Modules, NEW w \in Walks
  PROVE  /\ visit(dir, seen, w) \in SUBSET Modules
         /\ seen \subseteq visit(dir, seen, w)
         /\ \A n \in DOMAIN Replaces[dir] : Replaces[dir][n] \in visit(dir, seen, w)
<1>1. PICK R \in Seq(Modules) : R = Replaces[dir]
  BY RunnerAssumption
<1>2. Len(R) \in Nat /\ DOMAIN R = 1 .. Len(R) /\ \A n \in 1 .. Len(R) : R[n] \in Modules
  OBVIOUS
<1> DEFINE seenAfter(n, s) == IF R[n] \in s THEN s ELSE w[R[n]][s \cup {R[n]}]
<1> DEFINE h == [n \in 1 .. Len(R) |-> [s \in SUBSET Modules |-> seenAfter(n, s)]]
<1> DEFINE Rec(f) == [n \in 0 .. Len(R) |->
      IF n = 0 THEN seen
      ELSE IF R[n] \in f[n - 1] THEN f[n - 1] ELSE w[R[n]][f[n - 1] \cup {R[n]}]]
<1>3. ASSUME NEW n \in 1 .. Len(R), NEW s \in SUBSET Modules
      PROVE  seenAfter(n, s) \in SUBSET Modules /\ s \subseteq seenAfter(n, s) /\ R[n] \in seenAfter(n, s)
  <2>1. s \cup {R[n]} \in SUBSET Modules /\ R[n] \in Contents \cup Modules
    BY <1>2
  <2>2. w[R[n]][s \cup {R[n]}] \in SUBSET Modules /\ s \cup {R[n]} \subseteq w[R[n]][s \cup {R[n]}]
    BY <2>1 DEF Walks
  <2>3. QED
    BY <2>2
<1>4. Steps(h, Len(R), SUBSET Modules)
  <2> HIDE DEF seenAfter
  <2>1. QED
    BY <1>3 DEF Steps
<1>5. PICK f : Iterates(f, h, Len(R), SUBSET Modules, seen)
  <2> HIDE DEF h
  <2>1. QED
    BY <1>2, <1>4, Recursion
<1>6. f = Rec(f)
  <2>1. ASSUME NEW n \in 0 .. Len(R) PROVE f[n] = Rec(f)[n]
    <3>1. CASE n = 0
      BY <3>1, <1>5 DEF Iterates
    <3>2. CASE n # 0
      <4>1. n \in 1 .. Len(R) /\ n - 1 \in 0 .. Len(R)
        BY <3>2
      <4>2. f[n - 1] \in SUBSET Modules /\ f[n] = h[n][f[n - 1]]
        BY <1>5, <4>1 DEF Iterates
      <4>3. f[n] = seenAfter(n, f[n - 1])
        <5> HIDE DEF seenAfter
        <5>1. QED
          BY <4>1, <4>2
      <4>4. QED
        BY <3>2, <4>3
    <3>3. QED
      BY <3>1, <3>2
  <2>2. f = [n \in 0 .. Len(R) |-> f[n]]
    BY <1>5 DEF Iterates
  <2>3. QED
    BY <2>1, <2>2
<1> DEFINE g == CHOOSE k : k = Rec(k)
<1>7. g = Rec(g)
  BY <1>6, Zenon
<1>8. visit(dir, seen, w) = g[Len(R)]
  BY <1>1, Zenon DEF visit
<1> HIDE DEF g, h
<1>9. ASSUME NEW n \in 1 .. Len(R) PROVE g[n] = seenAfter(n, g[n - 1])
  <2>1. g[n] = Rec(g)[n]
    BY <1>7, Zenon
  <2>2. n # 0 /\ n \in 0 .. Len(R)
    OBVIOUS
  <2>3. QED
    BY <2>1, <2>2
<1> HIDE DEF seenAfter
<1> DEFINE P == {n \in Nat : n <= Len(R) =>
      g[n] \in SUBSET Modules /\ seen \subseteq g[n] /\ \A i \in 1 .. n : R[i] \in g[n]}
<1>10. 0 \in P
  <2>1. g[0] = seen
    BY <1>2, <1>7
  <2>2. QED
    BY <2>1
<1>11. ASSUME NEW n \in Nat, n \in P PROVE n + 1 \in P
  <2> SUFFICES ASSUME n + 1 <= Len(R)
               PROVE  /\ g[n + 1] \in SUBSET Modules /\ seen \subseteq g[n + 1]
                      /\ \A i \in 1 .. n + 1 : R[i] \in g[n + 1]
    OBVIOUS
  <2>1. n + 1 \in 1 .. Len(R) /\ (n + 1) - 1 = n
    OBVIOUS
  <2>2. g[n] \in SUBSET Modules /\ seen \subseteq g[n] /\ \A i \in 1 .. n : R[i] \in g[n]
    BY <1>11
  <2>3. g[n + 1] = seenAfter(n + 1, g[n])
    BY <1>9, <2>1
  <2>4. g[n + 1] \in SUBSET Modules /\ g[n] \subseteq g[n + 1] /\ R[n + 1] \in g[n + 1]
    BY <1>3, <2>1, <2>2, <2>3
  <2>5. QED
    BY <2>2, <2>4
<1>12. \A n \in Nat : n \in P
  <2> HIDE DEF P
  <2>1. QED
    BY <1>10, <1>11, Climb
<1>13. g[Len(R)] \in SUBSET Modules /\ seen \subseteq g[Len(R)] /\ \A i \in 1 .. Len(R) : R[i] \in g[Len(R)]
  BY <1>2, <1>12
<1>14. QED
  BY <1>1, <1>2, <1>8, <1>13

\* The walk over replace directives finds at least the modules that the
\* definition's own go.mod replaces, whatever those replace in turn, and however
\* little depth is left.
LEMMA WalkCovers == \A c \in Contents : Seqs!ToSet(Replaces[c]) \subseteq localReplaceDirs[c]
<1> DEFINE N == MaxReplaceDepth + 1
<1> DEFINE Dirs == Contents \cup Modules
<1> DEFINE from == [dir \in Dirs |-> [seen \in SUBSET Modules |-> seen]]
<1> DEFINE deeper(w) == [dir \in Dirs |-> [seen \in SUBSET Modules |-> visit(dir, seen, w)]]
<1> DEFINE h == [n \in 1 .. N |-> [w \in Walks |-> deeper(w)]]
<1> DEFINE Rec(f) == [left \in 0 .. N |->
      [dir \in Dirs |-> [seen \in SUBSET Modules |->
         IF left = 0 THEN seen ELSE visit(dir, seen, f[left - 1])]]]
<1>1. N \in Nat /\ N \in 1 .. N /\ N - 1 \in 0 .. N
  BY RunnerAssumption
<1>2. from \in Walks
  BY DEF Walks
<1>3. ASSUME NEW w \in Walks PROVE deeper(w) \in Walks
  BY Visited DEF Walks
<1>4. Steps(h, N, Walks)
  <2> HIDE DEF deeper
  <2>1. QED
    BY <1>3 DEF Steps
<1>5. PICK f : Iterates(f, h, N, Walks, from)
  <2> HIDE DEF h, N, from
  <2>1. QED
    BY <1>1, <1>2, <1>4, Recursion
<1>6. f = Rec(f)
  <2>1. ASSUME NEW n \in 0 .. N PROVE f[n] = Rec(f)[n]
    <3>1. CASE n = 0
      BY <3>1, <1>5 DEF Iterates
    <3>2. CASE n # 0
      <4>1. n \in 1 .. N /\ n - 1 \in 0 .. N
        BY <3>2, <1>1
      <4>2. f[n - 1] \in Walks /\ f[n] = h[n][f[n - 1]]
        BY <1>5, <4>1 DEF Iterates
      <4>3. f[n] = deeper(f[n - 1])
        <5> HIDE DEF deeper
        <5>1. QED
          BY <4>1, <4>2
      <4>4. Rec(f)[n] = deeper(f[n - 1])
        BY <3>2
      <4>5. QED
        BY <4>3, <4>4
    <3>3. QED
      BY <3>1, <3>2
  <2>2. f = [n \in 0 .. N |-> f[n]]
    BY <1>5 DEF Iterates
  <2> HIDE DEF N
  <2>3. QED
    BY <2>1, <2>2
<1> DEFINE g == CHOOSE k : k = Rec(k)
<1>7. g = Rec(g)
  BY <1>6, Zenon
<1>8. localReplaceDirs = [c \in Contents \cup {Bare} |-> IF c = Bare THEN {} ELSE g[N][c][{}]]
  BY Zenon DEF localReplaceDirs
<1> HIDE DEF g, h
<1>9. g[0] = from
  <2>1. g[0] = Rec(g)[0]
    BY <1>7, Zenon
  <2>2. QED
    BY <1>1, <2>1
<1>10. ASSUME NEW n \in 1 .. N PROVE g[n] = deeper(g[n - 1])
  <2>1. g[n] = Rec(g)[n]
    BY <1>7, Zenon
  <2>2. n # 0 /\ n \in 0 .. N
    OBVIOUS
  <2>3. QED
    BY <2>1, <2>2
<1> DEFINE P == {n \in Nat : n <= N => g[n] \in Walks}
<1>11. \A n \in Nat : n \in P
  <2> HIDE DEF deeper, from, N
  <2>1. 0 \in P
    BY <1>2, <1>9
  <2>2. ASSUME NEW n \in Nat, n \in P PROVE n + 1 \in P
    <3> SUFFICES ASSUME n + 1 <= N PROVE g[n + 1] \in Walks
      OBVIOUS
    <3>1. n + 1 \in 1 .. N /\ (n + 1) - 1 = n /\ g[n] \in Walks
      BY <1>1, <2>2
    <3>2. g[n + 1] = deeper(g[n])
      BY <1>10, <3>1
    <3>3. QED
      BY <1>3, <3>1, <3>2
  <2> HIDE DEF P
  <2>3. QED
    BY <2>1, <2>2, Climb
<1>12. g[N - 1] \in Walks /\ g[N] = deeper(g[N - 1])
  <2> HIDE DEF deeper, N
  <2>1. g[N - 1] \in Walks
    BY <1>1, <1>11
  <2>2. QED
    BY <1>1, <1>10, <2>1
<1>13. ASSUME NEW c \in Contents PROVE Seqs!ToSet(Replaces[c]) \subseteq localReplaceDirs[c]
  <2>1. localReplaceDirs[c] = g[N][c][{}]
    <3> HIDE DEF N
    <3>1. QED
      BY <1>8, MarkersAssumption
  <2>2. {} \in SUBSET Modules /\ c \in Dirs
    OBVIOUS
  <2>3. g[N][c][{}] = visit(c, {}, g[N - 1])
    BY <1>12, <2>2
  <2> HIDE DEF N
  <2>4. \A n \in DOMAIN Replaces[c] : Replaces[c][n] \in visit(c, {}, g[N - 1])
    BY <1>12, <2>2, Visited
  <2>5. QED
    BY <2>1, <2>3, <2>4 DEF Seqs!ToSet
<1>14. QED
  BY <1>13

\* What the compiler makes for a process that is informed is what its hash
\* promises.
LEMMA CompiledSound ==
  ASSUME TypeOK, NEW r \in Procs, Informed(r), pc[r] = "compile", Builds(At(r))
  PROVE  Sound(entry[r], [src |-> Here(r), mods |-> mod, disp |-> gen[At(r)].body, go |-> go])
<1>1. /\ ver[r] = lath /\ Here(r) \in Contents /\ targets[r] = Commands[Here(r)]
      /\ hash[r] = HashOf(r) /\ entry[r][2] = HashOf(r)
  BY DEF Informed, Building
<1>2. gen[At(r)].body = Dispatcher(r)
  BY DEF Informed, Builds
<1>3. Dispatcher(r) = [commands |-> Commands[Here(r)], lath |-> ver[r]]
  BY <1>1 DEF Dispatcher
<1>4. HashOf(r).src = Here(r) /\ HashOf(r).lath = ver[r] /\ HashOf(r).mods = localReplaceHash(Here(r))
  BY DEF HashOf
<1>5. ASSUME NEW m \in Seqs!ToSet(Replaces[Here(r)])
      PROVE  localReplaceHash(Here(r))[m] = mod[m]
  <2>1. Replaces[Here(r)] \in Seq(Modules)
    BY <1>1, RunnerAssumption
  <2>2. m \in Modules
    BY <2>1 DEF Seqs!ToSet
  <2>3. m \in localReplaceDirs[Here(r)]
    BY <1>1, <1>5, WalkCovers
  <2>4. QED
    BY <2>2, <2>3 DEF localReplaceHash, hashDirInto
<1>6. QED
  BY <1>1, <1>2, <1>3, <1>4, <1>5 DEF Sound

\* Where a step of a process puts a binary.
LEMMA CacheMoves ==
  ASSUME TypeOK, NEW r \in Procs, Step(r)
  PROVE  /\ \/ bin' = bin
            \/ \E e : bin' = Drop(bin, e)
            \/ pc[r] = "link" /\ bin' = With(bin, entry[r], unit[r])
         /\ pc'[r] = "link" =>
               /\ pc[r] = "compile" /\ Builds(At(r)) /\ UNCHANGED entry
               /\ unit'[r] = [src |-> Here(r), mods |-> mod, disp |-> gen[At(r)].body, go |-> go]
<1>t. r \in DOMAIN pc /\ r \in DOMAIN unit
  BY DEF TypeOK
<1> USE DEF Goto, End, files, own
<1>1. CASE Invoke(r) \/ Discover(r) \/ Scan(r)
  BY <1>1, <1>t DEF Invoke, Discover, Scan
<1>2. CASE Lookup(r)
  BY <1>2, <1>t DEF Lookup
<1>3. CASE Check(r) \/ Remove(r) \/ Truncate(r) \/ Write(r) \/ WriteFails(r)
  BY <1>3, <1>t DEF Check, Remove, Truncate, Write, WriteFails
<1>4. CASE Compile(r) \/ Link(r)
  BY <1>4, <1>t DEF Compile, Link
<1>5. CASE Sweep(r) \/ Unlink(r) \/ Manifest(r) \/ Exec(r)
  BY <1>5, <1>t DEF Sweep, Judge, Unlink, Manifest, Exec
<1>6. CASE Mkdir(r) \/ Scaffold(r) \/ Tidy(r)
  BY <1>6, <1>t DEF Mkdir, Scaffold, Tidy
<1>7. CASE ListCache(r) \/ RemoveManifest(r) \/ CacheDone(r) \/ Crash(r)
  BY <1>7, <1>t DEF ListCache, RemoveManifest, CacheDone, Crash
<1>8. ASSUME NEW e, RemoveBinary(r, e)
      PROVE  (bin' = bin \/ bin' = Drop(bin, e)) /\ pc'[r] # "link"
  BY <1>8, <1>t DEF RemoveBinary
<1>9. QED
  BY <1>1, <1>2, <1>3, <1>4, <1>5, <1>6, <1>7, <1>8 DEF Step

\* Every step keeps the cache sound.
LEMMA CacheNext ==
  ASSUME TypeOK, InformedInv, CacheInv, [Next]_vars PROVE CacheInv'
<1> SUFFICES ASSUME ~raced'
             PROVE  /\ \A q \in Procs : pc'[q] = "link" => Sound(entry'[q], unit'[q])
                    /\ \A e \in DOMAIN bin' : Sound(e, bin'[e])
  BY DEF CacheInv, Sound
<1>1. ASSUME NEW r \in Procs, Step(r)
      PROVE  /\ \A q \in Procs : pc'[q] = "link" => Sound(entry'[q], unit'[q])
             /\ \A e \in DOMAIN bin' : Sound(e, bin'[e])
  <2>1. /\ \A q \in Procs : Informed(q) /\ (pc[q] = "link" => Sound(entry[q], unit[q]))
        /\ \A e \in DOMAIN bin : Sound(e, bin[e])
    BY <1>1, SourceMoves DEF InformedInv, CacheInv
  <2>2. pc'[r] = "link" => Sound(entry'[r], unit'[r])
    BY <1>1, <2>1, CacheMoves, CompiledSound
  <2>3. ASSUME NEW q \in Procs \ {r}, pc'[q] = "link" PROVE Sound(entry'[q], unit'[q])
    <3>1. pc'[q] = pc[q] /\ entry'[q] = entry[q] /\ unit'[q] = unit[q]
      BY <1>1, OwnStep
    <3>2. QED
      BY <2>1, <2>3, <3>1
  <2>4. ASSUME NEW e \in DOMAIN bin' PROVE Sound(e, bin'[e])
    <3>1. \/ e \in DOMAIN bin /\ bin'[e] = bin[e]
          \/ pc[r] = "link" /\ e = entry[r] /\ bin'[e] = unit[r]
      <4>1. \/ bin' = bin
            \/ \E x : bin' = Drop(bin, x)
            \/ pc[r] = "link" /\ bin' = With(bin, entry[r], unit[r])
        BY <1>1, CacheMoves
      <4>2. CASE bin' = bin
        BY <2>4, <4>2
      <4>3. ASSUME NEW x, bin' = Drop(bin, x) PROVE e \in DOMAIN bin /\ bin'[e] = bin[e]
        BY <2>4, <4>3 DEF Drop
      <4>4. CASE pc[r] = "link" /\ bin' = With(bin, entry[r], unit[r])
        BY <2>4, <4>4 DEF With
      <4>5. QED
        BY <4>1, <4>2, <4>3, <4>4
    <3>2. QED
      BY <2>1, <3>1
  <2>5. QED
    BY <2>2, <2>3, <2>4
<1>2. CASE Around
  <2>1. ~raced /\ UNCHANGED <<bin, pc, entry, unit>>
    BY <1>2, AroundFrame DEF own
  <2>2. QED
    BY <2>1 DEF CacheInv
<1>3. CASE UNCHANGED vars
  BY <1>3 DEF vars, CacheInv
<1>4. QED
  BY <1>1, <1>2, <1>3 DEF Next, Around, Rest

\* An entry found under a hash was compiled from exactly what the hash was taken
\* over (scan and build in build.go, cacheLookup in cache.go), whichever
\* processes built it, in whichever checkouts, as long as nothing changed under
\* one that was building.
THEOREM RunnerCacheSound == Spec => []CacheSound
<1>1. Init => CacheInv
  <2>1. DOMAIN <<>> = {}
    OBVIOUS
  <2>2. QED
    BY <2>1 DEF Init, CacheInv
<1>2. TypeOK /\ InformedInv /\ CacheInv /\ [Next]_vars => CacheInv'
  BY CacheNext
<1>3. CacheInv => CacheSound
  BY DEF CacheInv, CacheSound, Sound
<1>4. QED
  BY <1>1, <1>2, <1>3, RunnerTyped, RunnerInformed, PTL DEF Spec

\* Who starts to generate, and whom it crowds.
LEMMA CrowdMoves ==
  ASSUME TypeOK, NEW r \in Procs, Step(r)
  PROVE  \/ crowded' = crowded /\ (pc'[r] \in Generating => pc[r] \in Generating)
         \/ /\ crowded \subseteq crowded'
            /\ At(r) \in crowded' \/ \A q \in Procs \ {r} : At(q) = At(r) => pc[q] \notin Generating
<1>t. r \in DOMAIN pc
  BY DEF TypeOK
<1> USE DEF Goto, End, hist, Generating
<1>1. CASE Lookup(r)
  <2>1. crowded' = IF pc'[r] = "check" /\ \E q \in Procs \ {r} : At(q) = At(r) /\ pc[q] \in Generating
                   THEN crowded \cup {At(r)} ELSE crowded
    BY <1>1, Zenon DEF Lookup
  <2>2. pc'[r] = "check" \/ pc'[r] = "exec"
    BY <1>1, <1>t DEF Lookup
  <2>3. QED
    BY <2>1, <2>2
<1>2. CASE Invoke(r) \/ Discover(r) \/ Scan(r) \/ Check(r) \/ Remove(r)
  BY <1>2, <1>t DEF Invoke, Discover, Scan, Check, Remove
<1>3. CASE Truncate(r) \/ Write(r) \/ WriteFails(r) \/ Compile(r) \/ Link(r)
  BY <1>3, <1>t DEF Truncate, Write, WriteFails, Compile, Link
<1>5. CASE Sweep(r) \/ Unlink(r) \/ Manifest(r) \/ Exec(r)
  BY <1>5, <1>t DEF Sweep, Judge, Unlink, Manifest, Exec
<1>6. CASE Mkdir(r) \/ Scaffold(r) \/ Tidy(r)
  BY <1>6, <1>t DEF Mkdir, Scaffold, Tidy
<1>7. CASE ListCache(r) \/ RemoveManifest(r) \/ CacheDone(r) \/ Crash(r)
  BY <1>7, <1>t DEF ListCache, RemoveManifest, CacheDone, Crash
<1>8. ASSUME NEW e, RemoveBinary(r, e)
      PROVE  crowded' = crowded /\ (pc'[r] \in Generating => pc[r] \in Generating)
  BY <1>8, <1>t DEF RemoveBinary
<1>9. QED
  BY <1>1, <1>2, <1>3, <1>5, <1>6, <1>7, <1>8 DEF Step

\* Nobody touches the file of a process that builds alone ...
LEMMA AloneOthers ==
  ASSUME TypeOK, NEW r \in Procs, Step(r), NEW n \in Procs \ {r}, At(n) \notin crowded',
         At(n) \notin crowded => Alone(n)
  PROVE  Alone(n)'
<1>1. At(n)' = At(n) /\ Dispatcher(n)' = Dispatcher(n) /\ job' = job
      /\ UNCHANGED <<pc[n], fd[n]>>
      /\ \A q \in Procs \ {r} : pc'[q] = pc[q]
  BY OwnStep DEF At, Dispatcher
<1>2. Alone(n)
  BY CrowdMoves
<1>3. ASSUME NEW q \in Procs \ {n}, At(q) = At(n), pc[n] \in Generating
      PROVE  pc'[q] \notin Generating
  <2>1. pc[q] \notin Generating
    BY <1>2, <1>3 DEF Alone
  <2>2. CASE q # r
    BY <2>1, <2>2, <1>1
  <2>3. CASE q = r
    BY <2>1, <2>3, <1>3, CrowdMoves
  <2>4. QED
    BY <2>2, <2>3
<1>4. ASSUME pc[n] \in {"write", "compile"} PROVE gen'[At(n)] = gen[At(n)]
  <2>t. gen \in [Projects -> Files \cup {None}] /\ At(n) \in Projects /\ At(r) \in Projects
    BY DEF TypeOK, At
  <2>1. CASE At(r) # At(n)
    BY <2>1, <2>t, FileMoves, WrittenAt
  <2>2. CASE At(r) = At(n)
    <3>1. pc[r] \notin Generating
      BY <2>2, <1>2, <1>4 DEF Alone, Generating
    <3>2. QED
      BY <3>1, FileMoves DEF Generating
  <2>3. QED
    BY <2>1, <2>2
<1>5. ASSUME ~raced', pc[n] \in {"write", "compile"}
      PROVE  /\ gen'[At(n)] # None
             /\ pc[n] = "write" => gen'[At(n)].by = fd[n] /\ gen'[At(n)].body = Empty
             /\ pc[n] = "compile" => gen'[At(n)].body = Dispatcher(n)
  BY <1>2, <1>4, <1>5, SourceMoves DEF Alone
<1>6. \A q \in Procs : At(q)' = At(q)
  BY <1>1 DEF At
<1>7. QED
  BY <1>1, <1>3, <1>5, <1>6 DEF Alone

\* ... and it finds there what it wrote.
LEMMA AloneOwn ==
  ASSUME TypeOK, NEW r \in Procs, Step(r), At(r) \notin crowded',
         At(r) \notin crowded => Alone(r)
  PROVE  Alone(r)'
<1>t. /\ r \in DOMAIN pc /\ r \in DOMAIN fd /\ At(r) \in Projects
      /\ gen \in [Projects -> Files \cup {None}]
  BY DEF TypeOK, At
<1>1. job' = job /\ (\A q \in Procs : At(q)' = At(q)) /\ \A q \in Procs \ {r} : pc'[q] = pc[q]
  BY OwnStep DEF At
<1>2. Alone(r)
  BY CrowdMoves
<1>3. ASSUME NEW q \in Procs \ {r}, At(q) = At(r), pc'[r] \in Generating
      PROVE  pc'[q] \notin Generating
  BY <1>1, <1>2, <1>3, CrowdMoves DEF Alone
<1>4. ASSUME ~raced', pc'[r] = "write"
      PROVE  gen'[At(r)] # None /\ gen'[At(r)].by = fd'[r] /\ gen'[At(r)].body = Empty
  <2>1. Truncate(r)
    BY <1>4, <1>t DEF Step, Invoke, Discover, Scan, Lookup, Check, Remove, Truncate, Write,
       WriteFails, Compile, Link, Sweep, Judge, Unlink, Manifest, Exec, Mkdir, Scaffold, Tidy,
       ListCache, RemoveBinary, RemoveManifest, CacheDone, Crash, Goto, End
  <2>2. Here(r) \in Contents
    BY <2>1, <1>4, <1>t DEF Truncate, End
  <2> DEFINE maker == IF gen[At(r)] = None THEN r ELSE gen[At(r)].by
  <2>3. /\ gen' = [gen EXCEPT ![At(r)] = [by |-> maker, body |-> Empty]]
        /\ fd' = [fd EXCEPT ![r] = maker]
    BY <2>1, <2>2 DEF Truncate
  <2>4. maker \in Procs
    BY <1>t DEF Files
  <2> HIDE DEF maker
  <2>5. [by |-> maker, body |-> Empty] \in Files
    BY <2>4 DEF Files
  <2>6. gen'[At(r)] = [by |-> maker, body |-> Empty] /\ fd'[r] = maker
    BY <2>3, <1>t
  <2>7. QED
    BY <2>5, <2>6, MarkersAssumption
<1>5. ASSUME ~raced', pc'[r] = "compile"
      PROVE  gen'[At(r)] # None /\ gen'[At(r)].body = Dispatcher(r)'
  <2>1. Write(r)
    BY <1>5, <1>t DEF Step, Invoke, Discover, Scan, Lookup, Check, Remove, Truncate, Write,
       WriteFails, Compile, Link, Sweep, Judge, Unlink, Manifest, Exec, Mkdir, Scaffold, Tidy,
       ListCache, RemoveBinary, RemoveManifest, CacheDone, Crash, Goto, End
  <2>2. pc[r] = "write" /\ gen' = Written(r) /\ Dispatcher(r)' = Dispatcher(r)
    BY <2>1 DEF Write, own, Dispatcher
  <2>3. gen[At(r)] # None /\ gen[At(r)].by = fd[r] /\ gen[At(r)].body = Empty
    BY <1>2, <1>5, <2>2, SourceMoves DEF Alone
  <2>4. QED
    BY <2>2, <2>3, WrittenAt
<1>6. QED
  BY <1>1, <1>3, <1>4, <1>5 DEF Alone

\* A process alone with its own file fails to compile for the source's sake.
LEMMA FailsHonestly ==
  ASSUME TypeOK, NEW r \in Procs, ~raced, Informed(r), Alone(r), pc[r] = "compile", ~Builds(At(r))
  PROVE  hash[r].src \notin Compiles
<1>1. /\ Here(r) \in Contents /\ targets[r] = Commands[Here(r)] /\ hash[r] = HashOf(r)
  BY DEF Informed, Building
<1>2. gen[At(r)] # None /\ gen[At(r)].body = Dispatcher(r)
  BY DEF Alone
<1>3. Dispatcher(r) \notin {Empty, Mixed} /\ Dispatcher(r).commands = targets[r]
  BY DispatcherTyped, MarkersAssumption DEF Dispatcher
<1>4. Here(r) \notin Compiles
  BY <1>1, <1>2, <1>3 DEF Builds, Here
<1>5. QED
  BY <1>1, <1>4 DEF HashOf

\* What a process has compiled, and said, is its own affair ...
LEMMA BlamedOthers ==
  ASSUME TypeOK, NEW r \in Procs, Step(r), NEW n \in Procs \ {r}, Blamed(n)
  PROVE  Blamed(n)'
<1>1. UNCHANGED <<pc[n], unit[n], out[n], hash[n]>>
  BY OwnStep
<1>2. ~raced' => ~raced
  BY SourceMoves
<1>3. QED
  BY <1>1, <1>2 DEF Blamed

\* ... and it says "did not compile" only when the source does not.
LEMMA BlamedOwn ==
  ASSUME TypeOK, NEW r \in Procs, Step(r), Blamed(r), Alone(r), ~raced => Informed(r)
  PROVE  Blamed(r)'
<1>t. /\ r \in DOMAIN pc /\ r \in DOMAIN unit /\ r \in DOMAIN out /\ r \in DOMAIN hash
      /\ out[r] = "compile" => pc[r] = "done"
  BY DEF TypeOK, Blamed
<1>r. ~raced' => ~raced
  BY SourceMoves
<1> USE DEF Goto, End, own
<1>1. CASE Compile(r)
  <2>0. pc[r] = "compile" /\ hash' = hash /\ out[r] # "compile" /\ out' = out
    BY <1>1, <1>t DEF Compile
  <2>1. CASE Builds(At(r))
    <3>1. pc'[r] = "link" /\ unit'[r] = [src |-> Here(r), mods |-> mod, disp |-> gen[At(r)].body, go |-> go]
      BY <1>1, <2>1, <1>t DEF Compile
    <3>2. unit'[r] # None
      BY <2>1, <3>1, BuildTyped, MarkersAssumption
    <3>3. QED
      BY <2>0, <3>1, <3>2 DEF Blamed, Building
  <2>2. CASE ~Builds(At(r))
    <3>1. pc'[r] = "sweep"
      BY <1>1, <2>2, <1>t DEF Compile
    <3>2. ~raced' => hash'[r].src \notin Compiles
      BY <2>0, <2>2, <1>r, FailsHonestly
    <3>3. QED
      BY <2>0, <3>1, <3>2 DEF Blamed, Building
  <2>3. QED
    BY <2>1, <2>2
<1>2. CASE Link(r) \/ Sweep(r) \/ Unlink(r)
  <2>1. hash' = hash /\ unit' = unit /\ pc[r] \in {"link", "sweep", "unlink"}
    BY <1>2 DEF Link, Sweep, Unlink
  <2>2. /\ pc'[r] \in {"sweep", "unlink", "manifest", "done"}
        /\ out'[r] = "compile" => out[r] = "compile" \/ (pc'[r] = "done" /\ pc[r] \in {"sweep", "unlink"} /\ unit[r] = None)
        /\ pc'[r] \in {"sweep", "unlink"} => pc[r] = "sweep" \/ unit[r] # None
    BY <1>2, <1>t DEF Link, Sweep, Unlink, Judge, Blamed
  <2>3. QED
    BY <2>1, <2>2, <1>t, <1>r DEF Blamed, Building
<1>3. CASE Exec(r)
  BY <1>3, <1>t DEF Exec, Blamed, Building
<1>4. CASE Scan(r) \/ Invoke(r) \/ Discover(r)
  <2>1. unit' = unit /\ pc[r] \in Building \cup {"off"}
        /\ out'[r] # "compile" /\ pc'[r] \notin {"link", "sweep", "unlink"}
    BY <1>4, <1>t DEF Scan, Invoke, Discover, Building
  <2>2. QED
    BY <2>1 DEF Blamed
<1>5. CASE Lookup(r)
  <2>1. unit' = unit /\ pc[r] \in Building /\ out' = out /\ out[r] # "compile" /\ pc'[r] \in {"check", "exec"}
    BY <1>5, <1>t DEF Lookup, Building
  <2>2. QED
    BY <2>1 DEF Blamed
<1>6. CASE Check(r) \/ Remove(r) \/ Truncate(r) \/ Write(r) \/ WriteFails(r)
  <2>1. unit' = unit /\ pc[r] \in Building
        /\ out'[r] # "compile" /\ pc'[r] \notin {"link", "sweep", "unlink"}
    BY <1>6, <1>t DEF Check, Remove, Truncate, Write, WriteFails, Building
  <2>2. QED
    BY <2>1 DEF Blamed
<1>7. CASE Manifest(r) \/ Mkdir(r) \/ Scaffold(r) \/ Tidy(r)
  BY <1>7, <1>t DEF Manifest, Mkdir, Scaffold, Tidy, Blamed, Building
<1>8. CASE ListCache(r) \/ RemoveManifest(r) \/ CacheDone(r) \/ Crash(r)
  BY <1>8, <1>t DEF ListCache, RemoveManifest, CacheDone, Crash, Blamed, Building
<1>9. ASSUME NEW e, RemoveBinary(r, e) PROVE Blamed(r)'
  BY <1>9, <1>t DEF RemoveBinary, Blamed, Building
<1>10. QED
  BY <1>1, <1>2, <1>3, <1>4, <1>5, <1>6, <1>7, <1>8, <1>9 DEF Step

\* Every step keeps both.
LEMMA HonestNext ==
  ASSUME TypeOK, InformedInv, HonestInv, [Next]_vars PROVE HonestInv'
<1>1. ASSUME NEW r \in Procs, Step(r) PROVE HonestInv'
  <2> SUFFICES ASSUME NEW n \in Procs, At(n) \notin crowded' PROVE Alone(n)' /\ Blamed(n)'
    <3>1. \A n \in Procs : At(n)' = At(n)
      BY <1>1, OwnStep DEF At
    <3>2. QED
      BY <3>1 DEF HonestInv
  <2>1. At(n) \notin crowded => Alone(n)
    BY DEF HonestInv
  <2>2. At(n) \notin crowded
    BY <1>1, CrowdMoves
  <2>3. Blamed(n)
    BY <2>2 DEF HonestInv
  <2>4. ~raced => Informed(n)
    BY DEF InformedInv
  <2>5. CASE n = r
    BY <1>1, <2>1, <2>2, <2>3, <2>4, <2>5, AloneOwn, BlamedOwn
  <2>6. CASE n # r
    BY <1>1, <2>1, <2>3, <2>6, AloneOthers, BlamedOthers
  <2>7. QED
    BY <2>5, <2>6
<1>2. CASE Around
  <2>0. UNCHANGED <<job, pc, out, own, crowded>>
    BY <1>2 DEF Around, Edit, EditModule, Upgrade, tools
  <2>1. \A n \in Procs : At(n)' = At(n) /\ Dispatcher(n)' = Dispatcher(n)
    BY <2>0 DEF At, Dispatcher, own
  <2>2. ~raced' => ~raced /\ \A n \in Procs : pc[n] \in Building => gen'[At(n)] = gen[At(n)]
    BY <1>2, AroundFrame
  <2>3. \A n \in Procs : Alone(n) => Alone(n)'
    BY <2>0, <2>1, <2>2 DEF Alone, own, Building
  <2>4. \A n \in Procs : Blamed(n) => Blamed(n)'
    BY <2>0, <2>2 DEF Blamed, own
  <2>5. QED
    BY <2>0, <2>1, <2>3, <2>4 DEF HonestInv
<1>3. CASE UNCHANGED vars
  BY <1>3 DEF vars, HonestInv, Alone, Blamed, At, Dispatcher
<1>4. QED
  BY <1>1, <1>2, <1>3 DEF Next, Around, Rest

\* "Did not compile" (ErrCompile in build.go) is said of definitions that do not
\* compile, whatever other processes do elsewhere: unless the definition changed
\* or another process was building in the same directory, lath's own generated
\* file never makes a build fail.
THEOREM RunnerHonestCompile == Spec => []HonestCompile
<1>1. Init => HonestInv
  BY MarkersAssumption DEF Init, HonestInv, Alone, Blamed, Building, Generating
<1>2. TypeOK /\ InformedInv /\ HonestInv /\ [Next]_vars => HonestInv'
  BY HonestNext
<1>3. HonestInv => HonestCompile
  BY DEF HonestInv, HonestCompile, Blamed
<1>4. QED
  BY <1>1, <1>2, <1>3, RunnerTyped, RunnerInformed, PTL DEF Spec

-----------------------------------------------------------------------------
(* Targets. *)

\* What Without computes, word by word.
Keeps(g, s, S, X) ==
    /\ g \in [0 .. Len(s) -> Seq(X)]
    /\ g[0] = <<>>
    /\ \A n \in 1 .. Len(s) : g[n] = IF s[n] \in S THEN g[n - 1] ELSE Append(g[n - 1], s[n])

LEMMA WithoutKeeps ==
  ASSUME NEW X, NEW s \in Seq(X), NEW S
  PROVE  \E g : Keeps(g, s, S, X) /\ Without(s, S) = g[Len(s)]
<1> DEFINE h == [n \in 1 .. Len(s) |-> [q \in Seq(X) |-> IF s[n] \in S THEN q ELSE Append(q, s[n])]]
<1> DEFINE Rec(f) == [n \in 0 .. Len(s) |->
      IF n = 0 THEN <<>> ELSE IF s[n] \in S THEN f[n - 1] ELSE Append(f[n - 1], s[n])]
<1>1. Len(s) \in Nat /\ <<>> \in Seq(X)
  OBVIOUS
<1>2. Steps(h, Len(s), Seq(X))
  BY DEF Steps
<1>3. PICK f : Iterates(f, h, Len(s), Seq(X), <<>>)
  <2> HIDE DEF h
  <2>1. QED
    BY <1>1, <1>2, Recursion
<1>4. \A n \in 0 .. Len(s) : f[n] \in Seq(X)
  BY <1>3 DEF Iterates
<1>5. ASSUME NEW n \in 1 .. Len(s)
      PROVE  f[n] = IF s[n] \in S THEN f[n - 1] ELSE Append(f[n - 1], s[n])
  <2>1. f[n - 1] \in Seq(X)
    BY <1>4
  <2>2. f[n] = h[n][f[n - 1]]
    BY <1>3 DEF Iterates
  <2>3. QED
    BY <2>1, <2>2
<1>6. f = Rec(f)
  <2>1. ASSUME NEW n \in 0 .. Len(s) PROVE f[n] = Rec(f)[n]
    <3>1. CASE n = 0
      BY <3>1, <1>3 DEF Iterates
    <3>2. CASE n # 0
      BY <3>2, <1>5
    <3>3. QED
      BY <3>1, <3>2
  <2>2. f = [n \in 0 .. Len(s) |-> f[n]]
    BY <1>3 DEF Iterates
  <2>3. QED
    BY <2>1, <2>2
<1> DEFINE g == CHOOSE k : k = Rec(k)
<1>7. g = Rec(g)
  BY <1>6, Zenon
<1>8. Without(s, S) = g[Len(s)]
  BY Zenon DEF Without
<1> HIDE DEF g, h
<1>9. g = f
  <2> DEFINE P == {n \in Nat : n <= Len(s) => g[n] = f[n]}
  <2>1. DOMAIN g = 0 .. Len(s) /\ g[0] = <<>>
    BY <1>1, <1>7
  <2>2. ASSUME NEW n \in 1 .. Len(s)
        PROVE  g[n] = IF s[n] \in S THEN g[n - 1] ELSE Append(g[n - 1], s[n])
    <3>1. g[n] = Rec(g)[n]
      BY <1>7, Zenon
    <3>2. n # 0 /\ n \in 0 .. Len(s)
      OBVIOUS
    <3>3. QED
      BY <3>1, <3>2
  <2>3. 0 \in P
    BY <2>1, <1>3 DEF Iterates
  <2>4. ASSUME NEW n \in Nat, n \in P PROVE n + 1 \in P
    <3> SUFFICES ASSUME n + 1 <= Len(s) PROVE g[n + 1] = f[n + 1]
      OBVIOUS
    <3>1. n + 1 \in 1 .. Len(s) /\ (n + 1) - 1 = n /\ g[n] = f[n]
      BY <2>4
    <3>2. QED
      BY <1>5, <2>2, <3>1
  <2>5. \A n \in Nat : n \in P
    <3> HIDE DEF P
    <3>1. QED
      BY <2>3, <2>4, Climb
  <2>6. \A n \in 0 .. Len(s) : g[n] = f[n]
    BY <2>5
  <2>7. g = [n \in 0 .. Len(s) |-> g[n]] /\ f = [n \in 0 .. Len(s) |-> f[n]]
    BY <1>3, <1>7 DEF Iterates
  <2>8. QED
    BY <2>6, <2>7
<1>10. QED
  BY <1>3, <1>5, <1>8, <1>9 DEF Keeps, Iterates

\* Induction over sequences, for a set.
LEMMA Build ==
  ASSUME NEW X, NEW P, <<>> \in P, \A s \in Seq(X), e \in X : s \in P => Append(s, e) \in P
  PROVE  \A s \in Seq(X) : s \in P
<1> DEFINE Q == {n \in Nat : \A s \in Seq(X) : Len(s) = n => s \in P}
<1>1. 0 \in Q
  <2>1. \A s \in Seq(X) : Len(s) = 0 => s = <<>>
    BY EmptySeq
  <2>2. QED
    BY <2>1
<1>2. ASSUME NEW n \in Nat, n \in Q PROVE n + 1 \in Q
  <2> SUFFICES ASSUME NEW s \in Seq(X), Len(s) = n + 1 PROVE s \in P
    OBVIOUS
  <2>1. s # <<>>
    OBVIOUS
  <2>2. PICK t \in Seq(X), e \in X : s = Append(t, e)
    BY <2>1, SequenceEmptyOrAppend
  <2>3. Len(t) = n
    BY <2>2
  <2>4. t \in P
    BY <1>2, <2>3
  <2>5. QED
    BY <2>2, <2>4
<1>3. \A n \in Nat : n \in Q
  <2> HIDE DEF Q
  <2>1. QED
    BY <1>1, <1>2, Climb
<1>4. \A s \in Seq(X) : Len(s) \in Nat
  OBVIOUS
<1>5. QED
  BY <1>3, <1>4

\* Without goes through the words one by one.
LEMMA WithoutEmpty == ASSUME NEW S PROVE Without(<<>>, S) = <<>>
<1>1. PICK g : Keeps(g, <<>>, S, {}) /\ Without(<<>>, S) = g[Len(<<>>)]
  <2>1. <<>> \in Seq({})
    OBVIOUS
  <2>2. QED
    BY <2>1, WithoutKeeps
<1>2. QED
  BY <1>1 DEF Keeps

Then(q, w, S) == IF w \in S THEN q ELSE Append(q, w)

LEMMA WithoutAppend ==
  ASSUME NEW X, NEW s \in Seq(X), NEW e \in X, NEW S
  PROVE  /\ Without(s, S) \in Seq(X)
         /\ Without(Append(s, e), S) = Then(Without(s, S), e, S)
<1> DEFINE t == Append(s, e)
<1>1. t \in Seq(X) /\ Len(t) = Len(s) + 1 /\ Len(s) \in Nat /\ t[Len(s) + 1] = e
  OBVIOUS
<1>2. \A n \in 1 .. Len(s) : t[n] = s[n]
  OBVIOUS
<1> HIDE DEF t
<1>3. PICK f : Keeps(f, s, S, X) /\ Without(s, S) = f[Len(s)]
  BY WithoutKeeps
<1>4. PICK g : Keeps(g, t, S, X) /\ Without(t, S) = g[Len(t)]
  BY <1>1, WithoutKeeps
<1> DEFINE P == {n \in Nat : n <= Len(s) => f[n] = g[n]}
<1>5. 0 \in P
  BY <1>3, <1>4 DEF Keeps
<1>6. ASSUME NEW n \in Nat, n \in P PROVE n + 1 \in P
  <2> SUFFICES ASSUME n + 1 <= Len(s) PROVE f[n + 1] = g[n + 1]
    OBVIOUS
  <2>1. n + 1 \in 1 .. Len(s) /\ n + 1 \in 1 .. Len(t) /\ (n + 1) - 1 = n
    BY <1>1
  <2>2. f[n] = g[n]
    BY <1>6
  <2>3. f[n + 1] = IF s[n + 1] \in S THEN f[n] ELSE Append(f[n], s[n + 1])
    BY <1>3, <2>1 DEF Keeps
  <2>4. g[n + 1] = IF t[n + 1] \in S THEN g[n] ELSE Append(g[n], t[n + 1])
    BY <1>4, <2>1 DEF Keeps
  <2>5. QED
    BY <1>2, <2>1, <2>2, <2>3, <2>4
<1>7. \A n \in Nat : n \in P
  <2> HIDE DEF P
  <2>1. QED
    BY <1>5, <1>6, Climb
<1>8. f[Len(s)] = g[Len(s)]
  BY <1>1, <1>7
<1>9. g[Len(t)] = IF e \in S THEN g[Len(s)] ELSE Append(g[Len(s)], e)
  <2>1. Len(t) \in 1 .. Len(t) /\ Len(t) - 1 = Len(s)
    BY <1>1
  <2>2. QED
    BY <1>1, <1>4, <2>1 DEF Keeps
<1>10. f[Len(s)] \in Seq(X)
  BY <1>1, <1>3 DEF Keeps
<1>11. QED
  BY <1>3, <1>4, <1>8, <1>9, <1>10 DEF t, Then

\* Two flags are taken off one after the other, or together.
LEMMA WithoutTwice ==
  ASSUME NEW X, NEW S, NEW T, NEW U, \A w : w \in U <=> w \in S \/ w \in T
  PROVE  \A s \in Seq(X) : Without(Without(s, S), T) = Without(s, U)
<1> DEFINE P == {s \in Seq(X) : Without(Without(s, S), T) = Without(s, U)}
<1>1. <<>> \in P
  BY WithoutEmpty
<1>2. ASSUME NEW s \in Seq(X), NEW e \in X, s \in P PROVE Append(s, e) \in P
  <2>1. /\ Without(s, S) \in Seq(X)
        /\ Without(Append(s, e), S) = Then(Without(s, S), e, S)
        /\ Without(Append(s, e), U) = Then(Without(s, U), e, U)
    BY WithoutAppend
  <2>2. Without(Append(Without(s, S), e), T) = Then(Without(Without(s, S), T), e, T)
    BY <2>1, WithoutAppend
  <2>3. Append(s, e) \in Seq(X)
    OBVIOUS
  <2>4. QED
    BY <1>2, <2>1, <2>2, <2>3 DEF Then
<1>3. QED
  <2> HIDE DEF P
  <2>1. \A s \in Seq(X) : s \in P
    BY <1>1, <1>2, Build
  <2>2. QED
    BY <2>1 DEF P

\* A flag that is not there leaves all words where they are.
LEMMA WithoutNone ==
  ASSUME NEW X, NEW S, X \cap S = {}
  PROVE  \A s \in Seq(X) : Without(s, S) = s
<1> DEFINE P == {s \in Seq(X) : Without(s, S) = s}
<1>1. <<>> \in P
  BY WithoutEmpty
<1>2. ASSUME NEW s \in Seq(X), NEW e \in X, s \in P PROVE Append(s, e) \in P
  BY <1>2, WithoutAppend DEF Then
<1>3. QED
  <2> HIDE DEF P
  <2>1. \A s \in Seq(X) : s \in P
    BY <1>1, <1>2, Build
  <2>2. QED
    BY <2>1 DEF P

\* The other words are all there, and the first stays the first.
Thinned(s, t, S) ==
    /\ Len(t) <= Len(s)
    /\ \A w : Has(t, w) <=> Has(s, w) /\ w \notin S
    /\ s # <<>> /\ s[1] \notin S => t # <<>> /\ t[1] = s[1]

LEMMA HasAppend ==
  ASSUME NEW X, NEW s \in Seq(X), NEW e \in X, NEW w
  PROVE  Has(Append(s, e), w) <=> Has(s, w) \/ w = e
<1> DEFINE t == Append(s, e)
<1>1. DOMAIN t = 1 .. Len(s) + 1 /\ DOMAIN s = 1 .. Len(s) /\ Len(s) \in Nat
  OBVIOUS
<1>2. t[Len(s) + 1] = e /\ \A n \in 1 .. Len(s) : t[n] = s[n]
  OBVIOUS
<1> HIDE DEF t
<1>3. Has(t, w) <=> Has(s, w) \/ w = e
  BY <1>1, <1>2 DEF Has
<1>4. QED
  BY <1>3 DEF t

LEMMA WithoutThins ==
  ASSUME NEW X, NEW S
  PROVE  \A s \in Seq(X) : Without(s, S) \in Seq(X) /\ Thinned(s, Without(s, S), S)
<1> DEFINE P == {s \in Seq(X) : Without(s, S) \in Seq(X) /\ Thinned(s, Without(s, S), S)}
<1>1. <<>> \in P
  <2>1. <<>> \in Seq(X) /\ Len(<<>>) = 0 /\ \A w : ~Has(<<>>, w)
    BY DEF Has
  <2>2. Thinned(<<>>, <<>>, S)
    BY <2>1 DEF Thinned
  <2>3. QED
    BY <2>1, <2>2, WithoutEmpty
<1>2. ASSUME NEW s \in Seq(X), NEW e \in X, s \in P PROVE Append(s, e) \in P
  <2> DEFINE t == Without(s, S)
  <2> DEFINE u == Append(s, e)
  <2>1. t \in Seq(X) /\ Thinned(s, t, S)
    BY <1>2
  <2>2. Without(u, S) = IF e \in S THEN t ELSE Append(t, e)
    BY WithoutAppend DEF Then
  <2>3. u \in Seq(X) /\ Len(u) = Len(s) + 1 /\ u # <<>> /\ u[1] = IF s = <<>> THEN e ELSE s[1]
    <3>1. CASE s = <<>>
      BY <3>1
    <3>2. CASE s # <<>>
      BY <3>2
    <3>3. QED
      BY <3>1, <3>2
  <2>4. \A w : Has(u, w) <=> Has(s, w) \/ w = e
    BY HasAppend
  <2> HIDE DEF t, u
  <2>5. CASE e \in S
    <3>1. Len(t) <= Len(u)
      BY <2>1, <2>3 DEF Thinned
    <3>2. \A w : Has(t, w) <=> Has(u, w) /\ w \notin S
      BY <2>1, <2>4, <2>5 DEF Thinned
    <3>3. u[1] \notin S => t # <<>> /\ t[1] = u[1]
      BY <2>1, <2>3, <2>5 DEF Thinned
    <3>4. QED
      BY <2>1, <2>2, <2>3, <2>5, <3>1, <3>2, <3>3 DEF u, Thinned
  <2>6. CASE e \notin S
    <3> DEFINE v == Append(t, e)
    <3>1. v \in Seq(X) /\ Len(v) = Len(t) + 1 /\ v # <<>> /\ v[1] = IF t = <<>> THEN e ELSE t[1]
      <4>1. CASE t = <<>>
        BY <4>1
      <4>2. CASE t # <<>>
        BY <2>1, <4>2
      <4>3. QED
        BY <4>1, <4>2
    <3>2. \A w : Has(v, w) <=> Has(t, w) \/ w = e
      BY <2>1, HasAppend
    <3> HIDE DEF v
    <3>3. Len(v) <= Len(u)
      BY <2>1, <2>3, <3>1 DEF Thinned
    <3>4. \A w : Has(v, w) <=> Has(u, w) /\ w \notin S
      BY <2>1, <2>4, <2>6, <3>2 DEF Thinned
    <3>5. u[1] \notin S => v[1] = u[1]
      <4>1. CASE s = <<>>
        BY <4>1, <2>1, <2>3, <3>1 DEF Thinned
      <4>2. CASE s # <<>>
        BY <4>2, <2>1, <2>3, <3>1 DEF Thinned
      <4>3. QED
        BY <4>1, <4>2
    <3>6. QED
      BY <2>2, <2>3, <2>6, <3>1, <3>3, <3>4, <3>5 DEF u, v, Thinned
  <2>7. QED
    BY <2>5, <2>6
<1>3. QED
  <2> HIDE DEF P
  <2>1. \A s \in Seq(X) : s \in P
    BY <1>1, <1>2, Build
  <2>2. QED
    BY <2>1 DEF P

-----------------------------------------------------------------------------
\* The words a name for a target t begins with.
Calls(a, t) ==
    IF t.ns = Root THEN Len(a) >= 1 /\ lower(a[1]) = t.word
    ELSE Len(a) >= 2 /\ lower(a[1]) = t.ns /\ lower(a[2]) = t.word

LEMMA Cases ==
  ASSUME NEW d, NEW n, n = Root \/ n \in Namespaces(d), NEW w
  PROVE  /\ Case(d, n, w) = {t \in Listed(d) : t.ns = n /\ t.word = lower(w)}
         /\ \A t \in Case(d, n, w) : generate(d)[n][t] = Statement(t)
BY DEF Case, generate

LEMMA RootCases ==
  ASSUME NEW d, NEW w
  PROVE  /\ Case(d, Root, w) = {t \in Listed(d) : t.ns = Root /\ t.word = lower(w)}
         /\ \A t \in Case(d, Root, w) : generate(d)[Root][t] = Statement(t)
BY DEF Case, generate

\* Whatever main calls was named, if discovery was content.
LEMMA Dispatched ==
  ASSUME NEW d, NEW X, NEW argv, Strip(d, argv) \in Seq(X), Dispatch(d, argv).kind = "ran"
  PROVE  \E t \in Listed(d) : /\ Calls(Strip(d, argv), t)
                              /\ Dispatch(d, argv) = Called(Statement(t), Strip(d, argv))
<1>0. PICK a : a = Strip(d, argv)
  BY Zenon
<1>1. \A k : Said(k).kind = k
  BY DEF Said
<1>2. a # <<>> /\ a \in Seq(X)
  BY <1>0, <1>1 DEF Dispatch
<1>3. CASE Case(d, Root, a[1]) # {}
  <2>1. Dispatch(d, argv) = Call(d, Root, a[1], a)
    BY <1>0, <1>1, <1>2, <1>3 DEF Dispatch
  <2>2. PICK t \in Case(d, Root, a[1]) : Call(d, Root, a[1], a) = Called(generate(d)[Root][t], a)
    BY <1>3 DEF Call
  <2>3. t \in Listed(d) /\ t.ns = Root /\ t.word = lower(a[1]) /\ generate(d)[Root][t] = Statement(t)
    BY <2>2, RootCases
  <2>4. Len(a) >= 1
    BY <1>2
  <2>5. QED
    BY <1>0, <2>1, <2>2, <2>3, <2>4 DEF Calls
<1>4. CASE Case(d, Root, a[1]) = {}
  <2>1. lower(a[1]) \in Namespaces(d) /\ Len(a) # 1 /\ Case(d, lower(a[1]), a[2]) # {}
    BY <1>0, <1>1, <1>2, <1>4 DEF Dispatch
  <2>2. Dispatch(d, argv) = Call(d, lower(a[1]), a[2], a)
    BY <1>0, <1>1, <1>2, <1>4, <2>1 DEF Dispatch
  <2>3. PICK t \in Case(d, lower(a[1]), a[2]) :
          Call(d, lower(a[1]), a[2], a) = Called(generate(d)[lower(a[1])][t], a)
    BY <2>1 DEF Call
  <2>4. /\ t \in Listed(d) /\ t.ns = lower(a[1]) /\ t.word = lower(a[2])
        /\ generate(d)[lower(a[1])][t] = Statement(t)
    BY <2>1, <2>3, Cases
  <2>5. Len(a) >= 2 /\ t.ns # Root
    <3>1. Len(a) \in Nat /\ Len(a) # 0
      BY <1>2
    <3>2. t.ns # Root
      BY <2>1, <2>4 DEF Namespaces
    <3>3. ASSUME NEW l \in Nat, l # 0, l # 1 PROVE l >= 2
      BY <3>3
    <3>4. QED
      BY <2>1, <3>1, <3>2, <3>3, Zenon
  <2>6. QED
    BY <1>0, <2>2, <2>3, <2>4, <2>5 DEF Calls
<1>5. QED
  BY <1>3, <1>4

\* Discovery was content, so nothing else has that name.
LEMMA Accepted ==
  ASSUME NEW d \in Definitions, discover(d) = "nil"
  PROVE  d.state = "ok" /\ ~Duplicates(Listed(d)) /\ ~Clashes(Listed(d))
<1>1. d.state \in {"ok", "missing", "broken", "deep"}
  BY DEF Definitions
<1>2. d.state = "ok" /\ Listed(d) # {}
  BY <1>1 DEF discover
<1>3. ~Duplicates(Listed(d))
  BY <1>2 DEF discover
<1>4. QED
  BY <1>2, <1>3 DEF discover

LEMMA OneName ==
  ASSUME NEW d \in Definitions, discover(d) = "nil", NEW a, NEW t \in Listed(d), NEW u \in Listed(d),
         Calls(a, t), Calls(a, u)
  PROVE  t = u
<1>1. ~Duplicates(Listed(d)) /\ ~Clashes(Listed(d))
  BY Accepted
<1>2. QED
  BY <1>1 DEF Calls, Duplicates, Clashes

\* And main calls whatever is named.
LEMMA Reached ==
  ASSUME NEW d \in Definitions, discover(d) = "nil", NEW X, NEW argv, argv # <<>>, Strip(d, argv) \in Seq(X),
         NEW t \in Listed(d), Calls(Strip(d, argv), t)
  PROVE  Dispatch(d, argv) = Called(Statement(t), Strip(d, argv))
<1>0. PICK a : a = Strip(d, argv)
  BY Zenon
<1>1. \A k : Said(k).kind = k
  BY DEF Said
<1>2. a # <<>> /\ Calls(a, t)
  BY <1>0 DEF Calls
<1>3. CASE t.ns = Root
  <2>1. t \in Case(d, Root, a[1])
    BY <1>2, <1>3, RootCases DEF Calls
  <2>2. \A u \in Case(d, Root, a[1]) : u = t
    BY <1>2, <1>3, <2>1, RootCases, OneName DEF Calls
  <2>3. Call(d, Root, a[1], a) = Called(Statement(t), a)
    BY <2>1, <2>2, RootCases DEF Call
  <2>4. QED
    BY <1>0, <1>2, <2>1, <2>3 DEF Dispatch
<1>4. CASE t.ns # Root
  <2>1. t.ns = lower(a[1]) /\ t.ns \in Namespaces(d) /\ Len(a) # 1
    BY <1>2, <1>4 DEF Calls, Namespaces
  <2>2. t \in Case(d, lower(a[1]), a[2])
    BY <1>2, <1>4, <2>1, Cases DEF Calls
  <2>3. \A u \in Case(d, lower(a[1]), a[2]) : u = t
    BY <1>2, <1>4, <2>1, <2>2, Cases, OneName DEF Calls
  <2>4. Call(d, lower(a[1]), a[2], a) = Called(Statement(t), a)
    BY <2>1, <2>2, <2>3, Cases DEF Call
  <2>5. Case(d, Root, a[1]) = {}
    <3> SUFFICES ASSUME NEW u \in Case(d, Root, a[1]) PROVE FALSE
      OBVIOUS
    <3>1. u \in Listed(d) /\ u.ns = Root /\ u.word = lower(a[1])
      BY RootCases
    <3>2. ~Clashes(Listed(d))
      BY Accepted
    <3>3. QED
      BY <1>4, <2>1, <3>1, <3>2 DEF Clashes
  <2>6. QED
    BY <1>0, <1>2, <2>1, <2>2, <2>4, <2>5 DEF Dispatch
<1>5. QED
  BY <1>3, <1>4

\* What a target is.
Usable(d) == Visible(d) \ Rejected(d)

LEMMA ListedUsable ==
  ASSUME NEW d \in Definitions
  PROVE  /\ Listed(d) = {targetOf(f) : f \in Usable(d)}
         /\ \A f \in Usable(d) : f \in Decls /\ f \in d.fns /\ classify(f) # "unsupported"
<1>1. d.fns \subseteq Decls
  BY DEF Definitions, Packages
<1>2. Usable(d) = {f \in Visible(d) : classify(f) # "unsupported"}
  BY DEF Usable, Rejected
<1>3. QED
  BY <1>1, <1>2 DEF Listed, Visible

LEMMA TargetIs ==
  ASSUME NEW f
  PROVE  /\ targetOf(f).func = f /\ targetOf(f).ns = f.dir
         /\ targetOf(f).word = Fold[f.name] /\ targetOf(f).sig = classify(f)
BY DEF targetOf

LEMMA NoFlag ==
  ASSUME NEW d \in Definitions, NEW t \in Listed(d)
  PROVE  t.ns \notin Flags /\ t.word \notin Flags
<1>1. PICK f \in Usable(d) : t = targetOf(f)
  BY ListedUsable
<1>2. f \in Decls
  BY ListedUsable
<1>3. QED
  BY <1>1, <1>2, TargetIs, FlagsAssumption

\* The flags lath adds for its dispatcher change nothing in what is named, and
\* one that knows them takes them off again.
Extra(debugging) == IF debugging THEN <<Sock, Wait>> ELSE <<>>

LEMMA Handed ==
  ASSUME NEW d \in Definitions, NEW left \in Seq(Words), NEW debugging \in BOOLEAN,
         NEW argv, argv = left \o Extra(debugging)
  PROVE  /\ Strip(d, argv) \in Seq(Words \cup {Sock, Wait})
         /\ (debugging => d.debuggable) => Strip(d, argv) = left
         /\ \A t \in Listed(d) : Calls(Strip(d, argv), t) <=> Calls(left, t)
         /\ left # <<>> => argv # <<>>
<1> DEFINE X == Words \cup {Sock, Wait}
<1> DEFINE S == {Sock, Wait}
<1>1. left \in Seq(X) /\ Words \cap S = {} /\ Sock \in X /\ Wait \in X
  BY TargetsAssumption, FlagsAssumption
<1>2. Without(left, S) = left
  BY <1>1, WithoutNone
<1>3. CASE ~debugging
  <2>1. argv = left
    BY <1>3 DEF Extra
  <2>2. Strip(d, argv) = left
    BY <1>2, <2>1 DEF Strip
  <2>3. QED
    BY <1>1, <2>1, <2>2
<1>4. CASE debugging
  <2>1. argv = Append(Append(left, Sock), Wait)
    BY <1>4 DEF Extra
  <2>2. Append(left, Sock) \in Seq(X) /\ argv \in Seq(X) /\ argv # <<>>
    BY <1>1, <2>1
  <2>3. Without(Append(left, Sock), S) = left
    <3> HIDE DEF X, S
    <3>1. Sock \in S
      BY DEF S
    <3>2. QED
      BY <1>1, <1>2, <3>1, WithoutAppend DEF Then
  <2>4. Without(argv, S) = left
    <3> HIDE DEF X, S
    <3>1. Wait \in S
      BY DEF S
    <3>2. QED
      <4>1. PICK q \in Seq(X) : q = Append(left, Sock)
        BY <2>2, Zenon
      <4>2. argv = Append(q, Wait) /\ Without(q, S) = left
        BY <2>1, <2>3, <4>1, Zenon
      <4>3. Without(Append(q, Wait), S) = Then(Without(q, S), Wait, S)
        BY <1>1, WithoutAppend
      <4>4. QED
        BY <3>1, <4>2, <4>3 DEF Then
  <2>5. CASE d.debuggable
    <3>1. Strip(d, argv) = left
      BY <2>4, <2>5 DEF Strip
    <3>2. QED
      BY <1>1, <2>2, <3>1
  <2>6. CASE ~d.debuggable
    <3>1. Strip(d, argv) = argv
      BY <2>6 DEF Strip
    <3>2. lower(Sock) \in Flags /\ lower(Wait) \in Flags
      BY FlagsAssumption DEF lower, Flags
    <3>3. /\ Len(argv) = Len(left) + 2 /\ Len(left) \in Nat
          /\ argv[Len(left) + 1] = Sock /\ argv[Len(left) + 2] = Wait
          /\ \A n \in 1 .. Len(left) : argv[n] = left[n]
      BY <2>1
    <3>4. ASSUME NEW t \in Listed(d) PROVE Calls(argv, t) <=> Calls(left, t)
      <4>1. t.ns \notin Flags /\ t.word \notin Flags
        BY NoFlag
      <4>2. CASE Len(left) = 0
        BY <3>2, <3>3, <4>1, <4>2 DEF Calls
      <4>3. CASE Len(left) = 1
        BY <3>2, <3>3, <4>1, <4>3 DEF Calls
      <4>4. CASE Len(left) >= 2
        BY <3>3, <4>4 DEF Calls
      <4>5. ASSUME NEW l \in Nat PROVE l = 0 \/ l = 1 \/ l >= 2
        OBVIOUS
      <4>6. QED
        BY <3>3, <4>2, <4>3, <4>4, <4>5, Zenon
    <3>5. QED
      BY <1>4, <2>2, <2>6, <3>1, <3>4
  <2>7. QED
    BY <2>5, <2>6
<1>5. QED
  BY <1>3, <1>4

\* The words of a command line that are not lath's own, and what discovery
\* says of a definition is no sign of a run.
TypedOf(v, words) == Without(words, IF v = "plan" THEN {"--debug", "--json"} ELSE {"--debug"})

LEMMA NotRan == ASSUME NEW d PROVE discover(d) # "ran"
BY DEF discover

LEMMA Forwarded ==
  ASSUME NEW d, NEW args, NEW tty \in BOOLEAN
  PROVE  LET to == Dispatch(d, Without(args, {"--debug"}) \o Extra(Has(args, "--debug"))) IN
         /\ runTarget(d, args, tty).kind = "ran" => discover(d) = "nil" /\ runTarget(d, args, tty) = to
         /\ ~Has(args, "--debug=bad") /\ (tty \/ ~Has(args, "--debug")) /\ discover(d) = "nil"
              /\ FileCompiles(d) => runTarget(d, args, tty) = to
<1>1. PICK to : to = Dispatch(d, Without(args, {"--debug"}) \o Extra(Has(args, "--debug")))
  BY Zenon
<1>2. runTarget(d, args, tty) =
        CASE Has(args, "--debug=bad") -> Said("usage")
          [] ~Has(args, "--debug=bad") /\ Has(args, "--debug") /\ ~tty -> Said("usage")
          [] OTHER -> IF discover(d) # "nil" THEN Said(discover(d))
                      ELSE IF ~FileCompiles(d) THEN Said("ErrCompile") ELSE to
  BY <1>1 DEF runTarget, takeDebugFlag, Extra
<1>3. Said("usage").kind # "ran" /\ Said("ErrCompile").kind # "ran" /\ Said(discover(d)).kind # "ran"
  BY NotRan DEF Said
<1>4. QED
  BY <1>1, <1>2, <1>3

LEMMA Planned ==
  ASSUME NEW words \in Seq(Words)
  PROVE  /\ Without(words, {"--json"}) \in Seq(Words)
         /\ Without(Without(words, {"--json"}), {"--debug"}) = TypedOf("plan", words)
         /\ \A w : Has(Without(words, {"--json"}), w) <=> Has(words, w) /\ w # "--json"
<1>1. PICK J : J = {"--json"}
  BY Zenon
<1>2. PICK D : D = {"--debug"}
  BY Zenon
<1>3. PICK B : B = {"--debug", "--json"}
  BY Zenon
<1>4. \A w : w \in B <=> w \in J \/ w \in D
  BY <1>1, <1>2, <1>3
<1>5. Without(Without(words, J), D) = Without(words, B)
  BY <1>4, WithoutTwice
<1>6. Without(words, J) \in Seq(Words) /\ Thinned(words, Without(words, J), J)
  BY WithoutThins
<1>7. \A w : w \notin J <=> w # "--json"
  BY <1>1
<1>8. TypedOf("plan", words) = Without(words, B)
  BY <1>3 DEF TypedOf
<1>9. QED
  BY <1>1, <1>2, <1>5, <1>6, <1>7, <1>8 DEF Thinned

\* What ran was handed over.
LEMMA RanHanded ==
  ASSUME NEW d, NEW v \in {"run", "plan", "list"}, NEW words \in Seq(Words), NEW tty \in BOOLEAN,
         AnswerTo(d, v, words, tty).kind = "ran"
  PROVE  /\ discover(d) = "nil" /\ v # "list"
         /\ AnswerTo(d, v, words, tty) =
              Dispatch(d, TypedOf(v, words) \o Extra(Has(words, "--debug")))
<1>1. \A k : Said(k).kind = k
  BY DEF Said
<1>2. discover(d) # "ran"
  BY NotRan
<1>3. v # "list"
  BY <1>1, <1>2 DEF AnswerTo, List
<1>4. CASE v = "run"
  <2>1. AnswerTo(d, v, words, tty) = Run(d, words, tty)
    BY <1>1, <1>4 DEF AnswerTo
  <2>2. Run(d, words, tty) = runTarget(d, words, tty)
    BY <1>1, <1>2, <2>1 DEF Run
  <2>3. TypedOf(v, words) = Without(words, {"--debug"})
    BY <1>4 DEF TypedOf
  <2>4. QED
    BY <1>3, <2>1, <2>2, <2>3, Forwarded
<1>5. CASE v = "plan"
  <2>1. AnswerTo(d, v, words, tty) = Plan(d, words, tty)
    BY <1>1, <1>5 DEF AnswerTo
  <2>2. Plan(d, words, tty) = runTarget(d, Without(words, {"--json"}), tty)
    BY <1>1, <1>2, <2>1 DEF Plan, takeJSONFlag
  <2>3. PICK args : args = Without(words, {"--json"})
    BY Zenon
  <2>4. /\ discover(d) = "nil"
        /\ runTarget(d, args, tty) = Dispatch(d, Without(args, {"--debug"}) \o Extra(Has(args, "--debug")))
    BY <2>1, <2>2, <2>3, Forwarded
  <2>5. Without(args, {"--debug"}) = TypedOf(v, words) /\ (Has(args, "--debug") <=> Has(words, "--debug"))
    BY <1>5, <2>3, Planned
  <2>6. Extra(Has(args, "--debug")) = Extra(Has(words, "--debug"))
    BY <2>5 DEF Extra
  <2>7. QED
    BY <1>3, <2>1, <2>2, <2>3, <2>4, <2>5, <2>6
<1>6. QED
  BY <1>3, <1>4, <1>5

-----------------------------------------------------------------------------
\* Every question is one of the operator's, and answered from the definition.
Asked ==
    /\ def \in Definitions /\ asked.words \in Seq(Words)
    /\ asked.verb \in {"none", "run", "plan", "list"} /\ asked.tty \in BOOLEAN
    /\ asked.verb = "none" => answer = Said("none")
    /\ asked.verb # "none" => answer = AnswerTo(def, asked.verb, asked.words, asked.tty)

LEMMA TargetsAsked == AskSpec => []Asked
<1>1. AskInit => Asked
  <2> SUFFICES ASSUME AskInit PROVE Asked
    OBVIOUS
  <2>1. asked.verb = "none" /\ asked.words = <<>> /\ asked.tty = TRUE
    BY DEF AskInit
  <2>2. QED
    BY <2>1 DEF AskInit, Asked
<1>2. Asked /\ [AskNext]_asking => Asked'
  <2> SUFFICES ASSUME Asked, [AskNext]_asking PROVE Asked'
    OBVIOUS
  <2>1. CASE AskNext
    <3>0. PICK k \in 0 .. MaxWords, v \in {"run", "plan", "list"}, tty \in BOOLEAN :
            \E rest \in [1 .. k -> Words] : Ask(v, rest, tty)
      BY <2>1 DEF AskNext
    <3>1. PICK rest \in [1 .. k -> Words] : Ask(v, rest, tty)
      BY <3>0
    <3>2. rest \in Seq(Words)
      BY TargetsAssumption
    <3>3. asked'.verb = v /\ asked'.words = rest /\ asked'.tty = tty /\ def' = def
      BY <3>1 DEF Ask
    <3>4. answer' = AnswerTo(def, v, rest, tty)
      BY <3>1 DEF Ask
    <3>5. answer' = AnswerTo(def', asked'.verb, asked'.words, asked'.tty)
      BY <3>3, <3>4, Zenon
    <3>6. QED
      BY <3>2, <3>3, <3>5 DEF Asked
  <2>2. CASE UNCHANGED asking
    BY <2>2 DEF Asked, asking
  <2>3. QED
    BY <2>1, <2>2
<1>3. QED
  BY <1>1, <1>2, PTL DEF AskSpec

LEMMA TypedWords ==
  ASSUME Asked
  PROVE  Typed \in Seq(Words) /\ Typed = TypedOf(asked.verb, asked.words)
<1>1. Typed = TypedOf(asked.verb, asked.words)
  BY DEF Typed, TypedOf
<1>2. asked.words \in Seq(Words)
  BY DEF Asked
<1>3. QED
  BY <1>1, <1>2, WithoutThins DEF TypedOf

\* The operator's words name a function if they call its target.
LEMMA NamesCalls ==
  ASSUME Asked, NEW f
  PROVE  Names(f) <=> Calls(Typed, targetOf(f))
<1>1. Typed \in Seq(Words) /\ Len(Typed) \in Nat
  BY TypedWords
<1>2. PICK T \in Seq(Words) : T = Typed
  BY <1>1, Zenon
<1>3. \A i \in 1 .. Len(T) : lower(T[i]) = Fold[T[i]]
  BY TargetsAssumption DEF lower
<1>4. CASE f.dir = Root
  <2>1. Names(f) <=> Len(T) >= 1 /\ [i \in 1 .. 1 |-> Fold[T[i]]] = <<Fold[f.name]>>
    BY <1>2, <1>4 DEF Names, Command
  <2>2. [i \in 1 .. 1 |-> Fold[T[i]]] = <<Fold[f.name]>> <=> Fold[T[1]] = Fold[f.name]
    OBVIOUS
  <2>3. QED
    BY <1>2, <1>3, <1>4, <2>1, <2>2, TargetIs DEF Calls
<1>5. CASE f.dir # Root
  <2>1. Names(f) <=> Len(T) >= 2 /\ [i \in 1 .. 2 |-> Fold[T[i]]] = <<f.dir, Fold[f.name]>>
    BY <1>2, <1>5 DEF Names, Command
  <2>2. [i \in 1 .. 2 |-> Fold[T[i]]] = <<f.dir, Fold[f.name]>>
          <=> Fold[T[1]] = f.dir /\ Fold[T[2]] = Fold[f.name]
    OBVIOUS
  <2>3. QED
    BY <1>2, <1>3, <1>5, <2>1, <2>2, TargetIs DEF Calls
<1>6. QED
  BY <1>4, <1>5

\* A target is variadic if its function is, and its own words begin after its name.
LEMMA Classified ==
  ASSUME NEW f \in Decls, classify(f) # "unsupported"
  PROVE  /\ Takes(Statement(targetOf(f))) <=> "...string" \in {f.params[i] : i \in DOMAIN f.params}
         /\ Statement(targetOf(f)).from = Len(Command(f)) + 1
         /\ Statement(targetOf(f)).callee = f
         /\ classify(f) # "func()" => Len(f.results) = 1
<1>1. f.params \in Seq(STRING) /\ f.results \in Seq([type : STRING, names : Nat])
  BY TargetsAssumption
<1>2. /\ Statement(targetOf(f)).form = classify(f) /\ Statement(targetOf(f)).callee = f
      /\ Statement(targetOf(f)).from = IF f.dir = Root THEN 2 ELSE 3
  BY TargetIs DEF Statement
<1>3. Len(Command(f)) = IF f.dir = Root THEN 1 ELSE 2
  BY DEF Command
<1>4. ~(Len(f.results) > 1 \/ (\E i \in DOMAIN f.results : f.results[i].type # "error"))
  BY DEF classify
<1>5. classify(f) = CASE f.params = <<>> /\ ~(Len(f.results) = 1) -> "func()"
               [] f.params = <<>> /\ Len(f.results) = 1 -> "func() error"
               [] f.params = <<"ctx">> /\ Len(f.results) = 1 -> "func(context.Context) error"
               [] f.params = <<"...string">> /\ Len(f.results) = 1 -> "func(...string) error"
               [] f.params = <<"ctx", "...string">> /\ Len(f.results) = 1 ->
                    "func(context.Context, ...string) error"
               [] OTHER -> "unsupported"
  BY <1>4 DEF classify
<1> DEFINE variadic == "...string" \in {f.params[i] : i \in DOMAIN f.params}
<1>6. /\ f.params = <<>> => ~variadic
      /\ f.params = <<"ctx">> => ~variadic
      /\ f.params = <<"...string">> => variadic
      /\ f.params = <<"ctx", "...string">> => variadic
  <2>1. f.params = <<>> => ~variadic
    OBVIOUS
  <2>2. f.params = <<"ctx">> => ~variadic
    OBVIOUS
  <2>3. f.params = <<"...string">> => variadic
    <3> SUFFICES ASSUME f.params = <<"...string">> PROVE variadic
      OBVIOUS
    <3>1. 1 \in DOMAIN f.params /\ f.params[1] = "...string"
      OBVIOUS
    <3>2. QED
      BY <3>1
  <2>4. f.params = <<"ctx", "...string">> => variadic
    <3> SUFFICES ASSUME f.params = <<"ctx", "...string">> PROVE variadic
      OBVIOUS
    <3>1. 2 \in DOMAIN f.params /\ f.params[2] = "...string"
      OBVIOUS
    <3>2. QED
      BY <3>1
  <2>5. QED
    BY <2>1, <2>2, <2>3, <2>4
<1> HIDE DEF variadic
<1>7. /\ f.params = <<>> \/ f.params = <<"ctx">> \/ f.params = <<"...string">> \/ f.params = <<"ctx", "...string">>
      /\ classify(f) # "func()" => Len(f.results) = 1
      /\ classify(f) \in {"func(...string) error", "func(context.Context, ...string) error"}
           <=> f.params = <<"...string">> \/ f.params = <<"ctx", "...string">>
  <2>1. PICK p : p = f.params
    BY Zenon
  <2>2. PICK one \in BOOLEAN : one <=> Len(f.results) = 1
    BY Zenon
  <2>3. <<>> # <<"ctx">> /\ <<>> # <<"...string">> /\ <<>> # <<"ctx", "...string">>
        /\ <<"ctx">> # <<"...string">> /\ <<"ctx">> # <<"ctx", "...string">> /\ <<"...string">> # <<"ctx", "...string">>
    OBVIOUS
  <2>4. QED
    BY <1>5, <2>1, <2>2, <2>3
<1>8. Takes(Statement(targetOf(f))) <=> variadic
  <2>1. Takes(Statement(targetOf(f)))
          <=> classify(f) \in {"func(...string) error", "func(context.Context, ...string) error"}
    BY <1>2 DEF Takes
  <2>2. QED
    BY <1>6, <1>7, <2>1
<1>9. Statement(targetOf(f)).from = Len(Command(f)) + 1
  BY <1>2, <1>3
<1>10. QED
  BY <1>2, <1>7, <1>8, <1>9, Zenon DEF variadic

\* What ran is what was typed, and only that, for every definition and command
\* line: the dispatcher calls the one function the words name, with the rest.
THEOREM TargetsRightTarget == AskSpec => []RightTarget
<1>1. Asked => RightTarget
  <2> SUFFICES ASSUME Asked, answer.kind = "ran" PROVE RightTarget
    BY DEF RightTarget
  <2>1. asked.verb \in {"run", "plan", "list"} /\ answer = AnswerTo(def, asked.verb, asked.words, asked.tty)
    BY DEF Asked, Said
  <2>2. def \in Definitions /\ asked.words \in Seq(Words) /\ asked.tty \in BOOLEAN
    BY DEF Asked
  <2>3. PICK debugging \in BOOLEAN : debugging <=> Has(asked.words, "--debug")
    BY Zenon
  <2>4. Extra(Has(asked.words, "--debug")) = Extra(debugging)
    BY <2>3 DEF Extra
  <2>5. Typed \in Seq(Words) /\ Typed = TypedOf(asked.verb, asked.words)
    BY TypedWords
  <2>6. PICK argv : argv = Typed \o Extra(debugging)
    BY Zenon
  <2>7. discover(def) = "nil" /\ answer = Dispatch(def, argv)
    <3>1. /\ discover(def) = "nil"
          /\ AnswerTo(def, asked.verb, asked.words, asked.tty) =
              Dispatch(def, TypedOf(asked.verb, asked.words) \o Extra(Has(asked.words, "--debug")))
      BY <2>1, <2>2, RanHanded
    <3>2. QED
      BY <2>1, <2>4, <2>5, <2>6, <3>1, Zenon
  <2>8. /\ Strip(def, argv) \in Seq(Words \cup {Sock, Wait})
        /\ (debugging => def.debuggable) => Strip(def, argv) = Typed
        /\ \A t \in Listed(def) : Calls(Strip(def, argv), t) <=> Calls(Typed, t)
    <3>1. PICK T \in Seq(Words) : T = Typed
      BY <2>5, Zenon
    <3>2. argv = T \o Extra(debugging)
      BY <2>6, <3>1, Zenon
    <3>3. /\ Strip(def, argv) \in Seq(Words \cup {Sock, Wait})
          /\ (debugging => def.debuggable) => Strip(def, argv) = T
          /\ \A t \in Listed(def) : Calls(Strip(def, argv), t) <=> Calls(T, t)
      BY <2>2, <3>2, Handed
    <3>4. QED
      BY <3>1, <3>3, Zenon
  <2>9. PICK t \in Listed(def) : /\ Calls(Strip(def, argv), t)
                                /\ answer = Called(Statement(t), Strip(def, argv))
    <3>1. Dispatch(def, argv).kind = "ran"
      BY <2>7
    <3>2. QED
      BY <2>7, <2>8, <3>1, Dispatched
  <2>10. PICK g \in Usable(def) : t = targetOf(g)
    BY <2>2, ListedUsable
  <2>11. g \in Decls /\ classify(g) # "unsupported"
    BY <2>2, ListedUsable
  <2>12. answer.func = g
    BY <2>9, <2>10, <2>11, Classified DEF Called
  <2>13. Calls(Typed, t)
    BY <2>8, <2>9
  <2>14. Names(answer.func)
    BY <2>10, <2>12, <2>13, NamesCalls
  <2>15. ASSUME NEW f \in Visible(def) \ Rejected(def), Names(f) PROVE f = answer.func
    <3>1. targetOf(f) \in Listed(def)
      BY <2>2, ListedUsable DEF Usable
    <3>2. Calls(Typed, targetOf(f))
      BY <2>15, NamesCalls
    <3>3. targetOf(f) = t
      BY <2>2, <2>7, <2>13, <3>1, <3>2, OneName
    <3>4. QED
      BY <2>10, <2>12, <3>3, TargetIs
  <2>16. ASSUME ~(Has(asked.words, "--debug") /\ ~def.debuggable)
         PROVE  answer.args = IF "...string" \in {answer.func.params[i] : i \in DOMAIN answer.func.params}
                              THEN Left(answer.func) ELSE <<>>
    <3>1. Strip(def, argv) = Typed
      BY <2>3, <2>8, <2>16
    <3>2. answer.args = IF Takes(Statement(t)) THEN SubSeq(Typed, Statement(t).from, Len(Typed)) ELSE <<>>
      BY <2>9, <3>1 DEF Called
    <3>3. /\ Takes(Statement(t)) <=> "...string" \in {g.params[i] : i \in DOMAIN g.params}
          /\ Statement(t).from = Len(Command(g)) + 1
      BY <2>10, <2>11, Classified
    <3>4. QED
      BY <2>12, <3>2, <3>3, Zenon DEF Left
  <2>17. QED
    BY <2>14, <2>15, <2>16 DEF RightTarget
<1>2. QED
  BY <1>1, TargetsAsked, PTL

\* The compiler accepts the dispatcher of a regular definition.
LEMMA RegularCompiles ==
  ASSUME NEW d \in Definitions, Regular(d)
  PROVE  FileCompiles(d)
<1>1. ASSUME NEW n \in DOMAIN generate(d), NEW t \in DOMAIN generate(d)[n]
      PROVE  CallCompiles(generate(d)[n][t])
  <2>1. t \in Listed(d) /\ generate(d)[n][t] = Statement(t)
    BY DEF generate
  <2>2. PICK f \in Usable(d) : t = targetOf(f)
    BY <2>1, ListedUsable
  <2>3. f \in Decls /\ classify(f) # "unsupported" /\ f \in Visible(d)
    BY ListedUsable DEF Usable
  <2>4. Statement(t).callee = f /\ Statement(t).form = classify(f)
    BY <2>2, TargetIs DEF Statement
  <2>5. ASSUME classify(f) # "func()" PROVE f.results[1].names <= 1
    <3>1. Len(f.results) = 1 /\ f.results \in Seq([type : STRING, names : Nat])
      BY <2>3, <2>5, Classified, TargetsAssumption
    <3>2. 1 \in DOMAIN f.results
      BY <3>1
    <3>3. QED
      BY <2>3, <3>2 DEF Regular
  <2>6. ~f.generic
    BY <2>3 DEF Regular
  <2>7. QED
    BY <2>1, <2>4, <2>5, <2>6 DEF CallCompiles
<1>2. ASSUME NEW m \in Namespaces(d), NEW n \in Namespaces(d), Alias[m] = Alias[n] PROVE m = n
  <2>1. PICK t \in Listed(d), u \in Listed(d) : m = t.ns /\ n = u.ns
    BY DEF Namespaces
  <2>2. PICK f \in Usable(d), g \in Usable(d) : t = targetOf(f) /\ u = targetOf(g)
    BY ListedUsable
  <2>3. m = f.dir /\ n = g.dir /\ f \in Visible(d) /\ g \in Visible(d)
    BY <2>1, <2>2, TargetIs DEF Usable
  <2>4. QED
    BY <1>2, <2>3 DEF Regular
<1>3. QED
  BY <1>1, <1>2 DEF FileCompiles

\* A complete command is not taken for a namespace of which something is asked.
LEMMA Complete ==
  ASSUME NEW d \in Definitions, discover(d) = "nil", NEW words \in Seq(Words),
         NEW f \in Usable(d), Calls(Without(words, {"--debug"}), targetOf(f)),
         ~(Len(words) > 1 /\ words[2] \in Help /\ f.dir # Root)
  PROVE  /\ words # <<>>
         /\ ~(Fold[words[1]] \in Namespaces(d) /\ (Len(words) = 1 \/ words[2] \in Help))
<1>1. PICK D : D = {"--debug"}
  BY Zenon
<1>2. PICK T \in Seq(Words) : T = Without(words, D)
  BY WithoutThins
<1>3. Thinned(words, T, D)
  BY <1>2, WithoutThins
<1>4. Calls(T, targetOf(f))
  BY <1>1, <1>2
<1>5. Len(T) \in Nat /\ Len(words) \in Nat /\ Len(T) >= 1 /\ Len(T) <= Len(words)
  BY <1>3, <1>4 DEF Thinned, Calls
<1>6. words # <<>>
  BY <1>5
<1>7. ASSUME Fold[words[1]] \in Namespaces(d), Len(words) = 1 \/ words[2] \in Help PROVE FALSE
  <2>1. PICK u \in Listed(d) : Fold[words[1]] = u.ns /\ u.ns # Root
    BY <1>7 DEF Namespaces
  <2>2. words[1] \in Words /\ words[1] \in DOMAIN Fold
    BY <1>6, TargetsAssumption
  <2>3. words[1] \notin Flags
    BY <2>1, <2>2, NoFlag, FlagsAssumption
  <2>4. T[1] = words[1]
    BY <1>1, <1>3, <1>6, <2>3 DEF Thinned, Flags
  <2>5. lower(T[1]) = u.ns
    BY <2>1, <2>2, <2>4 DEF lower
  <2>6. targetOf(f) \in Listed(d)
    BY ListedUsable
  <2>7. f.dir # Root
    <3>1. ~Clashes(Listed(d))
      BY Accepted
    <3>2. QED
      BY <1>4, <2>1, <2>5, <2>6, <3>1, TargetIs DEF Calls, Clashes
  <2>8. Len(T) >= 2
    BY <1>4, <2>7, TargetIs DEF Calls
  <2>9. QED
    BY <1>5, <1>7, <2>7, <2>8
<1>8. QED
  BY <1>6, <1>7

\* A listed command exists: in a regular definition that is accepted, whatever
\* its functions, each one runs when its command is typed.
THEOREM TargetsListedRuns == AskSpec => []ListedRuns
<1>1. Asked => ListedRuns
  <2> SUFFICES ASSUME Asked, Regular(def), discover(def) = "nil", asked.verb \in {"run", "plan"},
                      NEW f \in Visible(def) \ Rejected(def), Names(f),
                      asked.words[1] \notin Help, ~Has(asked.words, "--debug=bad"),
                      asked.tty \/ ~Has(asked.words, "--debug"),
                      ~(Has(asked.words, "--debug") /\ ~def.debuggable),
                      ~(Len(asked.words) > 1 /\ asked.words[2] \in Help /\ f.dir # Root)
               PROVE  answer.kind = "ran" /\ answer.func = f
    BY DEF ListedRuns
  <2>1. PICK words \in Seq(Words) : words = asked.words
    BY DEF Asked
  <2>2. PICK tty \in BOOLEAN : tty = asked.tty
    BY DEF Asked
  <2>3. PICK debugging \in BOOLEAN : debugging <=> Has(words, "--debug")
    BY Zenon
  <2>4. PICK T \in Seq(Words) : T = Typed
    BY TypedWords
  <2>5. T = TypedOf(asked.verb, words) /\ Calls(T, targetOf(f)) /\ T # <<>>
    <3>1. T = TypedOf(asked.verb, words)
      BY <2>1, <2>4, TypedWords
    <3>2. Calls(T, targetOf(f))
      BY <2>4, NamesCalls
    <3>3. T # <<>>
      BY <3>2 DEF Calls
    <3>4. QED
      BY <3>1, <3>2, <3>3
  <2>6. PICK argv : argv = T \o Extra(debugging)
    BY Zenon
  <2>7. def \in Definitions /\ f \in Usable(def) /\ FileCompiles(def)
    BY RegularCompiles DEF Asked, Usable
  <2>8. answer = AnswerTo(def, asked.verb, words, tty)
    BY <2>1, <2>2 DEF Asked
  <2>9. answer = Dispatch(def, argv)
    <3>1. CASE asked.verb = "run"
      <4>1. T = Without(words, {"--debug"})
        BY <2>5, <3>1 DEF TypedOf
      <4>2. /\ words # <<>>
            /\ ~(Fold[words[1]] \in Namespaces(def) /\ (Len(words) = 1 \/ words[2] \in Help))
        BY <2>1, <2>5, <2>7, <4>1, Complete
      <4>3. answer = runTarget(def, words, tty)
        BY <2>1, <2>8, <3>1, <4>2 DEF AnswerTo, Run
      <4>4. runTarget(def, words, tty) = Dispatch(def, Without(words, {"--debug"}) \o Extra(Has(words, "--debug")))
        BY <2>1, <2>2, <2>7, Forwarded
      <4>5. Extra(Has(words, "--debug")) = Extra(debugging)
        BY <2>3 DEF Extra
      <4>6. QED
        BY <2>6, <4>1, <4>3, <4>4, <4>5, Zenon
    <3>2. CASE asked.verb = "plan"
      <4>1. PICK left \in Seq(Words) : left = Without(words, {"--json"})
        BY Planned
      <4>2. T = Without(left, {"--debug"})
        BY <2>5, <3>2, <4>1, Planned
      <4>3. left # <<>>
        BY <2>5, <4>2, WithoutEmpty
      <4>4. words # <<>>
        BY <4>1, <4>3, WithoutEmpty
      <4>5. answer = runTarget(def, left, tty)
        BY <2>1, <2>8, <3>2, <4>1, <4>3, <4>4 DEF AnswerTo, Plan, takeJSONFlag
      <4>6. \A w : w # "--json" => (Has(left, w) <=> Has(words, w))
        BY <4>1, Planned
      <4>7. ~Has(left, "--debug=bad") /\ (Has(left, "--debug") <=> debugging)
        BY <2>1, <2>3, <4>6
      <4>8. runTarget(def, left, tty) = Dispatch(def, Without(left, {"--debug"}) \o Extra(Has(left, "--debug")))
        BY <2>1, <2>2, <2>3, <2>7, <4>7, Forwarded
      <4>9. Extra(Has(left, "--debug")) = Extra(debugging)
        BY <4>7 DEF Extra
      <4>10. QED
        BY <2>6, <4>2, <4>5, <4>8, <4>9, Zenon
    <3>3. QED
      BY <3>1, <3>2
  <2>10. argv # <<>> /\ Strip(def, argv) = T
    <3>1. debugging => def.debuggable
      BY <2>1, <2>3
    <3>2. /\ (debugging => def.debuggable) => Strip(def, argv) = T
          /\ T # <<>> => argv # <<>>
      BY <2>6, <2>7, Handed
    <3>3. QED
      BY <2>5, <3>1, <3>2
  <2>11. targetOf(f) \in Listed(def) /\ Statement(targetOf(f)).callee = f
    BY <2>7, ListedUsable, Classified
  <2>12. Dispatch(def, argv) = Called(Statement(targetOf(f)), T)
    BY <2>5, <2>7, <2>10, <2>11, Reached
  <2>13. QED
    BY <2>9, <2>11, <2>12 DEF Called
<1>2. QED
  BY <1>1, TargetsAsked, PTL
=============================================================================
