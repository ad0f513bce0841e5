---------------------------- MODULE LaunchProofs ----------------------------
(***************************************************************************)
(* Proofs about Launch, for any number of panels and runs, and any number  *)
(* of lives of a PID: what a listing offers and what it sweeps, and that a *)
(* run has one client.                                                     *)
(***************************************************************************)
EXTENDS Launch, TLAPS

\* The types of what the proofs need to know the type of.  A lock file never
\* names a later life than the present one.
Typed ==
    /\ lock \in [Names -> 1 .. MaxLives \cup {None}] /\ life \in [Names -> 1 .. MaxLives]
    /\ \A n \in Names : lock[n] # None => lock[n] <= life[n]
    /\ run \in [Names -> RunPCs] /\ pc \in [Panels -> PanelPCs]
    /\ \A n \in Launchers : run[n] \notin {"advertise", "clear"}
    /\ seen \in [Panels -> SUBSET Names] /\ DOMAIN victim = Panels
    /\ \A t \in Panels : pc[t] \in {"unlock", "attach"} => victim[t] \in Names
    /\ \A t \in Panels : pc[t] \in {"advertise", "clear", "start", "dial", "select", "last"} => t \in Launchers
    /\ listed \in [Panels -> SUBSET Names] /\ DOMAIN dead = Panels
    /\ conn \in [Panels -> Names \cup {None}] /\ DOMAIN first = Panels
    /\ robbed \subseteq Names

\* An advertiser that has written its lock file, or need not any more.
Past(n) ==
    IF n \in Panels
    THEN pc[n] \notin {"off", "judge", "unlock", "unsock", "choose", "attach", "advertise"}
    ELSE run[n] \notin {"off", "build", "advertise"}

\* An advertiser that will not come back in this life.
Gone(n) == IF n \in Panels THEN pc[n] \in {"done", "dead"} ELSE run[n] = "ended"

\* What a listing relies on, of PIDs used once: a lock file, an entry read and an
\* entry about to be removed all belong to somebody past advertising; an entry
\* dead when the listing began, or found not held, is not coming to life.
Listing ==
    /\ \A n \in Names : life[n] = 1 /\ lock[n] # None => Past(n)
    /\ \A t \in Panels : \A n \in seen[t] :
          life[n] = 1 => Past(n) /\ (n \in dead[t] => Gone(n))
    /\ \A t \in Panels : pc[t] = "unlock" /\ life[victim[t]] = 1 =>
          Past(victim[t]) /\ (lock[victim[t]] = None \/ Gone(victim[t]))
    /\ \A t \in Panels : pc[t] = "off" => listed[t] = {}

\* Where a panel has dialled nobody yet, and has launched nothing yet.
Unconnected == {"off", "judge", "unlock", "unsock", "choose", "attach", "advertise",
                "clear", "start", "dial", "select", "last"}
Unstarted == {"off", "judge", "unlock", "unsock", "choose", "attach", "advertise",
              "clear", "start"}
\* A panel that has been sent an event.
Got(t) == first[t] \/ t \in drove

\* An event comes only over a connection, and, in a run's first life, only from
\* a run that has stopped accepting.
Driving ==
    /\ \A t \in Panels : pc[t] \in Unconnected => conn[t] = None /\ ~Got(t)
    /\ \A t \in Launchers : pc[t] \in Unstarted => run[t] = "off"
    /\ \A t \in Panels : Got(t) /\ conn[t] # None /\ life[conn[t]] = 1 =>
          run[conn[t]] \in {"session", "ended"}

-----------------------------------------------------------------------------
\* Advertisers are launchers or runs, never both.
LEMMA Sides ==
  /\ \A n \in Names : n \in Panels <=> n \in Launchers
  /\ \A n \in Names : n \notin Panels <=> n \in Runs
  /\ None \notin Names /\ None \notin Panels /\ Launchers \subseteq Names /\ Launchers \subseteq Panels
BY LaunchAssumption DEF Names

\* The initial states have the types.
LEMMA TypedInit == Init => Typed
BY LaunchAssumption, Sides DEF Init, Typed, RunPCs, PanelPCs

\* The steps of runs and those of panels.
RunTakes(n) == RunStarts(n) \/ Run(n) \/ Recycle(n)
PanelTakes(t) == Lists(t) \/ Opens(t) \/ Waits(t) \/ Reap(t) \/ Driven(t) \/ PanelDies(t)

\* What the step of a run changes.
LEMMA RunSteps ==
  ASSUME Typed, NEW n \in Names, RunTakes(n)
  PROVE  /\ UNCHANGED <<pc, listing, conn, drove>>
         /\ \E l \in RunPCs : run' = [run EXCEPT ![n] = l]
         /\ \/ run[n] = "off" /\ n \in Runs /\ run'[n] = "build" /\ UNCHANGED <<lock, life, first>>
            \/ /\ run[n] = "build" /\ run'[n] = IF n \in Runs THEN "advertise" ELSE "boot"
               /\ UNCHANGED <<lock, life, first>>
            \/ /\ run[n] = "advertise" /\ run'[n] = "clear" /\ UNCHANGED <<life, first>>
               /\ lock' = [lock EXCEPT ![n] = life[n]]
            \/ run[n] = "clear" /\ run'[n] = "boot" /\ UNCHANGED <<lock, life, first>>
            \/ run[n] = "boot" /\ run'[n] = "target" /\ UNCHANGED <<lock, life, first>>
            \/ run[n] = "target" /\ run'[n] = "accept" /\ UNCHANGED <<lock, life, first>>
            \/ run[n] = "accept" /\ run'[n] = "rogue" /\ UNCHANGED <<lock, life, first>>
            \/ /\ run[n] = "accept" /\ run'[n] = "session" /\ UNCHANGED <<lock, life>>
               /\ \E t \in Panels : conn[t] = n /\ first' = [first EXCEPT ![t] = TRUE]
            \/ run[n] # "off" /\ run'[n] = "ended" /\ UNCHANGED <<lock, life, first>>
            \/ /\ run[n] = "ended" /\ run'[n] = "build" /\ n \in Runs /\ life[n] < MaxLives
               /\ life' = [life EXCEPT ![n] = life[n] + 1] /\ UNCHANGED <<lock, first>>
<1>t. run \in [Names -> RunPCs]
  BY DEF Typed
<1> USE DEF RunStep, session, listing, wire, RunPCs
<1>1. CASE RunStarts(n)
  BY <1>1, <1>t DEF RunStarts
<1>2. CASE Built(n) \/ RunAdvertises(n) \/ RunClears(n)
  BY <1>2, <1>t DEF Built, RunAdvertises, RunClears
<1>3. CASE Listen(n)
  BY <1>3, <1>t DEF Listen, Ends
<1>4. CASE NewState(n) \/ AcceptTimesOut(n)
  BY <1>4, <1>t DEF NewState, AcceptTimesOut
<1>5. CASE Accept(n)
  BY <1>5, <1>t DEF Accept
<1>6. CASE RunReturns(n) \/ RunFails(n) \/ ClientLeaves(n)
  BY <1>6, <1>t DEF RunReturns, RunFails, ClientLeaves, Ends
<1>7. CASE Recycle(n)
  BY <1>7, <1>t DEF Recycle
<1>8. QED
  BY <1>1, <1>2, <1>3, <1>4, <1>5, <1>6, <1>7 DEF RunTakes, Run

\* What the step of a panel changes outside its listing.
LEMMA PanelSteps ==
  ASSUME Typed, NEW t \in Panels, PanelTakes(t)
  PROVE  /\ UNCHANGED life
         /\ \E l \in PanelPCs : pc' = [pc EXCEPT ![t] = l]
         /\ \/ pc'[t] = pc[t]
            \/ pc[t] = "off" /\ pc'[t] = "judge"
            \/ pc[t] = "judge" /\ pc'[t] \in {"choose", "unlock"}
            \/ pc[t] = "unlock" /\ pc'[t] = "unsock"
            \/ pc[t] = "unsock" /\ pc'[t] = "judge"
            \/ pc[t] = "choose" /\ pc'[t] \in {"attach", "done"}
            \/ pc[t] = "choose" /\ pc'[t] = "advertise" /\ t \in Launchers
            \/ pc[t] = "attach" /\ pc'[t] \in {"drive", "done"}
            \/ pc[t] = "advertise" /\ pc'[t] = "clear"
            \/ pc[t] = "clear" /\ pc'[t] = "start"
            \/ pc[t] = "start" /\ pc'[t] \in {"dial", "release"}
            \/ pc[t] \in {"dial", "select", "last"} /\ pc'[t] \in {"dial", "select", "last", "first", "status"}
            \/ /\ pc[t] \in {"first", "moment", "status", "drive", "release", "unlink"}
               /\ pc'[t] \in {"moment", "status", "drive", "release", "unlink", "done"}
            \/ pc[t] # "off" /\ pc'[t] = "dead"
         /\ \/ UNCHANGED run
            \/ pc[t] = "start" /\ pc'[t] = "dial" /\ run' = [run EXCEPT ![t] = "build"]
         /\ \/ UNCHANGED lock
            \/ pc[t] = "advertise" /\ pc'[t] = "clear" /\ lock' = [lock EXCEPT ![t] = life[t]]
            \/ pc[t] = "unlock" /\ lock' = [lock EXCEPT ![victim[t]] = None]
            \/ pc[t] = "release" /\ lock' = [lock EXCEPT ![t] = None]
<1>t. pc \in [Panels -> PanelPCs]
  BY DEF Typed
<1>e. pc = [pc EXCEPT ![t] = pc[t]] /\ pc[t] \in PanelPCs
  BY <1>t
<1> USE DEF Goto, End, session, runs, PanelPCs
<1>1. CASE ReadDir(t) \/ Unlock(t) \/ Unsock(t)
  BY <1>1, <1>t DEF ReadDir, Unlock, Unsock
<1>2. CASE Judge(t)
  BY <1>2, <1>t, <1>e DEF Judge
<1>3. CASE Choose(t)
  BY <1>3, <1>t DEF Choose
<1>4. CASE Attach(t)
  BY <1>4, <1>t DEF Attach
<1>5. CASE Advertise(t) \/ Clear(t)
  BY <1>5, <1>t DEF Advertise, Clear
<1>6. CASE Start(t)
  BY <1>6, <1>t DEF Start, RunStep
<1>7. CASE Dial(t) \/ Select(t) \/ LastDial(t)
  BY <1>7, <1>t DEF Dial, Select, LastDial
<1>8. CASE FirstEvent(t) \/ Moment(t) \/ Status(t)
  BY <1>8, <1>t DEF FirstEvent, Moment, Status, Drives
<1>9. CASE Release(t) \/ Unlink(t) \/ PanelDies(t)
  BY <1>9, <1>t DEF Release, Unlink, PanelDies
<1>10. CASE Reap(t)
  BY <1>10, <1>t, <1>e DEF Reap
<1>11. CASE Driven(t)
  BY <1>11, <1>t DEF Driven
<1>12. QED
  BY <1>1, <1>2, <1>3, <1>4, <1>5, <1>6, <1>7, <1>8, <1>9, <1>10, <1>11
  DEF PanelTakes, Lists, Opens, Waits

\* What the step of a panel does to its listing and its connection.
LEMMA PanelKeeps ==
  ASSUME Typed, NEW t \in Panels, PanelTakes(t)
  PROVE  /\ \/ ReadDir(t)
            \/ Judge(t)
            \/ Unlock(t)
            \/ Unsock(t)
            \/ Choose(t)
            \/ Attach(t)
            \/ UNCHANGED listing /\ (pc'[t] \in {"off", "unlock", "attach"} => pc'[t] = pc[t])
         /\ \/ UNCHANGED <<conn, first, drove>>
            \/ /\ pc[t] \in {"attach", "dial", "last"} /\ pc'[t] \in {"drive", "first"}
               /\ \E n \in Names : conn' = [conn EXCEPT ![t] = n]
               /\ UNCHANGED <<first, drove>>
            \/ /\ first[t] /\ UNCHANGED conn
               /\ drove' = drove \cup {t}
               /\ first' \in {first, [first EXCEPT ![t] = FALSE]}
<1>t. pc \in [Panels -> PanelPCs]
  BY DEF Typed
<1> USE DEF Goto, End, wire, Connect
<1>1. CASE ReadDir(t) \/ Unlock(t) \/ Unsock(t) \/ Judge(t) \/ Choose(t)
  BY <1>1 DEF ReadDir, Unlock, Unsock, Judge, Choose
<1>2. CASE Attach(t)
  <2>1. victim[t] \in Names
    BY <1>2 DEF Attach, Typed
  <2>2. QED
    BY <1>2, <1>t, <2>1 DEF Attach

<1>3. CASE Advertise(t) \/ Clear(t) \/ Start(t)
  BY <1>3, <1>t DEF Advertise, Clear, Start
<1>4. CASE Dial(t) \/ LastDial(t)
  <2>1. t \in Names
    BY <1>4, Sides DEF Dial, LastDial, Typed
  <2>2. QED
    BY <1>4, <1>t, <2>1 DEF Dial, LastDial
<1>5. CASE Select(t)
  BY <1>5, <1>t DEF Select
<1>6. CASE FirstEvent(t) \/ Moment(t) \/ Status(t)
  BY <1>6, <1>t DEF FirstEvent, Moment, Status, Drives
<1>7. CASE Release(t) \/ Unlink(t) \/ PanelDies(t)
  BY <1>7, <1>t DEF Release, Unlink, PanelDies
<1>8. CASE Reap(t)
  BY <1>8, <1>t DEF Reap
<1>9. CASE Driven(t)
  BY <1>9, <1>t DEF Driven
<1>10. QED
  BY <1>1, <1>2, <1>3, <1>4, <1>5, <1>6, <1>7, <1>8, <1>9
  DEF PanelTakes, Lists, Opens, Waits

\* Steps of runs keep the types ...
LEMMA TypedRun == ASSUME Typed, NEW n \in Names, RunTakes(n) PROVE Typed'
<1>1. UNCHANGED <<pc, listing, conn>> /\ DOMAIN first' = Panels
  BY RunSteps DEF Typed
<1>2. run' \in [Names -> RunPCs] /\ \A q \in Launchers : run'[q] \notin {"advertise", "clear"}
  <2>1. PICK l \in RunPCs : run' = [run EXCEPT ![n] = l]
    BY RunSteps
  <2>2. n \in Launchers => run'[n] \notin {"advertise", "clear"}
    BY RunSteps, Sides DEF Typed
  <2>3. QED
    BY <2>1, <2>2, Sides DEF Typed
<1>3. /\ lock' \in [Names -> 1 .. MaxLives \cup {None}] /\ life' \in [Names -> 1 .. MaxLives]
      /\ \A q \in Names : lock'[q] # None => lock'[q] <= life'[q]
  <2>1. lock \in [Names -> 1 .. MaxLives \cup {None}] /\ life \in [Names -> 1 .. MaxLives]
        /\ \A q \in Names : lock[q] # None => lock[q] <= life[q]
    BY DEF Typed
  <2>2. MaxLives \in Nat
    BY LaunchAssumption
  <2>3. CASE UNCHANGED <<lock, life>>
    BY <2>1, <2>3
  <2>4. CASE lock' = [lock EXCEPT ![n] = life[n]] /\ UNCHANGED life
    BY <2>1, <2>2, <2>4
  <2>5. CASE life[n] < MaxLives /\ life' = [life EXCEPT ![n] = life[n] + 1] /\ UNCHANGED lock
    <3>1. life' \in [Names -> 1 .. MaxLives]
      BY <2>1, <2>2, <2>5
    <3>2. ASSUME NEW q \in Names, lock[q] # None PROVE lock[q] <= life'[q]
      <4>1. lock[q] \in 1 .. MaxLives /\ life[q] \in 1 .. MaxLives /\ lock[q] <= life[q]
        BY <2>1, <3>2
      <4>2. life'[q] = life[q] \/ life'[q] = life[q] + 1
        BY <2>1, <2>5
      <4>3. QED
        BY <4>1, <4>2, <2>2
    <3>3. QED
      BY <2>1, <2>5, <3>1, <3>2
  <2>6. QED
    BY <2>3, <2>4, <2>5, RunSteps
<1>4. QED
  BY <1>1, <1>2, <1>3 DEF Typed, listing

\* ... and so do those of panels.
LEMMA TypedPanel == ASSUME Typed, NEW t \in Panels, PanelTakes(t) PROVE Typed'
<1>1. pc' \in [Panels -> PanelPCs] /\ UNCHANGED life
      /\ \A u \in Panels \ {t} : pc'[u] = pc[u]
  <2>1. PICK l \in PanelPCs : pc' = [pc EXCEPT ![t] = l]
    BY PanelSteps
  <2>2. QED
    BY <2>1, PanelSteps DEF Typed
<1>2. run' \in [Names -> RunPCs] /\ \A q \in Launchers : run'[q] \notin {"advertise", "clear"}
  BY PanelSteps, Sides DEF Typed, RunPCs
<1>3. /\ lock' \in [Names -> 1 .. MaxLives \cup {None}]
      /\ \A q \in Names : lock'[q] # None => lock'[q] <= life[q]
  <2>1. lock \in [Names -> 1 .. MaxLives \cup {None}] /\ life \in [Names -> 1 .. MaxLives]
        /\ \A q \in Names : lock[q] # None => lock[q] <= life[q]
    BY DEF Typed
  <2>2. PICK q : lock' \in {lock, [lock EXCEPT ![q] = life[q]], [lock EXCEPT ![q] = None]}
    BY PanelSteps
  <2>3. QED
    BY <2>1, <2>2, LaunchAssumption
<1>4. conn' \in [Panels -> Names \cup {None}] /\ DOMAIN first' = Panels
  BY PanelKeeps DEF Typed
<1>5. \A u \in Panels : pc'[u] \in {"advertise", "clear", "start", "dial", "select", "last"} => u \in Launchers
  <2>1. pc'[t] \in {"advertise", "clear", "start", "dial", "select", "last"} => t \in Launchers
    BY PanelSteps DEF Typed
  <2>2. QED
    BY <2>1, <1>1 DEF Typed
<1>6. /\ seen' \in [Panels -> SUBSET Names] /\ DOMAIN victim' = Panels
      /\ listed' \in [Panels -> SUBSET Names] /\ DOMAIN dead' = Panels
      /\ \A u \in Panels : pc'[u] \in {"unlock", "attach"} => victim'[u] \in Names
  <2>t. /\ seen \in [Panels -> SUBSET Names] /\ DOMAIN victim = Panels
        /\ listed \in [Panels -> SUBSET Names] /\ DOMAIN dead = Panels
        /\ \A u \in Panels : pc[u] \in {"unlock", "attach"} => victim[u] \in Names
        /\ pc \in [Panels -> PanelPCs]
    BY DEF Typed
  <2> USE DEF Goto, End
  <2>1. CASE ReadDir(t)
    BY <2>1, <2>t DEF ReadDir
  <2>2. CASE Judge(t)
    BY <2>2, <2>t DEF Judge
  <2>3. CASE Unlock(t) \/ Unsock(t)
    BY <2>3, <2>t DEF Unlock, Unsock
  <2>4. CASE Choose(t)
    BY <2>4, <2>t DEF Choose
  <2>5. CASE Attach(t)
    BY <2>5, <2>t DEF Attach
  <2>6. CASE UNCHANGED listing /\ (pc'[t] \in {"off", "unlock", "attach"} => pc'[t] = pc[t])
    BY <2>6, <2>t, <1>1 DEF listing
  <2>7. QED
    BY <2>1, <2>2, <2>3, <2>4, <2>5, <2>6, PanelKeeps
<1>7. robbed' \subseteq Names
  BY PanelKeeps DEF Typed, ReadDir, Judge, Unlock, Unsock, Choose, Attach, listing
<1>8. QED
  BY <1>1, <1>2, <1>3, <1>4, <1>5, <1>6, <1>7 DEF Typed

\* Every step keeps the types.
LEMMA TypedNext == Typed /\ [Next]_vars => Typed'
<1>1. Typed /\ UNCHANGED vars => Typed'
  BY DEF Typed, vars, session, runs, listing, wire
<1>2. QED
  BY <1>1, TypedRun, TypedPanel DEF Next, RunTakes, PanelTakes

\* The types hold throughout.
LEMMA LaunchTyped == Spec => []Typed
BY TypedInit, TypedNext, PTL DEF Spec

\* Life goes one way: an advertiser that is past a point stays past it until
\* its PID is used again.
LEMMA PastStays ==
  ASSUME Typed, Next, NEW n \in Names, life'[n] = 1
  PROVE  life[n] = 1 /\ (Past(n) => Past(n)') /\ (Gone(n) => Gone(n)')
<1>t. life[n] \in Nat /\ life[n] >= 1 /\ DOMAIN life = Names /\ DOMAIN run = Names /\ DOMAIN pc = Panels
  BY LaunchAssumption DEF Typed
<1>1. ASSUME NEW q \in Names, RunTakes(q)
      PROVE  life[n] = 1 /\ (Past(n) => Past(n)') /\ (Gone(n) => Gone(n)')
  <2>1. life[n] = 1
    BY <1>1, <1>t, RunSteps
  <2>2. pc' = pc /\ (q # n => run'[n] = run[n])
    BY <1>1, <1>t, RunSteps
  <2>3. CASE q # n \/ n \in Panels
    BY <2>1, <2>2, <2>3 DEF Past, Gone
  <2>4. CASE q = n /\ n \notin Panels
    <3>1. ~(run[n] = "ended" /\ run'[n] = "build" /\ life' = [life EXCEPT ![n] = life[n] + 1])
      BY <1>t, <2>1
    <3>2. /\ run[n] \notin {"off", "build", "advertise"} => run'[n] \notin {"off", "build", "advertise"}
          /\ run[n] = "ended" => run'[n] = "ended"
      BY <1>1, <2>4, <3>1, RunSteps
    <3>3. QED
      BY <2>1, <2>4, <3>2 DEF Past, Gone
  <2>5. QED
    BY <2>3, <2>4
<1>2. ASSUME NEW t \in Panels, PanelTakes(t)
      PROVE  life[n] = 1 /\ (Past(n) => Past(n)') /\ (Gone(n) => Gone(n)')
  <2>1. life[n] = 1
    BY <1>2, PanelSteps
  <2>2. CASE n \notin Panels
    <3>1. run'[n] = run[n]
      BY <1>2, <1>t, <2>2, PanelSteps
    <3>2. QED
      BY <2>1, <2>2, <3>1 DEF Past, Gone
  <2>3. CASE n \in Panels
    <3>1. n # t => pc'[n] = pc[n]
      BY <1>2, <1>t, <2>3, PanelSteps
    <3>2. n = t => (Past(n) => Past(n)') /\ (Gone(n) => Gone(n)')
      BY <1>2, <2>3, PanelSteps DEF Past, Gone
    <3>3. QED
      BY <2>1, <2>3, <3>1, <3>2 DEF Past, Gone
  <2>4. QED
    BY <2>2, <2>3
<1>3. QED
  BY <1>1, <1>2 DEF Next, RunTakes, PanelTakes

\* A lock file appears only as its advertiser passes that point.
LEMMA LockMoves ==
  ASSUME Typed, Next, NEW n \in Names
  PROVE  lock'[n] \in {lock[n], None} \/ (~Past(n) /\ Past(n)')
<1>t. DOMAIN lock = Names /\ DOMAIN run = Names
  BY DEF Typed
<1>1. ASSUME NEW q \in Names, RunTakes(q)
      PROVE  lock'[n] \in {lock[n], None} \/ (~Past(n) /\ Past(n)')
  <2>1. UNCHANGED lock \/ (run[q] = "advertise" /\ run'[q] = "clear" /\ lock' = [lock EXCEPT ![q] = life[q]])
    BY <1>1, RunSteps
  <2>2. CASE run[q] = "advertise" /\ run'[q] = "clear" /\ q = n
    <3>1. n \notin Panels
      BY <2>2, Sides DEF Typed
    <3>2. QED
      BY <2>2, <3>1 DEF Past
  <2>3. QED
    BY <1>t, <2>1, <2>2
<1>2. ASSUME NEW t \in Panels, PanelTakes(t)
      PROVE  lock'[n] \in {lock[n], None} \/ (~Past(n) /\ Past(n)')
  <2>1. CASE pc[t] = "advertise" /\ pc'[t] = "clear" /\ t = n
    BY <2>1 DEF Past
  <2>2. QED
    BY <1>2, <1>t, <2>1, PanelSteps
<1>3. QED
  BY <1>1, <1>2 DEF Next, RunTakes, PanelTakes

\* What a panel knows of the directory does not age while it does not list.
LEMMA ListingFrame ==
  ASSUME Typed, Listing, Next, NEW u \in Panels,
         UNCHANGED <<seen[u], dead[u], listed[u]>>,
         pc'[u] \in {"off", "unlock"} => pc'[u] = pc[u] /\ victim'[u] = victim[u]
  PROVE  /\ \A n \in seen'[u] : life'[n] = 1 => Past(n)' /\ (n \in dead'[u] => Gone(n)')
         /\ pc'[u] = "unlock" /\ life'[victim'[u]] = 1 =>
              \E v \in Names : v = victim'[u] /\ Past(v)' /\ (lock'[v] = None \/ Gone(v)')
         /\ pc'[u] = "off" => listed'[u] = {}
<1>1. ASSUME NEW n \in seen'[u], life'[n] = 1 PROVE Past(n)' /\ (n \in dead'[u] => Gone(n)')
  <2>1. n \in seen[u] /\ n \in Names
    BY <1>1 DEF Typed
  <2>2. QED
    BY <1>1, <2>1, PastStays DEF Listing
<1>2. ASSUME pc'[u] = "unlock", life'[victim'[u]] = 1
      PROVE  \E v \in Names : v = victim'[u] /\ Past(v)' /\ (lock'[v] = None \/ Gone(v)')
  <2>1. PICK v \in Names : v = victim[u] /\ v = victim'[u] /\ life'[v] = 1 /\ pc[u] = "unlock"
    BY <1>2 DEF Typed
  <2>2. Past(v) /\ (lock[v] = None \/ Gone(v)) /\ Past(v)' /\ (Gone(v) => Gone(v)')
    BY <2>1, PastStays DEF Listing
  <2>3. lock[v] = None => lock'[v] = None
    BY <2>1, <2>2, LockMoves
  <2>4. QED
    BY <2>1, <2>2, <2>3
<1>3. pc'[u] = "off" => listed'[u] = {}
  BY DEF Listing
<1>4. QED
  BY <1>1, <1>2, <1>3

\* A process that is neither alive nor before its advertisement is gone.
LEMMA DeadIsGone ==
  ASSUME NEW n \in Names, Past(n) PROVE Alive(n) <=> ~Gone(n)
BY DEF Past, Alive, Gone

\* Every step keeps what listings rely on.
LEMMA ListingNext == ASSUME Typed, Listing, Next PROVE Listing'
<1>1. ASSUME NEW n \in Names, life'[n] = 1, lock'[n] # None PROVE Past(n)'
  BY <1>1, LockMoves, PastStays DEF Listing
<1> DEFINE Knows(u) ==
      /\ \A n \in seen'[u] : life'[n] = 1 => Past(n)' /\ (n \in dead'[u] => Gone(n)')
      /\ pc'[u] = "unlock" /\ life'[victim'[u]] = 1 =>
            \E v \in Names : v = victim'[u] /\ Past(v)' /\ (lock'[v] = None \/ Gone(v)')
      /\ pc'[u] = "off" => listed'[u] = {}
<1>2. ASSUME NEW u \in Panels PROVE Knows(u)
  <2>t. /\ DOMAIN pc = Panels /\ DOMAIN seen = Panels /\ DOMAIN victim = Panels
        /\ DOMAIN listed = Panels /\ DOMAIN dead = Panels
    BY DEF Typed
  <2>1. ASSUME NEW q \in Names, RunTakes(q) PROVE Knows(u)
    <3>1. UNCHANGED <<pc, listing>>
      BY <2>1, RunSteps
    <3>2. QED
      BY <3>1, ListingFrame DEF listing
  <2>2. ASSUME NEW t \in Panels, PanelTakes(t), t # u PROVE Knows(u)
    <3>1. UNCHANGED <<pc[u], seen[u], dead[u], listed[u], victim[u]>>
      <4> USE DEF Goto, End, listing
      <4>1. CASE ReadDir(t)
        BY <4>1, <2>2, <2>t DEF ReadDir
      <4>2. CASE Judge(t)
        BY <4>2, <2>2, <2>t DEF Judge
      <4>3. CASE Unlock(t) \/ Unsock(t)
        BY <4>3, <2>2, <2>t DEF Unlock, Unsock
      <4>4. CASE Choose(t)
        BY <4>4, <2>2, <2>t DEF Choose
      <4>5. CASE Attach(t)
        BY <4>5, <2>2, <2>t DEF Attach
      <4>6. CASE UNCHANGED listing
        <5>1. pc'[u] = pc[u]
          BY <2>2, <2>t, PanelSteps
        <5>2. QED
          BY <4>6, <5>1
      <4>7. QED
        BY <2>2, <4>1, <4>2, <4>3, <4>4, <4>5, <4>6, PanelKeeps
    <3>2. QED
      BY <3>1, ListingFrame
  <2>3. CASE PanelTakes(u)
    <3>1. CASE ReadDir(u)
      <4>1. pc'[u] = "judge" /\ UNCHANGED <<lock, life, run>>
        BY <3>1, <2>t DEF ReadDir, Goto, session, runs
      <4>2. ASSUME NEW n \in seen'[u], life'[n] = 1 PROVE Past(n)' /\ (n \in dead'[u] => Gone(n)')
        <5>1. n \in Names /\ lock[n] # None /\ (n \in dead'[u] => ~Alive(n)) /\ life[n] = 1
          BY <3>1, <4>1, <4>2, <2>t DEF ReadDir
        <5>2. Past(n)
          BY <5>1 DEF Listing
        <5>3. QED
          BY <4>2, <5>1, <5>2, DeadIsGone, PastStays
      <4>3. QED
        BY <4>1, <4>2
    <3>2. CASE Judge(u)
      <4>0. /\ UNCHANGED <<lock, life, dead>> /\ seen'[u] \subseteq seen[u]
            /\ pc'[u] \in {"judge", "choose", "unlock"}
            /\ pc'[u] = "unlock" => victim'[u] \in seen[u] /\ ~Held(victim'[u])
        BY <3>2, <2>t DEF Judge, Goto, session
      <4>1. ASSUME NEW n \in seen'[u], life'[n] = 1 PROVE Past(n)' /\ (n \in dead'[u] => Gone(n)')
        <5>1. n \in seen[u] /\ n \in Names
          BY <4>0, <4>1 DEF Typed
        <5>2. QED
          BY <4>0, <4>1, <5>1, PastStays DEF Listing
      <4>2. ASSUME pc'[u] = "unlock", life'[victim'[u]] = 1
            PROVE  \E v \in Names : v = victim'[u] /\ Past(v)' /\ (lock'[v] = None \/ Gone(v)')
        <5>1. PICK v \in Names : v = victim'[u] /\ v \in seen[u] /\ ~Held(v) /\ life[v] = 1 /\ life'[v] = 1
          BY <4>0, <4>2 DEF Typed
        <5>2. Past(v)
          BY <5>1 DEF Listing
        <5>3. lock[v] # None => lock[v] = life[v]
          <6>1. lock[v] # None => lock[v] \in 1 .. MaxLives /\ lock[v] <= 1
            BY <5>1 DEF Typed
          <6>2. QED
            BY <5>1, <6>1, LaunchAssumption
        <5>4. lock[v] = None \/ Gone(v)
          BY <5>1, <5>2, <5>3, DeadIsGone DEF Held
        <5>5. QED
          BY <4>0, <5>1, <5>2, <5>4, PastStays
      <4>3. QED
        BY <4>0, <4>1, <4>2
    <3>3. CASE Unlock(u) \/ Unsock(u) \/ Attach(u)
      <4>1. UNCHANGED <<seen[u], dead[u], listed[u]>> /\ pc'[u] \notin {"off", "unlock"}
        BY <3>3, <2>t DEF Unlock, Unsock, Attach, Goto, End
      <4>2. QED
        BY <4>1, ListingFrame
    <3>4. CASE Choose(u)
      <4>1. UNCHANGED seen /\ dead'[u] = {} /\ listed'[u] = {} /\ pc'[u] \notin {"off", "unlock"}
        BY <3>4, <2>t DEF Choose, Goto, End
      <4>2. ASSUME NEW n \in seen'[u], life'[n] = 1 PROVE Past(n)'
        <5>1. n \in seen[u] /\ n \in Names
          BY <4>1, <4>2 DEF Typed
        <5>2. QED
          BY <4>2, <5>1, PastStays DEF Listing
      <4>3. QED
        BY <4>1, <4>2
    <3>5. CASE UNCHANGED listing /\ (pc'[u] \in {"off", "unlock", "attach"} => pc'[u] = pc[u])
      BY <3>5, ListingFrame DEF listing
    <3>6. QED
      BY <2>3, <3>1, <3>2, <3>3, <3>4, <3>5, PanelKeeps
  <2>4. QED
    BY <2>1, <2>2, <2>3 DEF Next, RunTakes, PanelTakes
<1>3. ASSUME NEW u \in Panels, (pc[u] = "unlock" /\ life[victim[u]] = 1)'
      PROVE  (Past(victim[u]) /\ (lock[victim[u]] = None \/ Gone(victim[u])))'
  <2>1. PICK v \in Names : v = victim'[u] /\ Past(v)' /\ (lock'[v] = None \/ Gone(v)')
    BY <1>2, <1>3
  <2>2. QED
    BY <2>1 DEF Past, Gone
<1>4. QED
  BY <1>1, <1>2, <1>3 DEF Listing

\* Every step keeps ListsTheLiving, given what listings rely on.
LEMMA LivingNext == ASSUME Typed, Listing, ListsTheLiving, Next PROVE ListsTheLiving'
<1>l. \A n \in Names : life[n] \in Nat /\ life[n] >= 1 /\ life'[n] \in {life[n], life[n] + 1}
  <2>1. life \in [Names -> 1 .. MaxLives]
    BY DEF Typed
  <2>2. \A n \in Names : life'[n] \in {life[n], life[n] + 1}
    BY <2>1, RunSteps, PanelSteps DEF Next, RunTakes, PanelTakes
  <2>3. QED
    BY <2>1, <2>2, LaunchAssumption
<1>t. /\ DOMAIN pc = Panels /\ listed \in [Panels -> SUBSET Names] /\ DOMAIN dead = Panels
      /\ seen \in [Panels -> SUBSET Names]
  BY DEF Typed
<1>1. ASSUME NEW u \in Panels, NEW n \in listed'[u], life'[n] = 1 PROVE n \notin dead'[u]
  <2>1. CASE listed'[u] = listed[u] /\ dead'[u] = dead[u]
    <3>1. n \in Names /\ n \in listed[u]
      BY <1>1, <1>t, <2>1
    <3>2. life[n] = 1
      BY <1>l, <1>1, <3>1
    <3>3. QED
      BY <2>1, <3>1, <3>2 DEF ListsTheLiving
  <2>2. CASE ReadDir(u)
    BY <2>2, <1>1 DEF ReadDir, Listing
  <2>3. CASE Judge(u)
    <3>1. dead' = dead /\ life' = life
      BY <2>3 DEF Judge, session
    <3>2. CASE n \in listed[u]
      BY <3>1, <3>2, <1>1 DEF ListsTheLiving
    <3>3. CASE n \notin listed[u]
      <4>1. n \in seen[u] /\ Held(n) /\ n \in Names
        BY <2>3, <3>3, <1>1, <1>t DEF Judge
      <4>2. Past(n) /\ (n \in dead[u] => Gone(n))
        BY <3>1, <4>1, <1>1 DEF Listing
      <4>3. QED
        BY <3>1, <4>1, <4>2, DeadIsGone DEF Held
    <3>4. QED
      BY <3>2, <3>3
  <2>4. CASE Choose(u)
    BY <2>4, <1>1, <1>t DEF Choose
  <2>5. (listed'[u] = listed[u] /\ dead'[u] = dead[u]) \/ ReadDir(u) \/ Judge(u) \/ Choose(u)
    <3>1. ASSUME NEW q \in Names, RunTakes(q) PROVE UNCHANGED <<listed, dead>>
      BY <3>1, RunSteps DEF listing
    <3>2. ASSUME NEW t \in Panels, PanelTakes(t), ~ReadDir(u), ~Judge(u), ~Choose(u)
          PROVE  listed'[u] = listed[u] /\ dead'[u] = dead[u]
      <4>1. CASE ReadDir(t) \/ Judge(t) \/ Choose(t)
        <5>1. t # u
          BY <3>2, <4>1
        <5>2. QED
          BY <4>1, <5>1, <1>t DEF ReadDir, Judge, Choose
      <4>2. CASE Unlock(t) \/ Unsock(t) \/ Attach(t) \/ UNCHANGED listing
        BY <4>2 DEF Unlock, Unsock, Attach, listing
      <4>3. QED
        BY <3>2, <4>1, <4>2, PanelKeeps
    <3>3. QED
      BY <3>1, <3>2 DEF Next, RunTakes, PanelTakes
  <2>6. QED
    BY <2>1, <2>2, <2>3, <2>4, <2>5
<1>2. ASSUME NEW n \in robbed' PROVE life'[n] > 1
  <2>1. CASE n \in robbed
    <3>1. life[n] > 1
      BY <2>1 DEF ListsTheLiving
    <3>2. n \in Names
      BY <2>1 DEF Typed
    <3>3. QED
      BY <3>1, <3>2, <1>l
  <2>2. CASE n \notin robbed
    <3>1. PICK t \in Panels : Unlock(t)
      <4>1. ASSUME NEW q \in Names, RunTakes(q) PROVE UNCHANGED robbed
        BY <4>1, RunSteps DEF listing
      <4>2. ASSUME NEW t \in Panels, PanelTakes(t), ~Unlock(t) PROVE UNCHANGED robbed
        BY <4>2, PanelKeeps DEF ReadDir, Judge, Unsock, Choose, Attach, listing
      <4>3. QED
        BY <1>2, <2>2, <4>1, <4>2 DEF Next, RunTakes, PanelTakes
    <3>2. n = victim[t] /\ lock[n] = life[n] /\ Alive(n) /\ pc[t] = "unlock" /\ life' = life
      BY <1>2, <2>2, <3>1 DEF Unlock
    <3>3. n \in Names
      BY <3>2 DEF Typed
    <3>4. life[n] # 1
      <4>1. SUFFICES ASSUME life[n] = 1 PROVE FALSE
        OBVIOUS
      <4>2. Past(n) /\ (lock[n] = None \/ Gone(n))
        BY <4>1, <3>2 DEF Listing
      <4>3. lock[n] # None
        BY <3>2, <3>3, LaunchAssumption DEF Typed
      <4>4. QED
        BY <3>2, <3>3, <4>2, <4>3, DeadIsGone
    <3>5. QED
      BY <1>l, <3>2, <3>3, <3>4
  <2>3. QED
    BY <2>1, <2>2
<1>3. QED
  BY <1>1, <1>2 DEF ListsTheLiving

\* session.List, though it reads, judges, unlocks and unlinks in separate steps
\* while advertisers come, release and die: as long as a PID is used once, it
\* never offers a session that was dead when it began, and it never removes the
\* lock of a live one.
THEOREM LaunchListsTheLiving == Spec => []ListsTheLiving
<1>1. Init => Listing /\ ListsTheLiving
  BY DEF Init, Listing, ListsTheLiving
<1>2. Typed /\ Listing /\ ListsTheLiving /\ [Next]_vars => (Listing /\ ListsTheLiving)'
  <2>1. Listing /\ ListsTheLiving /\ UNCHANGED vars => (Listing /\ ListsTheLiving)'
    BY DEF Listing, ListsTheLiving, Past, Gone, vars, session, runs, listing
  <2>2. QED
    BY <2>1, ListingNext, LivingNext
<1>3. QED
  BY <1>1, <1>2, LaunchTyped, PTL DEF Spec

-----------------------------------------------------------------------------
\* Who has been given an event, and by which step.
LEMMA GotMoves ==
  ASSUME Typed, Next, NEW t \in Panels
  PROVE  /\ Got(t) => Got(t)'
         /\ Got(t)' => Got(t) \/ (/\ conn[t] \in Names /\ RunTakes(conn[t]) /\ UNCHANGED <<conn, life>>
                                  /\ run[conn[t]] = "accept" /\ run'[conn[t]] = "session"
                                  /\ \A u \in Panels \ {t} : Got(u)' => Got(u))
<1>t. DOMAIN first = Panels
  BY DEF Typed
<1> DEFINE Claim ==
      /\ Got(t) => Got(t)'
      /\ Got(t)' => Got(t) \/ (/\ conn[t] \in Names /\ RunTakes(conn[t]) /\ UNCHANGED <<conn, life>>
                               /\ run[conn[t]] = "accept" /\ run'[conn[t]] = "session"
                               /\ \A u \in Panels \ {t} : Got(u)' => Got(u))
<1>1. ASSUME NEW n \in Names, RunTakes(n) PROVE Claim
  <2>1. UNCHANGED <<conn, drove>>
    BY <1>1, RunSteps
  <2>2. CASE UNCHANGED first
    BY <2>1, <2>2, Zenon DEF Got
  <2>3. CASE ~UNCHANGED first
    <3>1. /\ run[n] = "accept" /\ run'[n] = "session" /\ UNCHANGED life
          /\ \E q \in Panels : conn[q] = n /\ first' = [first EXCEPT ![q] = TRUE]
      BY <1>1, <2>3, RunSteps
    <3>2. PICK q \in Panels : conn[q] = n /\ first' = [first EXCEPT ![q] = TRUE]
      BY <3>1
    <3>3. first'[q] = TRUE /\ \A u \in Panels \ {q} : first'[u] = first[u]
      BY <3>2, <1>t
    <3>4. Got(q)'
      BY <3>3 DEF Got
    <3>5. \A u \in Panels \ {q} : Got(u)' <=> Got(u)
      BY <3>3, <2>1, Zenon DEF Got
    <3>6. QED
      BY <1>1, <2>1, <3>1, <3>2, <3>4, <3>5
  <2>4. QED
    BY <2>2, <2>3
<1>2. ASSUME NEW q \in Panels, PanelTakes(q) PROVE Got(t)' <=> Got(t)
  <2>1. CASE UNCHANGED <<first, drove>>
    BY <2>1, Zenon DEF Got
  <2>2. CASE first[q] /\ drove' = drove \cup {q} /\ first' \in {first, [first EXCEPT ![q] = FALSE]}
    <3>1. t # q => first'[t] = first[t] /\ (t \in drove' <=> t \in drove)
      BY <2>2, <1>t
    <3>2. t = q => Got(t) /\ Got(t)'
      BY <2>2 DEF Got
    <3>3. t # q => (Got(t)' <=> Got(t))
      BY <3>1, Zenon DEF Got
    <3>4. QED
      BY <3>2, <3>3
  <2>3. QED
    BY <1>2, <2>1, <2>2, PanelKeeps
<1>3. QED
  BY <1>1, <1>2 DEF Next, RunTakes, PanelTakes

\* A run in its first life that leaves its session has ended.
LEMMA ServedStays ==
  ASSUME Typed, Driving, Next, NEW n \in Names, life'[n] = 1, run[n] \in {"session", "ended"}
  PROVE  life[n] = 1 /\ run'[n] \in {"session", "ended"}
<1>t. life[n] \in Nat /\ life[n] >= 1 /\ DOMAIN life = Names /\ DOMAIN run = Names
  BY LaunchAssumption DEF Typed
<1>1. ASSUME NEW q \in Names, RunTakes(q) PROVE life[n] = 1 /\ run'[n] \in {"session", "ended"}
  <2>1. life[n] = 1
    BY <1>1, <1>t, RunSteps
  <2>2. CASE q # n
    BY <1>1, <1>t, <2>1, <2>2, RunSteps
  <2>3. CASE q = n
    <3>1. ~(life' = [life EXCEPT ![n] = life[n] + 1])
      BY <1>t, <2>1
    <3>2. QED
      BY <1>1, <2>1, <2>3, <3>1, RunSteps
  <2>4. QED
    BY <2>2, <2>3
<1>2. ASSUME NEW t \in Panels, PanelTakes(t) PROVE life[n] = 1 /\ run'[n] \in {"session", "ended"}
  <2>1. life' = life
    BY <1>2, PanelSteps
  <2>2. pc[t] = "start" /\ n = t => run[n] = "off"
    BY Sides DEF Driving, Unstarted
  <2>3. QED
    BY <1>2, <1>t, <2>1, <2>2, PanelSteps
<1>3. QED
  BY <1>1, <1>2 DEF Next, RunTakes, PanelTakes


\* A panel connects once, and nobody gives it an event by that.
LEMMA ConnMoves ==
  ASSUME Typed, Next, NEW t \in Panels
  PROVE  \/ conn'[t] = conn[t]
         \/ /\ pc[t] \in {"attach", "dial", "last"} /\ pc'[t] \in {"drive", "first"}
            /\ conn'[t] \in Names /\ (Got(t)' <=> Got(t))
<1>t. conn \in [Panels -> Names \cup {None}]
  BY DEF Typed
<1>1. ASSUME NEW q \in Names, RunTakes(q) PROVE conn' = conn
  BY <1>1, RunSteps
<1>2. ASSUME NEW q \in Panels, PanelTakes(q)
      PROVE  \/ conn'[t] = conn[t]
             \/ /\ pc[t] \in {"attach", "dial", "last"} /\ pc'[t] \in {"drive", "first"}
                /\ conn'[t] \in Names /\ (Got(t)' <=> Got(t))
  <2>1. CASE conn' = conn
    BY <2>1
  <2>2. CASE /\ pc[q] \in {"attach", "dial", "last"} /\ pc'[q] \in {"drive", "first"}
             /\ \E n \in Names : conn' = [conn EXCEPT ![q] = n]
             /\ UNCHANGED <<first, drove>>
    <3>1. Got(t)' <=> Got(t)
      BY <2>2, Zenon DEF Got
    <3>2. QED
      BY <2>2, <3>1, <1>t
  <2>3. QED
    BY <1>2, <2>1, <2>2, PanelKeeps
<1>3. QED
  BY <1>1, <1>2 DEF Next, RunTakes, PanelTakes

\* Every step keeps it that only one who was accepted has events.
LEMMA DrivingNext == ASSUME Typed, Driving, Next PROVE Driving'
<1>t. DOMAIN pc = Panels /\ conn \in [Panels -> Names \cup {None}] /\ DOMAIN run = Names
  BY DEF Typed
<1>p. ASSUME NEW t \in Panels
      PROVE  /\ pc'[t] \in Unconnected => pc[t] \in Unconnected
             /\ pc'[t] \in Unstarted => pc[t] \in Unstarted
  <2>1. ASSUME NEW q \in Names, RunTakes(q) PROVE pc' = pc
    BY <2>1, RunSteps
  <2>2. ASSUME NEW q \in Panels, PanelTakes(q), q # t PROVE pc'[t] = pc[t]
    BY <2>2, <1>t, PanelSteps
  <2>3. CASE PanelTakes(t)
    BY <2>3, PanelSteps DEF Unconnected, Unstarted
  <2>4. QED
    BY <2>1, <2>2, <2>3 DEF Next, RunTakes, PanelTakes
<1>1. ASSUME NEW t \in Panels, pc'[t] \in Unconnected PROVE conn'[t] = None /\ ~Got(t)'
  <2>1. conn[t] = None /\ ~Got(t)
    BY <1>1, <1>p DEF Driving
  <2>2. conn'[t] = conn[t]
    BY <1>1, ConnMoves DEF Unconnected
  <2>3. ~Got(t)'
    BY <2>1, GotMoves, Sides
  <2>4. QED
    BY <2>1, <2>2, <2>3
<1>2. ASSUME NEW t \in Launchers, pc'[t] \in Unstarted PROVE run'[t] = "off"
  <2>0. t \in Panels /\ t \in Names /\ t \notin Runs
    BY Sides, LaunchAssumption
  <2>1. run[t] = "off"
    BY <1>2, <2>0, <1>p DEF Driving
  <2>2. ASSUME NEW q \in Names, RunTakes(q) PROVE run'[t] = "off"
    <3>1. q # t
      BY <2>0, <2>1, <2>2, RunSteps
    <3>2. QED
      BY <2>0, <2>1, <2>2, <3>1, <1>t, RunSteps
  <2>3. ASSUME NEW q \in Panels, PanelTakes(q) PROVE run'[t] = "off"
    <3>1. pc'[q] = "dial" => q # t
      BY <1>2 DEF Unstarted
    <3>2. QED
      BY <2>0, <2>1, <2>3, <3>1, <1>t, PanelSteps
  <2>4. QED
    BY <2>2, <2>3 DEF Next, RunTakes, PanelTakes
<1>3. ASSUME NEW t \in Panels, Got(t)', conn'[t] # None, life'[conn'[t]] = 1
      PROVE  run'[conn'[t]] \in {"session", "ended"}
  <2>1. CASE Got(t)
    <3>1. conn'[t] = conn[t]
      BY <2>1, ConnMoves DEF Driving, Unconnected
    <3>2. PICK n \in Names : n = conn[t]
      BY <1>3, <1>t, <3>1
    <3>3. life'[n] = 1
      BY <1>3, <3>1, <3>2
    <3>4. life[n] = 1
      BY <3>3, PastStays
    <3>5. run[n] \in {"session", "ended"}
      BY <1>3, <2>1, <3>1, <3>2, <3>4 DEF Driving
    <3>6. run'[n] \in {"session", "ended"}
      BY <3>3, <3>5, ServedStays
    <3>7. QED
      BY <3>1, <3>2, <3>6
  <2>2. CASE ~Got(t)
    BY <1>3, <2>2, GotMoves
  <2>3. QED
    BY <2>1, <2>2
<1>4. QED
  <2>1. \A t \in Panels : (pc[t] \in Unconnected => conn[t] = None /\ ~Got(t))'
    BY <1>1
  <2>2. \A t \in Launchers : (pc[t] \in Unstarted => run[t] = "off")'
    BY <1>2
  <2>3. \A t \in Panels : (Got(t) /\ conn[t] # None /\ life[conn[t]] = 1 =>
                              run[conn[t]] \in {"session", "ended"})'
    BY <1>3
  <2>4. QED
    BY <2>1, <2>2, <2>3, Zenon DEF Driving

\* Every step keeps OneDriver.
LEMMA OneNext == ASSUME Typed, Driving, OneDriver, Next PROVE OneDriver'
<1> SUFFICES ASSUME NEW t \in Panels, NEW u \in Panels, t # u, conn'[t] = conn'[u],
                    conn'[t] # None, life'[conn'[t]] = 1, Got(t)', Got(u)'
             PROVE  FALSE
  BY Zenon DEF OneDriver, Got
<1>t. conn \in [Panels -> Names \cup {None}]
  BY DEF Typed

<1>k. ASSUME NEW q \in Panels, Got(q) PROVE conn'[q] = conn[q]
  BY <1>k, ConnMoves DEF Driving, Unconnected
<1>1. CASE Got(t) /\ Got(u)
  <2>1. conn'[t] = conn[t] /\ conn'[u] = conn[u]
    BY <1>1, <1>k
  <2>2. PICK n \in Names : n = conn[t]
    BY <1>t, <2>1
  <2>3. life'[n] = 1
    BY <2>1, <2>2
  <2>4. life[n] = 1
    BY <2>3, PastStays
  <2>5. conn[t] = conn[u] /\ conn[t] # None /\ life[conn[t]] = 1
    BY <2>1, <2>2, <2>4
  <2>6. QED
    BY <1>1, <2>5, Zenon DEF OneDriver, Got
<1>2. ASSUME NEW a \in Panels, NEW b \in Panels, a # b, conn'[a] = conn'[b], conn'[a] # None,
             life'[conn'[a]] = 1, Got(a)', Got(b)', ~Got(a)
      PROVE  FALSE
  <2>1. /\ UNCHANGED <<conn, life>> /\ run[conn[a]] = "accept" /\ Got(b)
    BY <1>2, GotMoves
  <2>2. conn[b] = conn[a] /\ conn[b] # None /\ life[conn[b]] = 1
    BY <1>2, <2>1
  <2>3. run[conn[b]] \in {"session", "ended"}
    BY <2>1, <2>2 DEF Driving
  <2>4. QED
    BY <2>1, <2>2, <2>3
<1>3. life'[conn'[u]] = 1 /\ conn'[u] # None
  OBVIOUS
<1>4. CASE ~Got(t)
  BY <1>2, <1>4, Zenon
<1>5. CASE ~Got(u)
  BY <1>2, <1>3, <1>5, Zenon
<1>6. QED
  BY <1>1, <1>4, <1>5

\* "Exactly one client per session" (serve.go's Accept closes the listener at
\* once): however many panels find and dial one run, at most one of them is ever
\* sent an event by it.
THEOREM LaunchOneDriver == Spec => []OneDriver
<1>1. Init => Driving /\ OneDriver
  BY Sides DEF Init, Driving, OneDriver, Got
<1>2. Typed /\ Driving /\ OneDriver /\ [Next]_vars => (Driving /\ OneDriver)'
  <2>1. Driving /\ OneDriver /\ UNCHANGED vars => (Driving /\ OneDriver)'
    BY DEF Driving, OneDriver, Got, vars, session, runs, wire
  <2>2. QED
    BY <2>1, DrivingNext, OneNext
<1>3. QED
  BY <1>1, <1>2, LaunchTyped, PTL DEF Spec
=============================================================================
