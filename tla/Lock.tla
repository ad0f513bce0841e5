-------------------------------- MODULE Lock --------------------------------
(***************************************************************************)
(* kit/lock: a single-instance guard backed by one file.  Processes, on    *)
(* one or several hosts sharing the file's directory, call Acquire and     *)
(* Release; every file-system call and every liveness check is a step of   *)
(* its own, because another process may act between any two of them.  A    *)
(* process may die at any step and its PID may be taken by another program.*)
(***************************************************************************)
EXTENDS Naturals

CONSTANTS
    Proc,        \* processes: one PID with one start time, on one host
    Host, HostOf,
    Waits,       \* the processes that pass the Wait option
    Verifiable,  \* LivenessVerifiable(): ps reports process start times
    StaleAfter,  \* staleAfter > 0
    MaxClaims    \* bound: claims one process takes (the code has none)

ASSUME HostAssumption == HostOf \in [Proc -> Host]
ASSUME LockAssumption ==
    Waits \subseteq Proc /\ Verifiable \in BOOLEAN /\ StaleAfter \in BOOLEAN /\ MaxClaims \in Nat

(* A lock file's Info: who wrote it (PID, start time and host) and, for    *)
(* Since, which of that process's claims it is.                            *)
Claim == [owner: Proc, since: Nat]

\* No file, and a file Read cannot attribute to anyone.
None    == [missing |-> TRUE]
Corrupt == [damaged |-> TRUE]

VARIABLES
    file,     \* the lock file's content
    pc,       \* where each process is in Acquire or Release
    seen,     \* what each process's Read returned
    claims,   \* claims each process has taken
    lingers,  \* dead processes whose PID answers again
    old,      \* claims older than staleAfter
    breach    \* history: a steal replaced something other than a dead claim

vars == <<file, pc, seen, claims, lingers, old, breach>>

Dead(q) == pc[q] = "dead"
Mine(p) == [owner |-> p, since |-> claims[p]]
NewClaim(p) == [owner |-> p, since |-> claims[p] + 1]

Init ==
    /\ file \in {None, Corrupt}
    /\ pc = [p \in Proc |-> "idle"]
    /\ seen = [p \in Proc |-> None]
    /\ claims = [p \in Proc |-> 0]
    /\ lingers = {} /\ old = {} /\ breach = FALSE

Goto(p, l) == pc' = [pc EXCEPT ![p] = l]

\* Mutant: existence alone decides, start times are not compared.
AliveByPID(p, q) ==
    IF HostOf[p] # HostOf[q] THEN {FALSE} ELSE {~Dead(q) \/ q \in lingers}

\* Mutant: a claim past staleAfter counts as dead before liveness is asked.
AliveUntilAged(p, q) ==
    IF HostOf[p] # HostOf[q] THEN {FALSE}
    ELSE {~Dead(q) /\ \A c \in old : c.owner # q}

\* alive(holder), as process p's host answers it for process q.
Alive(p, q) ==
    IF HostOf[p] # HostOf[q]
    THEN IF Verifiable THEN {FALSE} ELSE BOOLEAN
    ELSE {~Dead(q) \/ (q \in lingers /\ ~Verifiable)}

-----------------------------------------------------------------------------
(* Acquire.                                                                 *)

Acquire(p) ==
    /\ pc[p] = "idle" /\ claims[p] < MaxClaims
    /\ Goto(p, "link")
    /\ UNCHANGED <<file, seen, claims, lingers, old, breach>>

\* The claim is in place: tryAcquire returns the Lock.
Takes(p) ==
    /\ file' = NewClaim(p)
    /\ claims' = [claims EXCEPT ![p] = @ + 1]
    /\ Goto(p, "held")

\* Mutant: the claim is renamed into place, not linked.
FreeAlways == TRUE

\* The link succeeds: no file of that name exists.
Free == file = None

\* createExclusive: the hard link appears with its content or fails.
CreateExclusive(p) ==
    /\ pc[p] = "link"
    /\ \/ Free /\ Takes(p)
       \/ ~Free /\ Goto(p, "read") /\ UNCHANGED <<file, claims>>
    /\ UNCHANGED <<seen, lingers, old, breach>>

\* A missing or damaged file is an error, and judged stale at once.
AfterRead(f) == IF f \in Claim THEN "judge" ELSE "steal"

Read(p) ==
    /\ pc[p] = "read"
    /\ seen' = [seen EXCEPT ![p] = file]
    /\ Goto(p, AfterRead(file))
    /\ UNCHANGED <<file, claims, lingers, old, breach>>

\* ErrHeld: returned, or waited out.
Refuse(p) == Goto(p, IF p \in Waits THEN "poll" ELSE "idle")

\* Another machine's claim is honoured until it ages out.
Honoured(p, c) == StaleAfter /\ c \notin old /\ HostOf[c.owner] # HostOf[p]

Judge(p) ==
    /\ pc[p] = "judge"
    /\ \E alive \in Alive(p, seen[p].owner) :
           IF alive \/ Honoured(p, seen[p]) THEN Refuse(p) ELSE Goto(p, "steal")
    /\ UNCHANGED <<file, seen, claims, lingers, old, breach>>

\* steal: WriteAtomic renames the new claim over whatever is there now.
Steal(p) ==
    /\ pc[p] = "steal"
    /\ Takes(p)
    /\ breach' = (breach \/ file # seen[p] \/ (file \in Claim /\ ~Dead(file.owner)))
    /\ UNCHANGED <<seen, lingers, old>>

\* pollInterval has passed.
Poll(p) ==
    /\ pc[p] = "poll"
    /\ Goto(p, "link")
    /\ UNCHANGED <<file, seen, claims, lingers, old, breach>>

\* The wait's deadline passes or ctx is cancelled; or MkdirAll, the temporary
\* file, the link or the rename fails.
GiveUp(p) ==
    /\ pc[p] \in {"poll", "link", "steal"}
    /\ Goto(p, "idle")
    /\ UNCHANGED <<file, seen, claims, lingers, old, breach>>

-----------------------------------------------------------------------------
(* Release.                                                                 *)

Release(p) ==
    /\ pc[p] = "held"
    /\ Goto(p, "relread")
    /\ UNCHANGED <<file, seen, claims, lingers, old, breach>>

\* Only a file that reads as someone else's claim is left alone.
RelRead(p) ==
    /\ pc[p] = "relread"
    /\ Goto(p, IF file \in Claim /\ file # Mine(p) THEN "idle" ELSE "relremove")
    /\ UNCHANGED <<file, seen, claims, lingers, old, breach>>

\* os.Remove; when it fails the Lock is released all the same.
RelRemove(p) ==
    /\ pc[p] = "relremove"
    /\ file' \in {None, file}
    /\ Goto(p, "idle")
    /\ UNCHANGED <<seen, claims, lingers, old, breach>>

-----------------------------------------------------------------------------
(* The environment.                                                         *)

Crash(p) ==
    /\ ~Dead(p)
    /\ Goto(p, "dead")
    /\ UNCHANGED <<file, seen, claims, lingers, old, breach>>

\* An unrelated process inherits a dead one's PID.
RecyclePID(q) ==
    /\ Dead(q) /\ q \notin lingers
    /\ lingers' = lingers \cup {q}
    /\ UNCHANGED <<file, pc, seen, claims, old, breach>>

\* The claim in the file passes staleAfter.
Age ==
    /\ file \in Claim /\ file \notin old
    /\ old' = old \cup {file}
    /\ UNCHANGED <<file, pc, seen, claims, lingers, breach>>

Attempt(p) == CreateExclusive(p) \/ Read(p) \/ Judge(p) \/ Steal(p) \/ Poll(p)
Drop(p) == Release(p) \/ RelRead(p) \/ RelRemove(p)

Next ==
    \/ \E p \in Proc :
           Acquire(p) \/ Attempt(p) \/ GiveUp(p) \/ Drop(p) \/ Crash(p) \/ RecyclePID(p)
    \/ Age

Spec == Init /\ [][Next]_vars

\* A running process goes on with the Acquire it has begun.
FairSpec == Spec /\ \A p \in Proc : WF_vars(Attempt(p))

-----------------------------------------------------------------------------
(* Properties.                                                              *)

PC == {"idle", "link", "read", "judge", "steal", "poll", "held", "relread", "relremove", "dead"}
Holding == {"held", "relread", "relremove"}

\* Every variable keeps its type; only a claim is judged.
TypeOK ==
    /\ file \in Claim \cup {None, Corrupt}
    /\ pc \in [Proc -> PC]
    /\ seen \in [Proc -> Claim \cup {None, Corrupt}]
    /\ claims \in [Proc -> Nat]
    /\ lingers \subseteq Proc /\ old \subseteq Claim /\ breach \in BOOLEAN
    /\ \A p \in Proc : pc[p] = "judge" => seen[p] \in Claim

\* The guard: two processes never both hold the lock.
MutualExclusion == \A p, q \in Proc : pc[p] = "held" /\ pc[q] = "held" => p = q

\* The lock admits one holder at a time, and the file names it until its own
\* Release removes it, as long as every steal replaced exactly the dead claim
\* it had judged: neither the link, nor Release, nor a crash at any step, nor a
\* recycled PID can put a second holder beside the first.
SoleHolderNamed ==
    ~breach => \A p \in Proc : pc[p] \in Holding => file = Mine(p)

\* "Only remove the file if it is still ours": no Release strips a live holder
\* of its claim.
ReleaseSparesOthers ==
    [][\A p \in Proc :
          pc[p] = "relremove" /\ pc'[p] = "idle" /\ file' # file /\ file \in Claim
              => file = Mine(p) \/ Dead(file.owner)]_vars

\* A claim judged stale on its own host belongs to a process that is dead, and
\* still is at the rename: a live holder is never judged away there, however
\* old its claim.
StaleMeansDead ==
    \A p \in Proc :
        /\ pc[p] = "steal" /\ seen[p] \in Claim
        /\ HostOf[seen[p].owner] = HostOf[p]
        => Dead(seen[p].owner)

\* One crash never wedges the tool: a process that waits for a dead holder on
\* its own host sees the claim replaced or removed, unless it stops waiting.
CrashNeverWedges ==
    \A p \in Proc, c \in [owner: Proc, since: 1..MaxClaims] :
        (/\ pc[p] = "poll" /\ file = c
         /\ Dead(c.owner) /\ HostOf[c.owner] = HostOf[p])
        ~> (file # c \/ pc[p] \in {"idle", "dead"})
=============================================================================
