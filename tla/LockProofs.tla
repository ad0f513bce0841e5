----------------------------- MODULE LockProofs -----------------------------
(***************************************************************************)
(* Proofs about Lock, for any processes on any hosts and any number of     *)
(* claims: its type invariant, and the two facts its exclusion rests on.   *)
(***************************************************************************)
EXTENDS Lock, TLAPS

-----------------------------------------------------------------------------
\* Every variable keeps its type: the steps of Acquire, Release, a crash, a
\* recycled PID and the passing of time leave the state well formed.
THEOREM LockTypeCorrect == Spec => []TypeOK
<1>1. Init => TypeOK
  <2> SUFFICES ASSUME Init PROVE TypeOK
    OBVIOUS
  <2>1. breach \in BOOLEAN
    BY Zenon DEF Init
  <2>2. QED
    BY <2>1 DEF Init, TypeOK, PC
<1>2. TypeOK /\ [Next]_vars => TypeOK'
  <2> SUFFICES ASSUME TypeOK, [Next]_vars PROVE TypeOK'
    OBVIOUS
  <2> USE DEF TypeOK, PC, Goto
  <2>1. ASSUME NEW p \in Proc, Acquire(p) PROVE TypeOK'
    BY <2>1 DEF Acquire
  <2>2. ASSUME NEW p \in Proc, CreateExclusive(p) PROVE TypeOK'
    <3>1. NewClaim(p) \in Claim
      BY DEF NewClaim, Claim
    <3>2. QED
      BY <2>2, <3>1 DEF CreateExclusive, Free, Takes
  <2>3. ASSUME NEW p \in Proc, Read(p) PROVE TypeOK'
    BY <2>3 DEF Read, AfterRead
  <2>4. ASSUME NEW p \in Proc, Judge(p) PROVE TypeOK'
    <3>1. \E l \in {"poll", "idle", "steal"} : Goto(p, l)
      BY <2>4 DEF Judge, Refuse
    <3>2. QED
      BY <2>4, <3>1 DEF Judge
  <2>5. ASSUME NEW p \in Proc, Steal(p) PROVE TypeOK'
    <3>1. NewClaim(p) \in Claim
      BY DEF NewClaim, Claim
    <3>2. QED
      BY <2>5, <3>1 DEF Steal, Takes
  <2>6. ASSUME NEW p \in Proc, Poll(p) PROVE TypeOK'
    BY <2>6 DEF Poll
  <2>7. ASSUME NEW p \in Proc, GiveUp(p) PROVE TypeOK'
    BY <2>7 DEF GiveUp
  <2>8. ASSUME NEW p \in Proc, Drop(p) PROVE TypeOK'
    BY <2>8 DEF Drop, Release, RelRead, RelRemove
  <2>9. ASSUME NEW p \in Proc, Crash(p) PROVE TypeOK'
    BY <2>9 DEF Crash
  <2>10. ASSUME NEW q \in Proc, RecyclePID(q) PROVE TypeOK'
    BY <2>10 DEF RecyclePID
  <2>11. CASE Age
    BY <2>11 DEF Age
  <2>12. CASE UNCHANGED vars
    BY <2>12 DEF vars
  <2>13. QED
    BY <2>1, <2>2, <2>3, <2>4, <2>5, <2>6, <2>7, <2>8, <2>9, <2>10, <2>11, <2>12
    DEF Next, Attempt
<1>3. QED
  BY <1>1, <1>2, PTL DEF Spec

-----------------------------------------------------------------------------
\* A claim is neither a missing nor a damaged file.
LEMMA ClaimIsAttributed == None \notin Claim /\ Corrupt \notin Claim
  BY DEF None, Corrupt, Claim

\* Two claims are equal only if one process wrote both.
LEMMA MineNamesOwner ==
  ASSUME NEW p \in Proc, TypeOK
  PROVE  Mine(p) \in Claim /\ Mine(p).owner = p
  BY DEF Mine, Claim, TypeOK

\* Installing a claim where no live process holds the lock keeps the holder
\* unique and named.
LEMMA TakesKeepsSole ==
  ASSUME NEW p \in Proc, TypeOK, Takes(p),
         \A q \in Proc : pc[q] \notin Holding
  PROVE  \A q \in Proc : pc'[q] \in Holding => file' = Mine(q)'
<1> SUFFICES ASSUME NEW q \in Proc, pc'[q] \in Holding PROVE file' = Mine(q)'
  OBVIOUS
<1>1. q = p
  BY DEF Takes, Goto, TypeOK
<1>2. claims'[p] = claims[p] + 1
  BY DEF Takes, TypeOK
<1>3. QED
  BY <1>1, <1>2 DEF Takes, Mine, NewClaim

\* Exclusion up to a breach (SoleHolderNamed): only a steal that replaced
\* something other than the dead claim it judged can add a second holder.
THEOREM LockExclusion == Spec => []SoleHolderNamed
<1> USE DEF Holding
<1>1. Init => SoleHolderNamed
  BY DEF Init, SoleHolderNamed
<1>2. TypeOK /\ SoleHolderNamed /\ [Next]_vars => SoleHolderNamed'
  <2> SUFFICES ASSUME TypeOK, SoleHolderNamed, [Next]_vars, ~breach'
               PROVE  \A q \in Proc : pc'[q] \in Holding => file' = Mine(q)'
    BY DEF SoleHolderNamed
  <2>0. ~breach
    BY Zenon DEF Next, vars, Acquire, Attempt, CreateExclusive, Read, Judge, Steal, Poll,
          GiveUp, Drop, Release, RelRead, RelRemove, Crash, RecyclePID, Age
  <2>s. \A q \in Proc : pc[q] \in Holding => file = Mine(q)
    BY <2>0 DEF SoleHolderNamed
  \* A step that moves one process without making it a holder, and leaves the
  \* file and the claims alone.
  <2>m. ASSUME NEW p \in Proc, NEW l \in PC, Goto(p, l),
               l \in Holding => pc[p] \in Holding, UNCHANGED <<file, claims>>
        PROVE  \A q \in Proc : pc'[q] \in Holding => file' = Mine(q)'
    BY <2>m, <2>s DEF Goto, Mine, TypeOK
  <2>1. ASSUME NEW p \in Proc, Acquire(p)
        PROVE  \A q \in Proc : pc'[q] \in Holding => file' = Mine(q)'
    BY <2>1, <2>m DEF Acquire, PC
  <2>2. ASSUME NEW p \in Proc, CreateExclusive(p)
        PROVE  \A q \in Proc : pc'[q] \in Holding => file' = Mine(q)'
    <3>1. CASE file = None /\ Takes(p)
      <4>1. \A q \in Proc : pc[q] \notin Holding
        BY <3>1, <2>s, MineNamesOwner, ClaimIsAttributed
      <4>2. QED
        BY <3>1, <4>1, TakesKeepsSole
    <3>2. CASE file # None /\ Goto(p, "read") /\ UNCHANGED <<file, claims>>
      BY <3>2, <2>m DEF PC
    <3>3. QED
      BY <2>2, <3>1, <3>2 DEF CreateExclusive, Free
  <2>3. ASSUME NEW p \in Proc, Read(p)
        PROVE  \A q \in Proc : pc'[q] \in Holding => file' = Mine(q)'
    BY <2>3, <2>m DEF Read, AfterRead, PC
  <2>4. ASSUME NEW p \in Proc, Judge(p)
        PROVE  \A q \in Proc : pc'[q] \in Holding => file' = Mine(q)'
    <3>1. \E l \in {"poll", "idle", "steal"} : Goto(p, l)
      BY <2>4 DEF Judge, Refuse
    <3>2. QED
      BY <2>4, <3>1, <2>m DEF Judge, PC
  <2>5. ASSUME NEW p \in Proc, Steal(p)
        PROVE  \A q \in Proc : pc'[q] \in Holding => file' = Mine(q)'
    \* The file holds no claim, or a dead process's: nobody holds the lock.
    <3>1. file \in Claim => Dead(file.owner)
      BY <2>5 DEF Steal
    <3>2. \A q \in Proc : pc[q] \notin Holding
      BY <3>1, <2>s, MineNamesOwner DEF Dead
    <3>3. QED
      BY <2>5, <3>2, TakesKeepsSole DEF Steal
  <2>6. ASSUME NEW p \in Proc, Poll(p)
        PROVE  \A q \in Proc : pc'[q] \in Holding => file' = Mine(q)'
    BY <2>6, <2>m DEF Poll, PC
  <2>7. ASSUME NEW p \in Proc, GiveUp(p)
        PROVE  \A q \in Proc : pc'[q] \in Holding => file' = Mine(q)'
    BY <2>7, <2>m DEF GiveUp, PC
  <2>8. ASSUME NEW p \in Proc, Release(p)
        PROVE  \A q \in Proc : pc'[q] \in Holding => file' = Mine(q)'
    BY <2>8, <2>m DEF Release, PC
  <2>9. ASSUME NEW p \in Proc, RelRead(p)
        PROVE  \A q \in Proc : pc'[q] \in Holding => file' = Mine(q)'
    BY <2>9, <2>m DEF RelRead, PC
  <2>10. ASSUME NEW p \in Proc, RelRemove(p)
         PROVE  \A q \in Proc : pc'[q] \in Holding => file' = Mine(q)'
    \* p was the only holder, and no longer is one.
    <3>1. \A q \in Proc : pc[q] \in Holding => q = p
      BY <2>10, <2>s, MineNamesOwner DEF RelRemove
    <3>2. \A q \in Proc : pc'[q] \notin Holding
      BY <2>10, <3>1 DEF RelRemove, Goto, TypeOK
    <3>3. QED
      BY <3>2
  <2>11. ASSUME NEW p \in Proc, Crash(p)
         PROVE  \A q \in Proc : pc'[q] \in Holding => file' = Mine(q)'
    BY <2>11, <2>m DEF Crash, PC
  <2>12. ASSUME NEW p \in Proc, RecyclePID(p)
         PROVE  \A q \in Proc : pc'[q] \in Holding => file' = Mine(q)'
    BY <2>12, <2>s DEF RecyclePID, Mine
  <2>13. CASE Age
    BY <2>13, <2>s DEF Age, Mine
  <2>14. CASE UNCHANGED vars
    BY <2>14, <2>s DEF vars, Mine
  <2>15. QED
    BY <2>1, <2>2, <2>3, <2>4, <2>5, <2>6, <2>7, <2>8, <2>9, <2>10, <2>11, <2>12, <2>13,
       <2>14 DEF Next, Attempt, Drop
<1>3. QED
  BY <1>1, <1>2, LockTypeCorrect, PTL DEF Spec

-----------------------------------------------------------------------------
\* Death is final: no step brings a process back.
LEMMA DeadStaysDead ==
  ASSUME TypeOK, [Next]_vars, NEW q \in Proc, Dead(q)
  PROVE  Dead(q)'
<1> USE DEF Dead, Goto, TypeOK
<1>1. ASSUME NEW p \in Proc, Acquire(p) \/ Attempt(p) \/ GiveUp(p) \/ Drop(p) \/ Crash(p)
      PROVE  Dead(q)'
  <2>1. pc[p] # "dead"
    BY <1>1 DEF Acquire, Attempt, CreateExclusive, Read, Judge, Steal, Poll, GiveUp,
                Drop, Release, RelRead, RelRemove, Crash
  <2>2. \E l : Goto(p, l)
    BY <1>1 DEF Acquire, Attempt, CreateExclusive, Takes, Read, Judge, Refuse, Steal, Poll,
                GiveUp, Drop, Release, RelRead, RelRemove, Crash
  <2>3. QED
    BY <2>1, <2>2
<1>2. QED
  BY <1>1 DEF Next, RecyclePID, Age, vars

\* A same-host claim about to be stolen belongs to a dead process: alive()
\* never lets a live holder of this machine be judged away, and the verdict
\* cannot go stale, because death is final.
THEOREM LockStaleMeansDead == Spec => []StaleMeansDead
<1>1. Init => StaleMeansDead
  BY DEF Init, StaleMeansDead
<1>2. TypeOK /\ StaleMeansDead /\ [Next]_vars => StaleMeansDead'
  <2> SUFFICES ASSUME TypeOK, StaleMeansDead, [Next]_vars, NEW p \in Proc,
                      pc'[p] = "steal", seen'[p] \in Claim,
                      HostOf[seen'[p].owner] = HostOf[p]
               PROVE  pc'[seen'[p].owner] = "dead"
    BY DEF StaleMeansDead, Dead
  <2>c. seen'[p].owner \in Proc
    BY DEF Claim
  \* p was already there, with the same view.
  <2>1. CASE pc[p] = "steal" /\ seen'[p] = seen[p]
    BY <2>1, <2>c, DeadStaysDead DEF StaleMeansDead, Dead
  <2>2. CASE Judge(p)
    <3>1. seen'[p] = seen[p]
      BY <2>2 DEF Judge
    <3>2. Dead(seen[p].owner)
      <4>1. PICK alive \in Alive(p, seen[p].owner) :
               IF alive \/ Honoured(p, seen[p]) THEN Refuse(p) ELSE Goto(p, "steal")
        BY <2>2 DEF Judge
      <4>2. ~alive
        BY <4>1 DEF Refuse, Goto, TypeOK
      <4>3. alive = (~Dead(seen[p].owner)
                       \/ (seen[p].owner \in lingers /\ ~Verifiable))
        BY <4>1, <3>1 DEF Alive
      <4>4. QED
        BY <4>2, <4>3
    <3>3. QED
      BY <3>1, <3>2, <2>c, DeadStaysDead DEF Dead
  <2>3. CASE ~Judge(p) /\ ~(pc[p] = "steal" /\ seen'[p] = seen[p])
    \* Read goes straight to steal only for a file that names nobody.
    <3>1. ~Read(p)
      BY DEF Read, AfterRead, Goto, TypeOK
    <3>2. seen'[p] = seen[p] /\ pc'[p] = pc[p]
      <4>1. ASSUME NEW q \in Proc, Acquire(q) \/ Attempt(q) \/ GiveUp(q) \/ Drop(q) \/ Crash(q)
            PROVE  seen'[p] = seen[p] /\ pc'[p] = pc[p]
        <5>1. CASE q = p
          BY <5>1, <4>1, <3>1, <2>3 DEF Acquire, Attempt, CreateExclusive, Takes, Steal,
             Poll, GiveUp, Drop, Release, RelRead, RelRemove, Crash, Goto, TypeOK
        <5>2. CASE q # p
          <6>1. \E l : Goto(q, l)
            BY <4>1 DEF Acquire, Attempt, CreateExclusive, Takes, Read, Judge, Refuse, Steal,
               Poll, GiveUp, Drop, Release, RelRead, RelRemove, Crash
          <6>2. seen'[p] = seen[p]
            BY <5>2, <4>1 DEF Acquire, Attempt, CreateExclusive, Read, Judge, Steal,
               Poll, GiveUp, Drop, Release, RelRead, RelRemove, Crash, TypeOK
          <6>3. QED
            BY <5>2, <6>1, <6>2 DEF Goto, TypeOK
        <5>3. QED
          BY <5>1, <5>2
      <4>2. QED
        BY <4>1 DEF Next, RecyclePID, Age, vars
    <3>3. QED
      BY <3>2, <2>3
  <2>4. QED
    BY <2>1, <2>2, <2>3
<1>3. QED
  BY <1>1, <1>2, LockTypeCorrect, PTL DEF Spec
=============================================================================
