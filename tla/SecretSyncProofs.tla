-------------------------- MODULE SecretSyncProofs --------------------------
(***************************************************************************)
(* For any keys, any desired and reserved sets, any number of writes by    *)
(* others, whatever fails and wherever the context ends: a dry run changes *)
(* nothing, the Report names everything that changed, and a nil error      *)
(* means that the store agrees.                                            *)
(***************************************************************************)
EXTENDS SecretSync, TLAPS

\* The desired keys the loop is through with.
Visited == (desired \ todo) \ (IF pc = "set" THEN {key} ELSE {})

\* Where the loop is.
Place ==
    /\ todo \subseteq desired
    /\ pc = "provision" => todo = desired
    /\ pc = "set" => key \in (desired \ reserved) \ todo
    /\ pc \in {"list", "prune", "finish"} \/ err \in {"nil", "incomplete", "list"} => todo = {}
    /\ pc \in {"list", "prune"} => opts.prune
    /\ pc # "done" => err = "none"
    /\ pc # "prune" => live = {}

\* The Report is the loop's outcomes for the keys it is through with, each once,
\* and prune's for others.
Outcome ==
    /\ report.Set \subseteq Visited /\ report.Unchanged \subseteq Visited
    /\ report.Skipped \subseteq Visited /\ report.Failed \cap desired \subseteq Visited
    /\ Visited \subseteq report.Set \cup report.Unchanged \cup report.Skipped \cup report.Failed
    /\ report.Set \cap report.Unchanged = {} /\ report.Set \cap report.Skipped = {}
    /\ report.Set \cap report.Failed = {} /\ report.Unchanged \cap report.Skipped = {}
    /\ report.Unchanged \cap report.Failed = {} /\ report.Skipped \cap report.Failed = {}
    /\ report.Skipped \subseteq reserved

Pruned ==
    /\ report.Deleted \cap desired = {} /\ report.Deleted \cap report.Failed = {}
    /\ report.Deleted \cap live = {} /\ report.Failed \cap live \subseteq desired
    /\ pc \in {"provision", "keys", "set", "list"} =>
            report.Deleted = {} /\ report.Failed \subseteq desired

\* What was changed, and where it is reported.
Changed ==
    /\ wrote \subseteq report.Set \cup report.Failed
    /\ deleted \subseteq report.Deleted \cup report.Failed

\* What the store holds of the keys nobody else wrote.
Held ==
    ~opts.dryRun =>
        \A k \in Keys \ (reserved \cup meddled) :
            /\ k \in report.Set \cup report.Unchanged => store[k] = "wanted"
            /\ (/\ opts.prune /\ k \notin desired /\ k \notin live /\ k \notin report.Failed
                /\ pc \in {"prune", "finish"} \/ err = "nil") => store[k] = "absent"
Clean == err = "nil" => report.Failed = {}

Inv == /\ TypeOK /\ Place /\ Outcome /\ Pruned /\ Changed /\ OnlyWhatWasAsked
       /\ Held /\ Clean
-----------------------------------------------------------------------------
\* The initial state.
LEMMA InitInv == Init => Inv
BY SecretAssumption DEF Init, Inv, TypeOK, Place, Outcome, Pruned, Changed, OnlyWhatWasAsked, Held, Clean,
   Visited, Empty, Options, Stored, Errors

\* Provision keeps the invariant.
LEMMA ProvisionInv ==
  ASSUME Inv, Provision
  PROVE  Inv'
<1> USE DEF Provision, Return, Goto, input, hist
<1>1. TypeOK'
  BY DEF Inv, TypeOK, Place, Options, Errors, Stored
<1>2. Place'
  BY DEF Inv, TypeOK, Place
<1>3. Outcome'
  BY DEF Inv, TypeOK, Place, Outcome, Visited, Pruned
<1>4. Pruned'
  BY DEF Inv, TypeOK, Place, Pruned, Outcome, Visited
<1>5. Changed' /\ OnlyWhatWasAsked'
  BY DEF Inv, TypeOK, Place, Changed, OnlyWhatWasAsked
<1>6. Held' /\ Clean'
  BY DEF Inv, TypeOK, Place, Held, Clean, Outcome, Visited, Pruned, Stored
<1>7. QED
  BY <1>1, <1>2, <1>3, <1>4, <1>5, <1>6 DEF Inv

\* A Comparer that says a value is already correct has compared it.
LEMMA SameSays == ASSUME NEW k \in Keys, TRUE \in Same(k) PROVE store[k] = "wanted"
BY DEF Same

\* Visit keeps the invariant.
LEMMA VisitInv ==
  ASSUME NEW k \in Keys, Inv, Visit(k)
  PROVE  Inv'
<1> USE DEF Return, Goto, Report
<1>1. pc = "keys" /\ k \in todo /\ UNCHANGED <<opts, desired, reserved, store, cancelled, live,
                                              meddled, meddling, wrote, deleted>>
  BY DEF Visit, input, hist
<1>2. CASE Return("cancelled") /\ UNCHANGED <<todo, key, report>>
  <2> USE <1>1, <1>2
  <2>1. TypeOK'
    BY DEF Inv, TypeOK, Errors
  <2>2. Place'
    BY DEF Inv, TypeOK, Place
  <2>3. Outcome'
    BY DEF Inv, TypeOK, Outcome, Place, Visited
  <2>4. Pruned' /\ Changed' /\ OnlyWhatWasAsked'
    BY DEF Inv, TypeOK, Pruned, Changed, OnlyWhatWasAsked, Place
  <2>5. Held' /\ Clean'
    BY DEF Inv, TypeOK, Held, Clean, Place
  <2>6. QED
    BY <2>1, <2>2, <2>3, <2>4, <2>5 DEF Inv
<1>3. CASE k \in reserved /\ todo' = todo \ {k} /\ Report("Skipped", k) /\ Goto("keys") /\ UNCHANGED key
  <2> USE <1>1, <1>3
  <2>1. TypeOK'
    BY DEF Inv, TypeOK, Errors
  <2>2. Place'
    BY DEF Inv, TypeOK, Place
  <2>3. Outcome'
    BY DEF Inv, TypeOK, Outcome, Place, Visited
  <2>4. Pruned' /\ Changed' /\ OnlyWhatWasAsked'
    BY DEF Inv, TypeOK, Pruned, Changed, OnlyWhatWasAsked, Place
  <2>5. Held' /\ Clean'
    BY DEF Inv, TypeOK, Held, Clean, Place
  <2>6. QED
    BY <2>1, <2>2, <2>3, <2>4, <2>5 DEF Inv
<1>4. CASE /\ k \notin reserved /\ TRUE \in Same(k) /\ todo' = todo \ {k} /\ Report("Unchanged", k)
           /\ Goto("keys") /\ UNCHANGED key
  <2> USE <1>1, <1>4
  <2>1. TypeOK'
    BY DEF Inv, TypeOK, Errors
  <2>2. Place'
    BY DEF Inv, TypeOK, Place
  <2>3. Outcome'
    BY DEF Inv, TypeOK, Outcome, Place, Visited
  <2>4. Pruned' /\ Changed' /\ OnlyWhatWasAsked'
    BY DEF Inv, TypeOK, Pruned, Changed, OnlyWhatWasAsked, Place
  <2>5. Held' /\ Clean'
    BY SameSays DEF Inv, TypeOK, Held, Clean, Place
  <2>6. QED
    BY <2>1, <2>2, <2>3, <2>4, <2>5 DEF Inv
<1>5. CASE k \notin reserved /\ todo' = todo \ {k} /\ key' = k /\ Goto("set") /\ UNCHANGED report
  <2> USE <1>1, <1>5
  <2>1. TypeOK'
    BY DEF Inv, TypeOK, Errors
  <2>2. Place'
    BY DEF Inv, TypeOK, Place
  <2>3. Outcome'
    BY DEF Inv, TypeOK, Outcome, Place, Visited
  <2>4. Pruned' /\ Changed' /\ OnlyWhatWasAsked'
    BY DEF Inv, TypeOK, Pruned, Changed, OnlyWhatWasAsked, Place
  <2>5. Held' /\ Clean'
    BY DEF Inv, TypeOK, Held, Clean, Place
  <2>6. QED
    BY <2>1, <2>2, <2>3, <2>4, <2>5 DEF Inv
<1>6. QED
  BY <1>2, <1>3, <1>4, <1>5 DEF Visit

\* Set keeps the invariant.
LEMMA SetInv ==
  ASSUME Inv, Set
  PROVE  Inv'
<1> USE DEF Set, Goto, Report, Takes, input, hist
<1>1. TypeOK'
  BY DEF Inv, TypeOK, Place, Options, Errors, Stored
<1>2. Place'
  BY DEF Inv, TypeOK, Place
<1>3. Outcome'
  BY DEF Inv, TypeOK, Place, Outcome, Visited, Pruned
<1>4. Pruned'
  BY DEF Inv, TypeOK, Place, Pruned, Outcome, Visited
<1>5. Changed' /\ OnlyWhatWasAsked'
  BY DEF Inv, TypeOK, Place, Changed, OnlyWhatWasAsked
<1>6. Held' /\ Clean'
  BY DEF Inv, TypeOK, Place, Held, Clean, Outcome, Visited, Pruned, Stored
<1>7. QED
  BY <1>1, <1>2, <1>3, <1>4, <1>5, <1>6 DEF Inv

\* LoopEnds keeps the invariant.
LEMMA LoopEndsInv ==
  ASSUME Inv, LoopEnds
  PROVE  Inv'
<1> USE DEF LoopEnds, Goto, input, hist
<1>1. TypeOK'
  BY DEF Inv, TypeOK, Place, Options, Errors, Stored
<1>2. Place'
  BY DEF Inv, TypeOK, Place
<1>3. Outcome'
  BY DEF Inv, TypeOK, Place, Outcome, Visited, Pruned
<1>4. Pruned'
  BY DEF Inv, TypeOK, Place, Pruned, Outcome, Visited
<1>5. Changed' /\ OnlyWhatWasAsked'
  BY DEF Inv, TypeOK, Place, Changed, OnlyWhatWasAsked
<1>6. Held' /\ Clean'
  BY DEF Inv, TypeOK, Place, Held, Clean, Outcome, Visited, Pruned, Stored
<1>7. QED
  BY <1>1, <1>2, <1>3, <1>4, <1>5, <1>6 DEF Inv

\* List keeps the invariant.
LEMMA ListInv ==
  ASSUME Inv, List
  PROVE  Inv'
<1> USE DEF List, Return, Goto, input, hist
<1>1. TypeOK'
  BY DEF Inv, TypeOK, Place, Options, Errors, Stored
<1>2. Place'
  BY DEF Inv, TypeOK, Place
<1>3. Outcome'
  BY DEF Inv, TypeOK, Place, Outcome, Visited, Pruned
<1>4. Pruned'
  BY DEF Inv, TypeOK, Place, Pruned, Outcome, Visited
<1>5. Changed' /\ OnlyWhatWasAsked'
  BY DEF Inv, TypeOK, Place, Changed, OnlyWhatWasAsked
<1>6. Held' /\ Clean'
  BY DEF Inv, TypeOK, Place, Held, Clean, Outcome, Visited, Pruned, Stored
<1>7. QED
  BY <1>1, <1>2, <1>3, <1>4, <1>5, <1>6 DEF Inv

\* Prune keeps the invariant.
LEMMA PruneInv ==
  ASSUME NEW k \in Keys, Inv, Prune(k)
  PROVE  Inv'
<1> USE DEF Prune, Report, Goes, Spared, input, hist
<1>1. TypeOK'
  BY DEF Inv, TypeOK, Place, Options, Errors, Stored
<1>2. Place'
  BY DEF Inv, TypeOK, Place
<1>3. Outcome'
  BY DEF Inv, TypeOK, Place, Outcome, Visited, Pruned
<1>4. Pruned'
  BY DEF Inv, TypeOK, Place, Pruned, Outcome, Visited
<1>5. Changed' /\ OnlyWhatWasAsked'
  BY DEF Inv, TypeOK, Place, Changed, OnlyWhatWasAsked
<1>6. Held' /\ Clean'
  BY DEF Inv, TypeOK, Place, Held, Clean, Outcome, Visited, Pruned, Stored
<1>7. QED
  BY <1>1, <1>2, <1>3, <1>4, <1>5, <1>6 DEF Inv

\* PruneEnds keeps the invariant.
LEMMA PruneEndsInv ==
  ASSUME Inv, PruneEnds
  PROVE  Inv'
<1> USE DEF PruneEnds, Goto, input, hist
<1>1. TypeOK'
  BY DEF Inv, TypeOK, Place, Options, Errors, Stored
<1>2. Place'
  BY DEF Inv, TypeOK, Place
<1>3. Outcome'
  BY DEF Inv, TypeOK, Place, Outcome, Visited, Pruned
<1>4. Pruned'
  BY DEF Inv, TypeOK, Place, Pruned, Outcome, Visited
<1>5. Changed' /\ OnlyWhatWasAsked'
  BY DEF Inv, TypeOK, Place, Changed, OnlyWhatWasAsked
<1>6. Held' /\ Clean'
  BY DEF Inv, TypeOK, Place, Held, Clean, Outcome, Visited, Pruned, Stored
<1>7. QED
  BY <1>1, <1>2, <1>3, <1>4, <1>5, <1>6 DEF Inv

\* Finish keeps the invariant.
LEMMA FinishInv ==
  ASSUME Inv, Finish
  PROVE  Inv'
<1> USE DEF Finish, Return, input, hist
<1>1. TypeOK'
  BY DEF Inv, TypeOK, Place, Options, Errors, Stored
<1>2. Place'
  BY DEF Inv, TypeOK, Place
<1>3. Outcome'
  BY DEF Inv, TypeOK, Place, Outcome, Visited, Pruned
<1>4. Pruned'
  BY DEF Inv, TypeOK, Place, Pruned, Outcome, Visited
<1>5. Changed' /\ OnlyWhatWasAsked'
  BY DEF Inv, TypeOK, Place, Changed, OnlyWhatWasAsked
<1>6. Held' /\ Clean'
  BY DEF Inv, TypeOK, Place, Held, Clean, Outcome, Visited, Pruned, Stored
<1>7. QED
  BY <1>1, <1>2, <1>3, <1>4, <1>5, <1>6 DEF Inv

\* Cancel keeps the invariant.
LEMMA CancelInv ==
  ASSUME Inv, Cancel
  PROVE  Inv'
<1> USE DEF Cancel, input, hist
<1>1. TypeOK'
  BY DEF Inv, TypeOK, Place, Options, Errors, Stored
<1>2. Place'
  BY DEF Inv, TypeOK, Place
<1>3. Outcome'
  BY DEF Inv, TypeOK, Place, Outcome, Visited, Pruned
<1>4. Pruned'
  BY DEF Inv, TypeOK, Place, Pruned, Outcome, Visited
<1>5. Changed' /\ OnlyWhatWasAsked'
  BY DEF Inv, TypeOK, Place, Changed, OnlyWhatWasAsked
<1>6. Held' /\ Clean'
  BY DEF Inv, TypeOK, Place, Held, Clean, Outcome, Visited, Pruned, Stored
<1>7. QED
  BY <1>1, <1>2, <1>3, <1>4, <1>5, <1>6 DEF Inv

\* Meddle keeps the invariant.
LEMMA MeddleInv ==
  ASSUME NEW k \in Keys, NEW v \in {"absent", "other"}, Inv, Meddle(k, v)
  PROVE  Inv'
<1> USE DEF Meddle, input
<1>1. TypeOK'
  BY SecretAssumption DEF Inv, TypeOK, Stored
<1>2. Place'
  BY DEF Inv, TypeOK, Place
<1>3. Outcome'
  BY DEF Inv, TypeOK, Place, Outcome, Visited, Pruned
<1>4. Pruned'
  BY DEF Inv, TypeOK, Place, Pruned, Outcome, Visited
<1>5. Changed' /\ OnlyWhatWasAsked'
  BY DEF Inv, TypeOK, Place, Changed, OnlyWhatWasAsked
<1>6. Held' /\ Clean'
  BY DEF Inv, TypeOK, Place, Held, Clean, Outcome, Visited, Pruned, Stored
<1>7. QED
  BY <1>1, <1>2, <1>3, <1>4, <1>5, <1>6 DEF Inv

-----------------------------------------------------------------------------
\* Every step keeps the invariant, so it holds of every behaviour.
LEMMA Invariance == Spec => []Inv
<1>1. Inv /\ [Next]_vars => Inv'
  <2> SUFFICES ASSUME Inv, [Next]_vars PROVE Inv'
    OBVIOUS
  <2>1. CASE UNCHANGED vars
    BY <2>1 DEF vars, Inv, TypeOK, Place, Outcome, Pruned, Changed, OnlyWhatWasAsked, Held, Clean, Visited
  <2>2. CASE Next
    BY <2>2, ProvisionInv, VisitInv, SetInv, LoopEndsInv, ListInv, PruneInv, PruneEndsInv,
       FinishInv, CancelInv, MeddleInv DEF Next
  <2>3. QED
    BY <2>1, <2>2
<1>2. QED
  BY <1>1, InitInv, PTL DEF Spec

\* secret.Sync asked to rehearse changes nothing, and asked to prune deletes
\* only what is neither desired nor reserved, whoever else writes meanwhile.
THEOREM AsksFirst == Spec => []OnlyWhatWasAsked
<1>1. Inv => OnlyWhatWasAsked
  BY DEF Inv
<1>2. QED
  BY <1>1, Invariance, PTL

\* A nil error of secret.Sync: every desired value is in the store, and after a
\* prune nothing else, for the keys nobody else wrote.
THEOREM NilMeansConverged == Spec => []Converged
<1>1. Inv => Converged
  <2> SUFFICES ASSUME Inv, err = "nil", ~opts.dryRun, NEW k \in Keys \ (reserved \cup meddled)
               PROVE  /\ k \in desired => store[k] = "wanted"
                      /\ opts.prune /\ k \notin desired => store[k] = "absent"
    BY DEF Converged
  <2>1. pc = "done" /\ todo = {} /\ live = {} /\ report.Failed = {}
    BY DEF Inv, Place, Clean
  <2>2. k \in desired => k \in report.Set \cup report.Unchanged
    BY <2>1 DEF Inv, Outcome, Visited
  <2>3. QED
    BY <2>1, <2>2 DEF Inv, Held
<1>2. QED
  BY <1>1, Invariance, PTL

\* The Report of secret.Sync: however it ended, what it changed is reported as
\* changed or failed, and no key twice.
THEOREM ReportIsBoundary == Spec => []BoundaryKnown
<1>1. Inv => BoundaryKnown
  <2> SUFFICES ASSUME Inv, pc = "done" PROVE BoundaryKnown
    BY DEF BoundaryKnown
  <2>1. wrote \subseteq report.Set \cup report.Failed
        /\ deleted \subseteq report.Deleted \cup report.Failed
    BY DEF Inv, Changed
  <2>2. ASSUME NEW f \in Outcomes \cup {"Deleted"}, NEW g \in Outcomes \cup {"Deleted"}, f # g
        PROVE  report[f] \cap report[g] = {}
    BY <2>2 DEF Inv, TypeOK, Outcome, Pruned, Outcomes, Visited
  <2>3. err \in {"nil", "incomplete", "list"} => desired \subseteq UNION {report[f] : f \in Outcomes}
    <3>1. err \in {"nil", "incomplete", "list"} =>
            desired \subseteq report.Set \cup report.Unchanged \cup report.Skipped \cup report.Failed
      BY DEF Inv, Place, Outcome, Visited
    <3>2. report["Set"] = report.Set /\ report["Unchanged"] = report.Unchanged
          /\ report["Skipped"] = report.Skipped /\ report["Failed"] = report.Failed
      OBVIOUS
    <3>3. QED
      BY <3>1, <3>2 DEF Outcomes
  <2>4. QED
    BY <2>1, <2>2, <2>3 DEF BoundaryKnown
<1>2. QED
  BY <1>1, Invariance, PTL
=============================================================================
