----------------------------- MODULE SecretSync -----------------------------
(***************************************************************************)
(* kit/secret: Sync, which reconciles a desired Set with a Store.  The     *)
(* store is somebody else's service: any call may fail, and a call that    *)
(* fails may have taken effect all the same.  Others may write to it while *)
(* Sync runs, and the context may end at any time.                         *)
(***************************************************************************)
EXTENDS Naturals

CONSTANTS
    Keys,        \* names, as numbers in the order Set.Keys sorts them
    Wants,       \* the desired Sets a caller may pass: sets of keys
    Reserves,    \* what a store may reserve: sets of keys
    MaxMeddling  \* bound: writes by others

ASSUME SecretAssumption ==
    /\ Keys \subseteq Nat
    /\ Wants \subseteq SUBSET Keys /\ Reserves \subseteq SUBSET Keys
    /\ MaxMeddling \in Nat

\* A stored value: absent, some other value, or the one desired.
Stored == {"absent", "other", "wanted"}

VARIABLES
    opts,      \* the options, and which optional interfaces the store has
    desired, reserved,
    store,     \* what it holds
    cancelled, \* ctx.Err() # nil
    pc,        \* "provision", "keys", "set", "list", "prune", "done"
    todo,      \* the keys the loop has still to visit
    key,       \* the key being written
    live,      \* what List returned and prune has still to visit
    report, err,
    meddled, meddling, \* history: keys others wrote, and how often
    wrote, deleted     \* history: keys whose Set or Delete took effect

vars == <<opts, desired, reserved, store, cancelled, pc, todo, key, live, report, err,
          meddled, meddling, wrote, deleted>>
input == <<opts, desired, reserved>>
hist  == <<meddled, meddling>>

Options == [dryRun: BOOLEAN, prune: BOOLEAN, provision: BOOLEAN,
            Provisioner: BOOLEAN, Comparer: BOOLEAN]
Errors == {"none", "nil", "incomplete", "cancelled", "provision", "list"}

Empty == [Set |-> {}, Unchanged |-> {}, Skipped |-> {}, Deleted |-> {}, Failed |-> {}]

Init ==
    /\ opts \in Options /\ desired \in Wants /\ reserved \in Reserves
    /\ store \in [Keys -> Stored]
    /\ cancelled \in BOOLEAN
    /\ pc = "provision" /\ todo = desired /\ key = 0 /\ live = {}
    /\ report = Empty /\ err = "none"
    /\ meddled = {} /\ meddling = 0 /\ wrote = {} /\ deleted = {}

Return(e) == pc' = "done" /\ err' = e
Goto(l) == pc' = l /\ UNCHANGED err

-----------------------------------------------------------------------------
\* Ensure, before anything is written and never in a dry run.
Provision ==
    /\ pc = "provision"
    /\ \/ opts.provision /\ ~opts.Provisioner /\ Return("provision")
       \/ opts.provision /\ opts.Provisioner /\ ~opts.dryRun /\ Return("provision")
       \/ (opts.provision => opts.Provisioner) /\ Goto("keys")
    /\ UNCHANGED <<input, store, cancelled, todo, key, live, report, hist, wrote, deleted>>

Report(field, k) == report' = [report EXCEPT ![field] = @ \cup {k}]

\* Mutant: a comparison that failed counts as a match.
SameAnyhow(k) == {TRUE, store[k] = "wanted"}

\* alreadyCorrect: what a Comparer answers; an error of its counts as no match.
Same(k) == IF opts.Comparer THEN {FALSE, store[k] = "wanted"} ELSE {FALSE}

\* One key of the loop, up to the write.
Visit(k) ==
    /\ pc = "keys" /\ k \in todo /\ \A j \in todo : k <= j
    /\ \/ /\ cancelled /\ Return("cancelled")
          /\ UNCHANGED <<todo, key, report>>
       \/ /\ ~cancelled /\ k \in reserved
          /\ todo' = todo \ {k} /\ Report("Skipped", k) /\ Goto("keys") /\ UNCHANGED key
       \/ /\ ~cancelled /\ k \notin reserved /\ TRUE \in Same(k)
          /\ todo' = todo \ {k} /\ Report("Unchanged", k) /\ Goto("keys") /\ UNCHANGED key
       \/ /\ ~cancelled /\ k \notin reserved /\ FALSE \in Same(k)
          /\ todo' = todo \ {k} /\ key' = k /\ Goto("set") /\ UNCHANGED report
    /\ UNCHANGED <<input, store, cancelled, live, hist, wrote, deleted>>

Takes(k) == store' = [store EXCEPT ![k] = "wanted"] /\ wrote' = wrote \cup {k}

\* Mutants: a failed write is only reported as progress; a dry run writes.
SetUnrecorded ==
    /\ pc = "set"
    /\ \/ opts.dryRun /\ Report("Set", key) /\ UNCHANGED <<store, wrote>>
       \/ ~opts.dryRun /\ Takes(key) /\ Report("Set", key)
       \/ ~opts.dryRun /\ (Takes(key) \/ UNCHANGED <<store, wrote>>) /\ UNCHANGED report
    /\ Goto("keys")
    /\ UNCHANGED <<input, cancelled, todo, key, live, hist, deleted>>

SetInDryRun ==
    /\ pc = "set" /\ Takes(key) /\ Report("Set", key) /\ Goto("keys")
    /\ UNCHANGED <<input, cancelled, todo, key, live, hist, deleted>>

\* store.Set, whose failure stops nothing.
Set ==
    /\ pc = "set"
    /\ \/ opts.dryRun /\ Report("Set", key) /\ UNCHANGED <<store, wrote>>
       \/ ~opts.dryRun /\ Takes(key) /\ Report("Set", key)
       \/ ~opts.dryRun /\ (Takes(key) \/ UNCHANGED <<store, wrote>>) /\ Report("Failed", key)
    /\ Goto("keys")
    /\ UNCHANGED <<input, cancelled, todo, key, live, hist, deleted>>

\* After the last key.
LoopEnds ==
    /\ pc = "keys" /\ todo = {} /\ Goto(IF opts.prune THEN "list" ELSE "finish")
    /\ UNCHANGED <<input, store, cancelled, todo, key, live, report, hist, wrote, deleted>>

List ==
    /\ pc = "list"
    /\ \/ Return("list") /\ UNCHANGED live
       \/ live' = {k \in Keys : store[k] # "absent"} /\ Goto("prune")
    /\ UNCHANGED <<input, store, cancelled, todo, key, report, hist, wrote, deleted>>

Spared(k) == k \in desired \/ k \in reserved

Goes(k) == store' = [store EXCEPT ![k] = "absent"] /\ deleted' = deleted \cup {k}

\* One name of the listing.
Prune(k) ==
    /\ pc = "prune" /\ k \in live /\ live' = live \ {k}
    /\ \/ Spared(k) /\ UNCHANGED <<store, report, deleted>>
       \/ ~Spared(k) /\ opts.dryRun /\ Report("Deleted", k) /\ UNCHANGED <<store, deleted>>
       \/ ~Spared(k) /\ ~opts.dryRun /\ Goes(k) /\ Report("Deleted", k)
       \/ /\ ~Spared(k) /\ ~opts.dryRun /\ Report("Failed", k)
          /\ Goes(k) \/ UNCHANGED <<store, deleted>>
    /\ UNCHANGED <<input, cancelled, pc, todo, key, err, hist, wrote>>

PruneEnds ==
    /\ pc = "prune" /\ live = {} /\ Goto("finish")
    /\ UNCHANGED <<input, store, cancelled, todo, key, live, report, hist, wrote, deleted>>

\* ErrSyncIncomplete when anything failed.
Finish ==
    /\ pc = "finish" /\ Return(IF report.Failed # {} THEN "incomplete" ELSE "nil")
    /\ UNCHANGED <<input, store, cancelled, todo, key, live, report, hist, wrote, deleted>>

-----------------------------------------------------------------------------
Cancel ==
    /\ ~cancelled /\ pc # "done" /\ cancelled' = TRUE
    /\ UNCHANGED <<input, store, pc, todo, key, live, report, err, hist, wrote, deleted>>

\* Somebody else writes or deletes.
Meddle(k, v) ==
    /\ pc # "done" /\ meddling < MaxMeddling /\ store[k] # v
    /\ store' = [store EXCEPT ![k] = v]
    /\ meddled' = meddled \cup {k} /\ meddling' = meddling + 1
    /\ UNCHANGED <<input, cancelled, pc, todo, key, live, report, err, wrote, deleted>>

Next ==
    \/ Provision \/ Set \/ LoopEnds \/ List \/ PruneEnds \/ Finish \/ Cancel
    \/ \E k \in Keys : Visit(k) \/ Prune(k) \/ \E v \in {"absent", "other"} : Meddle(k, v)

Spec == Init /\ [][Next]_vars

-----------------------------------------------------------------------------
(* Properties. *)

TypeOK ==
    /\ opts \in Options /\ desired \subseteq Keys /\ reserved \subseteq Keys
    /\ store \in [Keys -> Stored] /\ cancelled \in BOOLEAN
    /\ pc \in {"provision", "keys", "set", "list", "prune", "finish", "done"}
    /\ todo \subseteq Keys /\ key \in Keys \cup {0} /\ live \subseteq Keys
    /\ report \in [Set: SUBSET Keys, Unchanged: SUBSET Keys, Skipped: SUBSET Keys,
                  Deleted: SUBSET Keys, Failed: SUBSET Keys]
    /\ err \in Errors
    /\ meddled \subseteq Keys /\ meddling \in 0 .. MaxMeddling
    /\ wrote \subseteq Keys /\ deleted \subseteq Keys

\* When Sync returns nil, and nobody else wrote, the store holds every desired
\* value it does not reserve and, after a prune, nothing that is not desired.
Converged ==
    err = "nil" /\ ~opts.dryRun =>
        \A k \in Keys \ (reserved \cup meddled) :
            /\ k \in desired => store[k] = "wanted"
            /\ opts.prune /\ k \notin desired => store[k] = "absent"

\* "The Report must say exactly where it got to": however Sync ended, a key it
\* changed is reported written, deleted or failed, no key is reported twice,
\* and when it got through the loop every desired key is reported.
Outcomes == {"Set", "Unchanged", "Skipped", "Failed"}
BoundaryKnown ==
    pc = "done" =>
        /\ wrote \subseteq report.Set \cup report.Failed
        /\ deleted \subseteq report.Deleted \cup report.Failed
        /\ \A f, g \in Outcomes \cup {"Deleted"} : f # g => report[f] \cap report[g] = {}
        /\ err \in {"nil", "incomplete", "list"} =>
               desired \subseteq UNION {report[f] : f \in Outcomes}

\* A dry run "changes nothing", and prune deletes only what is neither desired
\* nor reserved, whatever others write between the listing and the deletion.
OnlyWhatWasAsked ==
    /\ opts.dryRun => wrote = {} /\ deleted = {}
    /\ deleted \cap (desired \cup reserved) = {}
    /\ wrote \subseteq desired \ reserved
=============================================================================
