----------------------------- MODULE AtomicFile -----------------------------
(***************************************************************************)
(* What fsx.WriteAtomic and remotefs.WriteFileOwner promise whoever reads  *)
(* the path they write: its contents go from one whole version to the next *)
(* and are never anything in between, whatever fails, whoever crashes and  *)
(* whoever else is writing it.  The mode is the version's own, or that of  *)
(* a read-only version from before, made writable.                         *)
(***************************************************************************)
CONSTANTS
    Writers,
    ReadOnly(_),  \* a file whose replacement may be refused for its mode
    Relaxed(_, _) \* a file given the mode of another one, made writable

VARIABLES
    file,     \* what a reader of the path finds
    old,      \* what was there to begin with
    sure,     \* the writers whose error means that their version was not there
    want,     \* for each writer, the versions that are a whole file of its
    put,      \* the writers whose version has been in place
    result    \* for each writer, what it was told: "none" before that

avars == <<file, old, sure, want, put, result>>

Init == file = old /\ put = {} /\ result = [w \in Writers |-> "none"]

\* A writer's whole version replaces whatever is there, at once; that of a
\* writer that is not sure may do so after its error.
Install(w) ==
    /\ w \notin put
    /\ result[w] = "none" \/ (result[w] = "error" /\ w \notin sure)
    /\ file' \in want[w] /\ put' = put \cup {w}
    /\ UNCHANGED <<old, sure, want, result>>

\* Whatever is there gets the mode of a read-only version there has been, made
\* writable; the contents stay.
Relax(w) ==
    /\ w \in sure /\ w \notin put /\ result[w] = "none"
    /\ \E f \in {old} \cup UNION {want[v] : v \in put} :
          ReadOnly(f) /\ file' = Relaxed(file, f)
    /\ UNCHANGED <<old, sure, want, put, result>>

\* Success is never reported for a version that was not in place, nor a
\* rehearsal for one that was; a sure writer's error is never one that was.
Return(w, r) ==
    /\ result[w] = "none"
    /\ r = "nil" => w \in put
    /\ r = "rehearsed" => w \notin put
    /\ r = "error" /\ w \in sure => w \notin put
    /\ result' = [result EXCEPT ![w] = r]
    /\ UNCHANGED <<file, old, sure, want, put>>

Next == \E w \in Writers :
    \/ Install(w) \/ Relax(w)
    \/ \E r \in {"nil", "error", "rehearsed"} : Return(w, r)

Spec == Init /\ [][Next]_avars
=============================================================================
