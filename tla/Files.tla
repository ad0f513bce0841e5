------------------------------- MODULE Files --------------------------------
(***************************************************************************)
(* Writing one path: fsx.WriteAtomic in this process, with its callers     *)
(* secret.Set.WriteFile and download.ToFile, and remotefs.WriteFileOwner,  *)
(* a shell script on whatever machine the Runner points at, with its       *)
(* caller, the step PutFile.  Several writers may be at it together.       *)
(*                                                                         *)
(* Both write a temporary file beside the target and rename it over.  Any  *)
(* call may fail, a writer or its shell may be killed at any step, and the *)
(* connection to a remote shell may drop, which ends the shell's standard  *)
(* input but not the shell.                                                *)
(***************************************************************************)
EXTENDS Naturals, FiniteSets

CONSTANTS
    None,             \* no file, no mode
    Writers,
    Jobs,             \* what a writer may be asked to do
    Old,              \* what the path may hold to begin with
    Drops,            \* connections drop in the middle of a transfer
    ReplaceAttempts   \* replaceAttempts (10 in the code; bounded here)

\* Permission bits: the owner may write, others may read, anyone may execute.
Bits == {"write", "others", "exec"}
Private == {"write"}            \* 0600: SensitiveMode and os.CreateTemp's mode
Public == {"write", "others"}   \* 0644: PublicMode

\* "fsx" is WriteAtomic itself, "set" a secret Set, "get" a download, "put" the
\* step PutFile.  A mode of None leaves the choice to PutFile.
JobType == [kind: {"fsx", "set", "get", "put"}, mode: (SUBSET Bits) \cup {None},
            secret: BOOLEAN, sensitive: BOOLEAN, owned: BOOLEAN,
            sum: BOOLEAN, dry: BOOLEAN]

ASSUME FilesAssumption ==
    /\ Jobs \subseteq JobType
    /\ \A j \in Jobs : j.kind # "put" => j.mode # None
    /\ Drops \in BOOLEAN /\ ReplaceAttempts \in Nat \ {0}
    /\ "nobody" \notin Writers

\* A file: whose bytes, how many of them, its mode, whether it was chowned.
FileType == [by: Writers \cup {"nobody"}, part: {"empty", "some", "bad", "whole"},
             mode: SUBSET Bits, owned: BOOLEAN]

ASSUME OldAssumption ==
    /\ Old \subseteq FileType \cup {None}
    /\ \A f \in Old : f # None => f.by = "nobody"
    /\ \A f \in FileType : f # None
    /\ \A m \in SUBSET Bits : m # None

VARIABLES
    job,      \* what each writer was asked
    file,     \* the target path
    temp,     \* each writer's temporary file
    pc,       \* where the caller is
    sh,       \* where its shell is
    body,     \* the bytes a download got
    tries,    \* renames replace has tried in its loop
    seen,     \* the read-only file whose mode clearReadOnly has read
    link,     \* the connection to the shell is up
    result,
    put,      \* history: the writers whose rename succeeded
    killed,   \* history: the writers that were killed, or whose shell was
    old,      \* history: the file that was there to begin with
    misset    \* history: the file in place has its mode from another one

given == <<job, old>>
target == <<file, misset>>
retry == <<tries, seen>>
shell == <<sh, link>>
vars == <<given, target, temp, pc, body, retry, shell, result, put, killed>>

CallerPCs == {"start", "open", "write", "chmod", "rename", "stat", "relax", "again",
              "cleanup", "return", "wait", "done", "dead"}
ShellPCs == {"off", "mkdir", "open", "decode", "chown", "mv", "rm", "exit0",
             "exit1", "dead"}

Init ==
    /\ job \in [Writers -> Jobs] /\ old \in Old /\ file = old /\ misset = FALSE
    /\ temp = [w \in Writers |-> None]
    /\ pc = [w \in Writers |-> "start"] /\ sh = [w \in Writers |-> "off"]
    /\ body = [w \in Writers |-> "whole"] /\ tries = [w \in Writers |-> 0]
    /\ link = [w \in Writers |-> TRUE] /\ seen = [w \in Writers |-> None]
    /\ result = [w \in Writers |-> "none"] /\ put = {} /\ killed = {}

Is(w, kind) == job[w].kind = kind
Goto(w, l) == pc' = [pc EXCEPT ![w] = l] /\ UNCHANGED result
End(w, r) == pc' = [pc EXCEPT ![w] = "done"] /\ result' = [result EXCEPT ![w] = r]
Temp(w, f) == temp' = [temp EXCEPT ![w] = f]
Sh(w, l) == sh' = [sh EXCEPT ![w] = l]

-----------------------------------------------------------------------------
(* The callers. *)

\* Set.WriteFile refuses a mode with any bit beyond the owner's; PutFile
\* rehearses; the others go on.
Begin(w) ==
    /\ pc[w] = "start"
    /\ \/ Is(w, "set") /\ ~(job[w].mode \subseteq Private) /\ End(w, "error")
       \/ Is(w, "put") /\ job[w].dry /\ End(w, "rehearsed")
       \/ Is(w, "put") /\ ~job[w].dry /\ Goto(w, "wait")
       \/ Is(w, "set") /\ job[w].mode \subseteq Private /\ Goto(w, "open")
       \/ Is(w, "fsx") /\ Goto(w, "open")
    /\ sh' = [sh EXCEPT ![w] = IF Is(w, "put") /\ ~job[w].dry THEN "mkdir" ELSE @]
    /\ UNCHANGED <<given, target, temp, body, retry, link, put, killed>>

\* The digest is compared before anything is written.
Rejected(w, b) == job[w].sum /\ b # "whole"

\* ToFile: no answer, a bad status, or a body, which the server may have wrong.
Fetch(w) ==
    /\ pc[w] = "start" /\ Is(w, "get")
    /\ \/ End(w, "error") /\ UNCHANGED body
       \/ \E b \in {"whole", "bad"} :
            /\ body' = [body EXCEPT ![w] = b]
            /\ IF Rejected(w, b) THEN End(w, "error") ELSE Goto(w, "open")
    /\ UNCHANGED <<given, target, temp, shell, retry, put, killed>>

-----------------------------------------------------------------------------
(* fsx.WriteAtomic. *)

Bytes(w, p, m) == [by |-> w, part |-> p, mode |-> m, owned |-> FALSE]

Open(w) ==
    /\ pc[w] = "open"
    /\ \/ Temp(w, Bytes(w, "empty", Private)) /\ Goto(w, "write")
       \/ End(w, "error") /\ UNCHANGED temp
    /\ UNCHANGED <<given, target, shell, body, retry, put, killed>>

Write(w) ==
    /\ pc[w] = "write"
    /\ \/ Temp(w, Bytes(w, body[w], temp[w].mode)) /\ Goto(w, "chmod")
       \/ Temp(w, Bytes(w, "some", temp[w].mode)) /\ Goto(w, "cleanup")
    /\ UNCHANGED <<given, target, shell, body, retry, put, killed>>

\* Chmod and Close, before the rename.
Chmod(w) ==
    /\ pc[w] = "chmod"
    /\ \/ Temp(w, Bytes(w, temp[w].part, job[w].mode)) /\ Goto(w, "rename")
       \/ UNCHANGED temp /\ Goto(w, "cleanup")
    /\ UNCHANGED <<given, target, shell, body, retry, put, killed>>

Replaced(w) ==
    /\ file' = temp[w] /\ misset' = FALSE /\ Temp(w, None) /\ put' = put \cup {w}

\* Mutant: a refused rename is reported and its temporary file forgotten.
RenameForgets(w) ==
    /\ pc[w] = "rename"
    /\ \/ Replaced(w) /\ Goto(w, "return")
       \/ UNCHANGED <<target, temp, put>> /\ End(w, "error")
    /\ UNCHANGED <<given, shell, body, retry, killed>>

\* The first attempt of replace.
Rename(w) ==
    /\ pc[w] = "rename"
    /\ \/ Replaced(w) /\ Goto(w, "return")
       \/ UNCHANGED <<target, temp, put>> /\ Goto(w, "stat")
    /\ UNCHANGED <<given, shell, body, retry, killed>>

\* clearReadOnly, its Stat: it fails, or there is nothing read-only to clear, or
\* the mode to set is that of the file in place now.
ReadOnly(f) == f # None /\ "write" \notin f.mode

Stat(w) ==
    /\ pc[w] = "stat"
    /\ \/ /\ ReadOnly(file) /\ seen' = [seen EXCEPT ![w] = file]
          /\ Goto(w, "relax") /\ UNCHANGED tries
       \/ /\ Goto(w, "again") /\ tries' = [tries EXCEPT ![w] = 1] /\ UNCHANGED seen
    /\ UNCHANGED <<given, target, temp, shell, body, put, killed>>

\* clearReadOnly, its Chmod: the path, whatever is there by now, gets the mode
\* that was read, writable.  Only if it succeeds is there one more try.
Relaxed(f, g) == IF f = None THEN None ELSE [f EXCEPT !.mode = g.mode \cup {"write"}]

Relax(w) ==
    /\ pc[w] = "relax" /\ Goto(w, "again")
    /\ seen' = [seen EXCEPT ![w] = None]
    /\ \/ /\ file # None /\ file' = Relaxed(file, seen[w])
          /\ misset' = (file.by # seen[w].by) /\ UNCHANGED tries
       \/ UNCHANGED target /\ tries' = [tries EXCEPT ![w] = 1]
    /\ UNCHANGED <<given, temp, shell, body, put, killed>>

\* The other attempts, until the bound.
RenameAgain(w) ==
    /\ pc[w] = "again"
    /\ \/ tries[w] < ReplaceAttempts /\ Replaced(w) /\ Goto(w, "return") /\ UNCHANGED tries
       \/ /\ tries[w] < ReplaceAttempts /\ tries' = [tries EXCEPT ![w] = @ + 1]
          /\ Goto(w, "again") /\ UNCHANGED <<target, temp, put>>
       \/ /\ tries[w] = ReplaceAttempts /\ Goto(w, "cleanup")
          /\ UNCHANGED <<target, temp, put, tries>>
    /\ UNCHANGED <<given, shell, body, seen, killed>>

\* The deferred Close and Remove of every failure.
Cleanup(w) ==
    /\ pc[w] = "cleanup" /\ Temp(w, None) /\ End(w, "error")
    /\ UNCHANGED <<given, target, shell, body, retry, put, killed>>

Return(w) ==
    /\ pc[w] = "return" /\ End(w, "nil")
    /\ UNCHANGED <<given, target, temp, shell, body, retry, put, killed>>

\* The script's input has been sent; without Drops nothing goes wrong before.
Sent(w) == sh[w] \notin {"mkdir", "open", "decode"}

\* The process dies, and its end of the pipe or connection with it.
Crash(w) ==
    /\ pc[w] \notin {"done", "dead"} /\ (Drops \/ Sent(w))
    /\ pc' = [pc EXCEPT ![w] = "dead"] /\ killed' = killed \cup {w}
    /\ link' = [link EXCEPT ![w] = FALSE]
    /\ UNCHANGED <<given, target, temp, sh, body, retry, result, put>>

-----------------------------------------------------------------------------
(* remotefs.WriteFileOwner: the script, and the caller that waits for it. *)

\* PutFile: an explicit mode, or what the credential or the flag implies.
Wanted(j) ==
    IF j.kind # "put" \/ j.mode # None THEN j.mode
    ELSE IF j.secret \/ j.sensitive THEN Private ELSE Public

\* A redirect creates at 0666 less the umask: never executable.
Created(w) == Wanted(job[w]) \ {"exec"}

\* mkdir -p, and the refusal of a directory at the target.
ShMkdir(w) ==
    /\ sh[w] = "mkdir" /\ \/ Sh(w, "open") \/ Sh(w, "exit1")
    /\ UNCHANGED <<given, target, temp, pc, body, retry, link, result, put, killed>>

\* Mutant: the umask is left alone and the mode is set at the end.
ShOpenWide(w) ==
    /\ sh[w] = "open"
    /\ Temp(w, Bytes(w, "empty", Public)) /\ Sh(w, "decode")
    /\ UNCHANGED <<given, target, pc, body, retry, link, result, put, killed>>

\* umask, then the redirect creates the temporary file.
ShOpen(w) ==
    /\ sh[w] = "open"
    /\ \/ Temp(w, Bytes(w, "empty", Created(w))) /\ Sh(w, "decode")
       \/ UNCHANGED temp /\ Sh(w, "rm")
    /\ UNCHANGED <<given, target, pc, body, retry, link, result, put, killed>>

\* base64 -d until the end of its input.  An input cut at a multiple of four
\* characters decodes without an error; so does an empty one.
ShDecode(w) ==
    /\ sh[w] = "decode"
    /\ \/ link[w] /\ Temp(w, Bytes(w, "whole", temp[w].mode)) /\ Sh(w, "chown")
       \/ ~link[w] /\ Temp(w, Bytes(w, "some", temp[w].mode)) /\ Sh(w, "chown")
       \/ Temp(w, Bytes(w, "some", temp[w].mode)) /\ Sh(w, "rm")
    /\ UNCHANGED <<given, target, pc, body, retry, link, result, put, killed>>

\* chown, whose failure is ignored.
ShChown(w) ==
    /\ sh[w] = "chown" /\ Sh(w, "mv")
    /\ \/ job[w].owned /\ Temp(w, [temp[w] EXCEPT !.owned = TRUE])
       \/ UNCHANGED temp
    /\ UNCHANGED <<given, target, pc, body, retry, link, result, put, killed>>

\* Mutant: the script redirects into the target itself.
ShMvInPlace(w) ==
    /\ sh[w] = "mv" /\ Sh(w, "exit0")
    /\ file' = [temp[w] EXCEPT !.part = "some"] /\ misset' = FALSE
    /\ Temp(w, None) /\ put' = put \cup {w}
    /\ UNCHANGED <<given, pc, body, retry, link, result, killed>>

ShMv(w) ==
    /\ sh[w] = "mv"
    /\ \/ Replaced(w) /\ Sh(w, "exit0")
       \/ UNCHANGED <<target, temp, put>> /\ Sh(w, "rm")
    /\ UNCHANGED <<given, pc, body, retry, link, result, killed>>

ShRm(w) ==
    /\ sh[w] = "rm" /\ Temp(w, None) /\ Sh(w, "exit1")
    /\ UNCHANGED <<given, target, pc, body, retry, link, result, put, killed>>

\* The context ends, or somebody kills the shell.
ShKilled(w) ==
    /\ sh[w] \notin {"off", "exit0", "exit1", "dead"}
    /\ Sh(w, "dead") /\ killed' = killed \cup {w}
    /\ UNCHANGED <<given, target, temp, pc, body, retry, link, result, put>>

\* The connection is lost: the caller has an error, the shell goes on.
Drop(w) ==
    /\ pc[w] = "wait" /\ link[w] /\ link' = [link EXCEPT ![w] = FALSE]
    /\ Drops \/ Sent(w)
    /\ End(w, "error")
    /\ UNCHANGED <<given, target, temp, sh, body, retry, put, killed>>

\* runner.Check: only exit zero is success.
Check(w) ==
    /\ pc[w] = "wait" /\ sh[w] \in {"exit0", "exit1", "dead"}
    /\ End(w, IF sh[w] = "exit0" THEN "nil" ELSE "error")
    /\ UNCHANGED <<given, target, temp, shell, body, retry, put, killed>>

-----------------------------------------------------------------------------
Shell(w) == ShMkdir(w) \/ ShOpen(w) \/ ShDecode(w) \/ ShChown(w) \/ ShMv(w) \/ ShRm(w)
Local(w) == Open(w) \/ Write(w) \/ Chmod(w) \/ Rename(w) \/ Stat(w) \/ Relax(w)
            \/ RenameAgain(w) \/ Cleanup(w) \/ Return(w)

Next == \E w \in Writers :
    \/ Begin(w) \/ Fetch(w) \/ Local(w) \/ Crash(w)
    \/ Shell(w) \/ ShKilled(w) \/ Drop(w) \/ Check(w)

Spec == Init /\ [][Next]_vars

-----------------------------------------------------------------------------
(* Properties. *)

TypeOK ==
    /\ job \in [Writers -> Jobs] /\ old \in FileType \cup {None}
    /\ file \in FileType \cup {None} /\ misset \in BOOLEAN
    /\ seen \in [Writers -> FileType \cup {None}]
    /\ temp \in [Writers -> FileType \cup {None}]
    /\ pc \in [Writers -> CallerPCs] /\ sh \in [Writers -> ShellPCs]
    /\ body \in [Writers -> {"whole", "bad"}] /\ tries \in [Writers -> 0 .. ReplaceAttempts]
    /\ link \in [Writers -> BOOLEAN] /\ put \subseteq Writers /\ killed \subseteq Writers
    /\ result \in [Writers -> {"none", "nil", "error", "rehearsed"}]

\* A whole file of writer w: all the bytes it was given, or that its download
\* got when no digest was asked for, at the mode asked for.
Whole(w) ==
    [by: {w}, part: IF Is(w, "get") /\ ~job[w].sum THEN {"whole", "bad"} ELSE {"whole"},
     mode: {IF Is(w, "put") THEN Created(w) ELSE job[w].mode},
     owned: IF job[w].owned THEN BOOLEAN ELSE {FALSE}]

\* WriteAtomic, WriteFileOwner and ToFile: "the reader sees either the old file
\* or the new one", success is never reported for a file that is not in place,
\* and an error of a local write means that it is not.  A refused rename changes
\* modes only, to that of a read-only version there has been.  So the writers,
\* taken together, implement AtomicFile.
Abstract == INSTANCE AtomicFile WITH
    want <- [w \in Writers |-> Whole(w)],
    sure <- {w \in Writers : ~Is(w, "put")}
WritesAtomically == Abstract!Spec

\* A file with a writer's bytes that others may read and should not.
Exposed(f) ==
    /\ f # None /\ f.by # "nobody" /\ f.part # "empty"
    /\ "others" \in f.mode /\ "others" \notin Wanted(job[f.by])

\* What the bytes of a credential are written into is never open to others when
\* the mode asked for is not: the umask comes before the redirect and the chmod
\* before the rename.  Except in place, if clearReadOnly gave it the mode it had
\* read of a file that is not there any more.
NeverExposed ==
    /\ \A w \in Writers : ~Exposed(temp[w])
    /\ ~misset => ~Exposed(file)

\* "The file never exists at its final path with the wrong mode, however
\* briefly" (WriteAtomic), and a refused rename relaxes only a file that "is
\* about to be replaced" (clearReadOnly), as far as others may read it.
ClosedInPlace == ~Exposed(file)

\* "Removed on every failure path": a writer that was not killed leaves no
\* temporary file, however it failed.
NoLitter ==
    \A w \in Writers \ killed :
        pc[w] = "done" /\ sh[w] \in {"off", "exit0", "exit1"} => temp[w] = None
=============================================================================
