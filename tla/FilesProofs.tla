---------------------------- MODULE FilesProofs -----------------------------
(***************************************************************************)
(* For any number of writers, any jobs and any number of attempts: unless  *)
(* connections drop in the middle of a transfer, the writers of a path     *)
(* implement AtomicFile, a credential's bytes are never in a file others   *)
(* may read, and a writer that was not killed leaves nothing behind.       *)
(***************************************************************************)
EXTENDS Files, TLAPS

\* The caller has a temporary file, or may have.
Working == {"write", "chmod", "rename", "stat", "relax", "again", "cleanup"}

\* Which machinery a writer uses: its own calls, or a shell of its own.
Kinds(w) ==
    /\ pc[w] \in Working \cup {"open", "return"} => ~Is(w, "put") /\ sh[w] = "off"
    /\ pc[w] = "wait" => sh[w] # "off"
    /\ pc[w] = "start" => sh[w] = "off" /\ link[w]
    /\ sh[w] # "off" => Is(w, "put")
    /\ sh[w] \in {"mkdir", "open", "decode"} => link[w]

\* What a download got is what it asked for, or was not to be verified.
Verified(w) ==
    /\ ~Is(w, "get") => body[w] = "whole"
    /\ Is(w, "get") /\ job[w].sum /\ pc[w] \in Working \cup {"open"} => body[w] = "whole"

\* The temporary file follows the code that is writing it, and is a whole file
\* by the time it is renamed.
Temps(w) ==
    /\ sh[w] = "off" /\ pc[w] \in {"start", "open", "return", "done"} => temp[w] = None
    /\ pc[w] = "write" => temp[w] = Bytes(w, "empty", Private)
    /\ pc[w] = "chmod" => temp[w] = Bytes(w, body[w], Private)
    /\ pc[w] \in {"rename", "stat", "relax", "again"} => temp[w] \in Whole(w)
    /\ sh[w] \in {"mkdir", "open", "exit0", "exit1"} => temp[w] = None
    /\ sh[w] = "decode" => temp[w] = Bytes(w, "empty", Created(w))
    /\ sh[w] = "chown" => temp[w] = Bytes(w, "whole", Created(w))
    /\ sh[w] = "mv" => temp[w] \in Whole(w)

\* A writer is told nothing before it is done, and the truth then.
Told(w) ==
    /\ result[w] = "none" <=> pc[w] # "done"
    /\ sh[w] = "exit0" => w \in put
    /\ sh[w] # "off" /\ w \in put => sh[w] = "exit0"
    /\ sh[w] # "off" => result[w] # "rehearsed"
    /\ sh[w] # "off" /\ result[w] = "nil" => sh[w] = "exit0"
    /\ pc[w] = "return" => w \in put
    /\ sh[w] = "off" /\ w \in put => pc[w] \in {"return", "dead"} \/ result[w] = "nil"

\* Whoever's bytes a file holds, it is no more open than that writer asked.
Closed(f) == f # None /\ f.by # "nobody" =>
                ("others" \in f.mode => "others" \in Wanted(job[f.by]))
Own(w) == temp[w] # None => temp[w].by = w /\ Closed(temp[w])

WInv(w) == Kinds(w) /\ Verified(w) /\ Temps(w) /\ Told(w) /\ Own(w)

\* A version that has been in place.
Earlier(f) == f = old \/ \E v \in put : f \in Whole(v)

\* The file in place: one with a mode from elsewhere can be written, so what
\* clearReadOnly reads the mode of is a version as it was installed.
InPlace ==
    /\ IF misset THEN file # None /\ "write" \in file.mode ELSE Closed(file)
    /\ ReadOnly(file) => Earlier(file)
    /\ \A w \in Writers : pc[w] = "relax" =>
          ReadOnly(seen[w]) /\ Closed(seen[w]) /\ Earlier(seen[w])

Inv == TypeOK /\ InPlace /\ \A w \in Writers : WInv(w)

-----------------------------------------------------------------------------
\* The mode a job asks for is a set of bits.
LEMMA ModeType ==
  ASSUME NEW w \in Writers, job \in [Writers -> Jobs]
  PROVE  /\ Wanted(job[w]) \in SUBSET Bits /\ Created(w) \in SUBSET Bits
         /\ ~Is(w, "put") => job[w].mode \in SUBSET Bits /\ Wanted(job[w]) = job[w].mode
         /\ job[w] \in JobType
BY FilesAssumption DEF Wanted, Created, Is, JobType, Private, Public, Bits

\* The files the code makes are files.
LEMMA BytesType ==
  ASSUME NEW w \in Writers, NEW p \in {"empty", "some", "bad", "whole"}, NEW m \in SUBSET Bits
  PROVE  Bytes(w, p, m) \in FileType
BY DEF Bytes, FileType

\* The mode of os.CreateTemp is a set of bits.
LEMMA PrivateType == Private \in SUBSET Bits
BY DEF Private, Bits

\* chown changes a file's owner and nothing else.
LEMMA ChownType ==
  ASSUME NEW f \in FileType
  PROVE  /\ [f EXCEPT !.owned = TRUE] \in FileType
         /\ [f EXCEPT !.owned = TRUE].by = f.by /\ [f EXCEPT !.owned = TRUE].mode = f.mode
BY DEF FileType

\* clearReadOnly changes a file's mode and nothing else.
LEMMA RelaxedType ==
  ASSUME NEW f \in FileType, NEW g \in FileType
  PROVE  /\ Relaxed(f, g) \in FileType /\ Relaxed(f, g).by = f.by
         /\ Relaxed(f, g).mode = g.mode \cup {"write"}
BY OldAssumption DEF Relaxed, FileType, Bits

\* A whole file is a file.
LEMMA WholeType ==
  ASSUME NEW w \in Writers, job \in [Writers -> Jobs]
  PROVE  Whole(w) \subseteq FileType
BY ModeType DEF Whole, FileType

\* What writing, chmod and chown make of a temporary file.
LEMMA BytesFields ==
  ASSUME NEW w, NEW p, NEW m
  PROVE  /\ Bytes(w, p, m).by = w /\ Bytes(w, p, m).part = p
         /\ Bytes(w, p, m).mode = m
BY DEF Bytes

\* After chmod, a temporary file of WriteAtomic is a whole file.
LEMMA WholeLocal ==
  ASSUME NEW w \in Writers, ~Is(w, "put"), job[w] \in JobType, NEW p,
         p = "whole" \/ (p = "bad" /\ Is(w, "get") /\ ~job[w].sum)
  PROVE  Bytes(w, p, job[w].mode) \in Whole(w)
BY DEF Bytes, Whole, JobType

\* After the decoding, with or without chown, the script's is.
LEMMA WholeRemote ==
  ASSUME NEW w \in Writers, Is(w, "put"), job[w] \in JobType, NEW f,
         f = Bytes(w, "whole", Created(w))
  PROVE  f \in Whole(w) /\ (job[w].owned => [f EXCEPT !.owned = TRUE] \in Whole(w))
BY DEF Bytes, Whole, Is, JobType

\* A step of one writer leaves what is true of the others.
LEMMA Frame ==
  ASSUME NEW v \in Writers, WInv(v), job' = job,
         temp'[v] = temp[v], pc'[v] = pc[v], sh'[v] = sh[v], body'[v] = body[v],
         link'[v] = link[v], result'[v] = result[v], (v \in put') <=> (v \in put)
  PROVE  WInv(v)'
<1>1. Whole(v)' = Whole(v) /\ Created(v)' = Created(v) /\ \A k : Is(v, k)' = Is(v, k)
  BY DEF Whole, Created, Is, Wanted
<1>2. Kinds(v)' /\ Verified(v)'
  BY <1>1 DEF WInv, Kinds, Verified
<1>3. Temps(v)'
  BY <1>1 DEF WInv, Temps, Bytes
<1>4. Told(v)'
  BY DEF WInv, Told
<1>5. Own(v)'
  BY DEF WInv, Own, Closed, Wanted
<1>6. QED
  BY <1>2, <1>3, <1>4, <1>5 DEF WInv

\* The initial state.
LEMMA InitInv == Init => Inv
<1> SUFFICES ASSUME Init PROVE Inv
  OBVIOUS
<1> 0 \in 0 .. ReplaceAttempts
  BY FilesAssumption
<1>1. TypeOK
  BY FilesAssumption, OldAssumption DEF Init, TypeOK, CallerPCs, ShellPCs
<1>2. InPlace
  BY OldAssumption DEF Init, InPlace, Closed, Earlier
<1>3. ASSUME NEW w \in Writers PROVE WInv(w)
  BY <1>3 DEF Init, WInv, Kinds, Verified, Temps, Told, Own, Working
<1>4. QED
  BY <1>1, <1>2, <1>3 DEF Inv
\* What a step of w leaves alone: the other writers' part of the state.
Others(w) ==
    /\ job' = job
    /\ \A v \in Writers \ {w} :
        /\ temp'[v] = temp[v] /\ pc'[v] = pc[v] /\ sh'[v] = sh[v] /\ body'[v] = body[v]
        /\ link'[v] = link[v] /\ result'[v] = result[v] /\ (v \in put' <=> v \in put)

\* What a step of w has to establish.
Kept(w) == TypeOK' /\ WInv(w)' /\ Others(w)

\* What the invariant says of w's temporary file while it is being made.
LEMMA Making ==
  ASSUME NEW w \in Writers, Inv
  PROVE  /\ TypeOK /\ WInv(w) /\ job[w] \in JobType
         /\ pc[w] \in {"write", "chmod", "rename", "stat", "relax", "again"} => temp[w] \in FileType
         /\ sh[w] \in {"decode", "chown", "mv"} => temp[w] \in FileType
         /\ pc[w] = "write" => temp[w].mode = Private
         /\ pc[w] = "chmod" => temp[w].part = body[w]
         /\ sh[w] = "decode" => temp[w].mode = Created(w)
         /\ pc[w] = "relax" => seen[w] \in FileType
<1>1. TypeOK /\ WInv(w) /\ job[w] \in JobType
  BY ModeType DEF Inv, TypeOK
<1>2. /\ pc[w] \in {"write", "chmod", "rename", "stat", "relax", "again"} => temp[w] \in FileType
      /\ sh[w] \in {"decode", "chown", "mv"} => temp[w] \in FileType
  BY <1>1, BytesType, PrivateType, WholeType, ModeType DEF WInv, Temps, TypeOK
<1>3. pc[w] = "relax" => seen[w] \in FileType
  BY DEF Inv, InPlace, ReadOnly, TypeOK
<1>4. QED
  BY <1>1, <1>2, <1>3, BytesFields DEF WInv, Temps

\* What a writer's files must look like depends on its job alone.
LEMMA JobFixes ==
  ASSUME NEW w \in Writers, job' = job
  PROVE  Whole(w)' = Whole(w) /\ Created(w)' = Created(w) /\ \A k : Is(w, k)' <=> Is(w, k)
BY DEF Whole, Created, Is, Wanted

-----------------------------------------------------------------------------
(* The callers. *)

\* Begin keeps the invariant of its writer and leaves the others alone.
LEMMA BeginInv ==
  ASSUME NEW w \in Writers, Inv, ~Drops, Begin(w)
  PROVE  Kept(w)
<1> USE DEF Begin, Goto, End, given, target, retry
<1>1. TypeOK /\ WInv(w) /\ job' = job
  BY Making
<1>2. TypeOK'
  BY <1>1 DEF TypeOK, CallerPCs, ShellPCs
<1>3. Kinds(w)' /\ Verified(w)' /\ Told(w)'
  BY <1>1, JobFixes DEF WInv, Kinds, Verified, Told, TypeOK, Working, Is
<1>4. Temps(w)'
  BY <1>1, JobFixes DEF WInv, Temps, Kinds, Verified, TypeOK, Working
<1>5. Own(w)'
  BY <1>1 DEF WInv, Own, Closed
<1>6. QED
  BY <1>1, <1>2, <1>3, <1>4, <1>5 DEF Kept, WInv, Others, TypeOK

\* Fetch keeps the invariant of its writer and leaves the others alone.
LEMMA FetchInv ==
  ASSUME NEW w \in Writers, Inv, ~Drops, Fetch(w)
  PROVE  Kept(w)
<1> USE DEF Fetch, Goto, End, shell, given, target, retry
<1>1. TypeOK /\ WInv(w) /\ job' = job
  BY Making
<1>2. TypeOK'
  BY <1>1 DEF TypeOK, CallerPCs, ShellPCs
<1>3. Kinds(w)' /\ Verified(w)' /\ Told(w)'
  BY <1>1, JobFixes DEF WInv, Kinds, Verified, Told, TypeOK, Working, Is, Rejected
<1>4. Temps(w)'
  BY <1>1, JobFixes DEF WInv, Temps, Kinds, Verified, TypeOK, Working
<1>5. Own(w)'
  BY <1>1 DEF WInv, Own, Closed
<1>6. QED
  BY <1>1, <1>2, <1>3, <1>4, <1>5 DEF Kept, WInv, Others, TypeOK

-----------------------------------------------------------------------------
(* fsx.WriteAtomic. *)

\* Open keeps the invariant of its writer and leaves the others alone.
LEMMA OpenInv ==
  ASSUME NEW w \in Writers, Inv, ~Drops, Open(w)
  PROVE  Kept(w)
<1> USE DEF Open, Goto, End, Temp, shell, given, target, retry
<1>1. TypeOK /\ WInv(w) /\ job' = job
  BY Making
<1>2. temp' \in [Writers -> FileType \cup {None}] /\ file' \in FileType \cup {None}
  BY <1>1, BytesType, PrivateType DEF TypeOK
<1>3. TypeOK'
  BY <1>1, <1>2 DEF TypeOK, CallerPCs, ShellPCs
<1>4. Kinds(w)' /\ Verified(w)' /\ Told(w)'
  BY <1>1, JobFixes DEF WInv, Kinds, Verified, Told, TypeOK, Working
<1>5. Temps(w)'
  BY <1>1, JobFixes DEF WInv, Temps, Kinds, Verified, TypeOK, Working
<1>6. Own(w)'
  BY <1>1 DEF WInv, Own, Closed, TypeOK, Bytes, Private
<1>7. QED
  BY <1>1, <1>3, <1>4, <1>5, <1>6 DEF Kept, WInv, Others, TypeOK

\* Write keeps the invariant of its writer and leaves the others alone.
LEMMA WriteInv ==
  ASSUME NEW w \in Writers, Inv, ~Drops, Write(w)
  PROVE  Kept(w)
<1> USE DEF Write, Goto, Temp, shell, given, target, retry
<1>1. TypeOK /\ WInv(w) /\ job' = job
  BY Making
<1>2. temp' \in [Writers -> FileType \cup {None}] /\ file' \in FileType \cup {None}
  BY <1>1, Making, BytesType, PrivateType DEF TypeOK
<1>3. TypeOK'
  BY <1>1, <1>2 DEF TypeOK, CallerPCs, ShellPCs
<1>4. Kinds(w)' /\ Verified(w)' /\ Told(w)'
  BY <1>1, JobFixes DEF WInv, Kinds, Verified, Told, TypeOK, Working
<1>5. Temps(w)'
  BY <1>1, Making, JobFixes DEF WInv, Temps, Kinds, Verified, TypeOK, Working
<1>6. Own(w)'
  BY <1>1 DEF WInv, Own, Closed, TypeOK, Temps, Bytes, Private
<1>7. QED
  BY <1>1, <1>3, <1>4, <1>5, <1>6 DEF Kept, WInv, Others, TypeOK

\* Chmod keeps the invariant of its writer and leaves the others alone.
LEMMA ChmodInv ==
  ASSUME NEW w \in Writers, Inv, ~Drops, Chmod(w)
  PROVE  Kept(w)
<1> USE DEF Chmod, Goto, Temp, shell, given, target, retry
<1>1. TypeOK /\ WInv(w) /\ job' = job
  BY Making
<1>2. temp' \in [Writers -> FileType \cup {None}] /\ file' \in FileType \cup {None}
  BY <1>1, Making, BytesType, ModeType DEF TypeOK, WInv, Kinds, Working
<1>3. TypeOK'
  BY <1>1, <1>2 DEF TypeOK, CallerPCs, ShellPCs
<1>4. Kinds(w)' /\ Verified(w)' /\ Told(w)'
  BY <1>1, JobFixes DEF WInv, Kinds, Verified, Told, TypeOK, Working
<1>5. pc'[w] = "rename" => temp'[w] \in Whole(w)
  <2>1. pc'[w] = "rename" => temp'[w] = Bytes(w, body[w], job[w].mode)
    BY <1>1, Making DEF TypeOK
  <2>2. ~Is(w, "put") /\ job[w] \in JobType
    BY <1>1, Making DEF WInv, Kinds, Working
  <2>3. body[w] = "whole" \/ (body[w] = "bad" /\ Is(w, "get") /\ ~job[w].sum)
    BY <1>1 DEF WInv, Verified, Working, TypeOK
  <2>4. QED
    BY <2>1, <2>2, <2>3, WholeLocal
<1>6. Temps(w)'
  BY <1>1, <1>5, JobFixes DEF WInv, Temps, Kinds, TypeOK, Working
<1>7. Own(w)'
  BY <1>1, Making, ModeType DEF WInv, Own, Closed, TypeOK, Kinds, Working, Bytes
<1>8. QED
  BY <1>1, <1>3, <1>4, <1>6, <1>7 DEF Kept, WInv, Others, TypeOK

\* Rename keeps the invariant of its writer and leaves the others alone.
LEMMA RenameInv ==
  ASSUME NEW w \in Writers, Inv, ~Drops, Rename(w)
  PROVE  Kept(w)
<1> USE DEF Rename, Goto, shell, Replaced, Temp, given, target, retry
<1>1. TypeOK /\ WInv(w) /\ job' = job
  BY Making
<1>2. temp' \in [Writers -> FileType \cup {None}] /\ file' \in FileType \cup {None}
  BY <1>1 DEF TypeOK
<1>3. TypeOK'
  BY <1>1, <1>2 DEF TypeOK, CallerPCs, ShellPCs
<1>4. Kinds(w)' /\ Verified(w)' /\ Told(w)'
  BY <1>1, JobFixes DEF WInv, Kinds, Verified, Told, TypeOK, Working
<1>5. Temps(w)'
  BY <1>1, JobFixes DEF WInv, Temps, Kinds, Verified, TypeOK, Working
<1>6. Own(w)'
  BY <1>1 DEF WInv, Own, Closed, TypeOK
<1>7. QED
  BY <1>1, <1>3, <1>4, <1>5, <1>6 DEF Kept, WInv, Others, TypeOK

\* Stat keeps the invariant of its writer and leaves the others alone.
LEMMA StatInv ==
  ASSUME NEW w \in Writers, Inv, ~Drops, Stat(w)
  PROVE  Kept(w)
<1> USE DEF Stat, Goto, shell, given, target, retry
<1>1. TypeOK /\ WInv(w) /\ job' = job
  BY Making
<1>2. temp' \in [Writers -> FileType \cup {None}] /\ file' \in FileType \cup {None}
  BY <1>1 DEF TypeOK
<1> tries' \in [Writers -> 0 .. ReplaceAttempts]
  <2>1. tries \in [Writers -> 0 .. ReplaceAttempts] /\ 1 \in 0 .. ReplaceAttempts
    BY <1>1, FilesAssumption DEF TypeOK
  <2>2. QED
    BY <2>1
<1> seen' \in [Writers -> FileType \cup {None}]
  BY <1>1 DEF TypeOK
<1>3. TypeOK'
  BY <1>1, <1>2 DEF TypeOK, CallerPCs, ShellPCs
<1>4. Kinds(w)' /\ Verified(w)' /\ Told(w)'
  BY <1>1, JobFixes DEF WInv, Kinds, Verified, Told, TypeOK, Working
<1>5. Temps(w)'
  BY <1>1, JobFixes DEF WInv, Temps, Kinds, Verified, TypeOK, Working
<1>6. Own(w)'
  BY <1>1 DEF WInv, Own, Closed, TypeOK
<1>7. QED
  BY <1>1, <1>3, <1>4, <1>5, <1>6 DEF Kept, WInv, Others, TypeOK

\* Relax keeps the invariant of its writer and leaves the others alone.
LEMMA RelaxInv ==
  ASSUME NEW w \in Writers, Inv, ~Drops, Relax(w)
  PROVE  Kept(w)
<1> USE DEF Relax, Goto, shell, given, target, retry
<1>1. TypeOK /\ WInv(w) /\ job' = job
  BY Making
<1>2. temp' \in [Writers -> FileType \cup {None}] /\ file' \in FileType \cup {None}
  BY <1>1, Making, RelaxedType DEF TypeOK
<1> tries' \in [Writers -> 0 .. ReplaceAttempts]
  <2>1. tries \in [Writers -> 0 .. ReplaceAttempts] /\ 1 \in 0 .. ReplaceAttempts
    BY <1>1, FilesAssumption DEF TypeOK
  <2>2. QED
    BY <2>1
<1> seen' \in [Writers -> FileType \cup {None}]
  BY <1>1 DEF TypeOK
<1>3. TypeOK'
  BY <1>1, <1>2 DEF TypeOK, CallerPCs, ShellPCs
<1>4. Kinds(w)' /\ Verified(w)' /\ Told(w)'
  BY <1>1, JobFixes DEF WInv, Kinds, Verified, Told, TypeOK, Working
<1>5. Temps(w)'
  BY <1>1, JobFixes DEF WInv, Temps, Kinds, Verified, TypeOK, Working
<1>6. Own(w)'
  BY <1>1 DEF WInv, Own, Closed, TypeOK
<1>7. QED
  BY <1>1, <1>3, <1>4, <1>5, <1>6 DEF Kept, WInv, Others, TypeOK

\* RenameAgain keeps the invariant of its writer and leaves the others alone.
LEMMA RenameAgainInv ==
  ASSUME NEW w \in Writers, Inv, ~Drops, RenameAgain(w)
  PROVE  Kept(w)
<1> USE DEF RenameAgain, Goto, shell, Replaced, Temp, given, target, retry
<1>1. TypeOK /\ WInv(w) /\ job' = job
  BY Making
<1>2. temp' \in [Writers -> FileType \cup {None}] /\ file' \in FileType \cup {None}
  BY <1>1 DEF TypeOK
<1> tries' \in [Writers -> 0 .. ReplaceAttempts]
  <2>1. tries \in [Writers -> 0 .. ReplaceAttempts] /\ 1 \in 0 .. ReplaceAttempts
    BY <1>1, FilesAssumption DEF TypeOK
  <2>2. QED
    BY <2>1, FilesAssumption
<1>3. TypeOK'
  BY <1>1, <1>2 DEF TypeOK, CallerPCs, ShellPCs
<1>4. Kinds(w)' /\ Verified(w)' /\ Told(w)'
  BY <1>1, JobFixes DEF WInv, Kinds, Verified, Told, TypeOK, Working
<1>5. Temps(w)'
  BY <1>1, JobFixes DEF WInv, Temps, Kinds, Verified, TypeOK, Working
<1>6. Own(w)'
  BY <1>1 DEF WInv, Own, Closed, TypeOK
<1>7. QED
  BY <1>1, <1>3, <1>4, <1>5, <1>6 DEF Kept, WInv, Others, TypeOK

\* Cleanup keeps the invariant of its writer and leaves the others alone.
LEMMA CleanupInv ==
  ASSUME NEW w \in Writers, Inv, ~Drops, Cleanup(w)
  PROVE  Kept(w)
<1> USE DEF Cleanup, End, Temp, shell, given, target, retry
<1>1. TypeOK /\ WInv(w) /\ job' = job
  BY Making
<1>2. temp' \in [Writers -> FileType \cup {None}] /\ file' \in FileType \cup {None}
  BY <1>1 DEF TypeOK
<1>3. TypeOK'
  BY <1>1, <1>2 DEF TypeOK, CallerPCs, ShellPCs
<1>4. Kinds(w)' /\ Verified(w)' /\ Told(w)'
  BY <1>1, JobFixes DEF WInv, Kinds, Verified, Told, TypeOK, Working
<1>5. Temps(w)'
  BY <1>1, JobFixes DEF WInv, Temps, Kinds, Verified, TypeOK, Working
<1>6. Own(w)'
  BY <1>1 DEF WInv, Own, Closed, TypeOK
<1>7. QED
  BY <1>1, <1>3, <1>4, <1>5, <1>6 DEF Kept, WInv, Others, TypeOK

\* Return keeps the invariant of its writer and leaves the others alone.
LEMMA ReturnInv ==
  ASSUME NEW w \in Writers, Inv, ~Drops, Return(w)
  PROVE  Kept(w)
<1> USE DEF Return, End, shell, given, target, retry
<1>1. TypeOK /\ WInv(w) /\ job' = job
  BY Making
<1>2. TypeOK'
  BY <1>1 DEF TypeOK, CallerPCs, ShellPCs
<1>3. Kinds(w)' /\ Verified(w)' /\ Told(w)'
  BY <1>1, JobFixes DEF WInv, Kinds, Verified, Told, TypeOK, Working
<1>4. Temps(w)'
  BY <1>1, JobFixes DEF WInv, Temps, Kinds, Verified, TypeOK, Working
<1>5. Own(w)'
  BY <1>1 DEF WInv, Own, Closed
<1>6. QED
  BY <1>1, <1>2, <1>3, <1>4, <1>5 DEF Kept, WInv, Others, TypeOK

\* Crash keeps the invariant of its writer and leaves the others alone.
LEMMA CrashInv ==
  ASSUME NEW w \in Writers, Inv, ~Drops, Crash(w)
  PROVE  Kept(w)
<1> USE DEF Crash, given, target, retry
<1>1. TypeOK /\ WInv(w) /\ job' = job
  BY Making
<1>2. TypeOK'
  BY <1>1 DEF TypeOK, CallerPCs, ShellPCs
<1>3. Kinds(w)' /\ Verified(w)' /\ Told(w)'
  BY <1>1, JobFixes DEF WInv, Kinds, Verified, Told, TypeOK, Working, Sent
<1>4. Temps(w)'
  BY <1>1, JobFixes DEF WInv, Temps, Kinds, Verified, TypeOK, Working
<1>5. Own(w)'
  BY <1>1 DEF WInv, Own, Closed
<1>6. QED
  BY <1>1, <1>2, <1>3, <1>4, <1>5 DEF Kept, WInv, Others, TypeOK

-----------------------------------------------------------------------------
(* The script. *)

\* ShMkdir keeps the invariant of its writer and leaves the others alone.
LEMMA ShMkdirInv ==
  ASSUME NEW w \in Writers, Inv, ~Drops, ShMkdir(w)
  PROVE  Kept(w)
<1> USE DEF ShMkdir, Sh, given, target, retry
<1>1. TypeOK /\ WInv(w) /\ job' = job
  BY Making
<1>2. TypeOK'
  BY <1>1 DEF TypeOK, CallerPCs, ShellPCs
<1>3. Kinds(w)' /\ Verified(w)' /\ Told(w)'
  BY <1>1, JobFixes DEF WInv, Kinds, Verified, Told, TypeOK, Working
<1>4. Temps(w)'
  BY <1>1, JobFixes DEF WInv, Temps, Kinds, Verified, TypeOK, Working
<1>5. Own(w)'
  BY <1>1 DEF WInv, Own, Closed
<1>6. QED
  BY <1>1, <1>2, <1>3, <1>4, <1>5 DEF Kept, WInv, Others, TypeOK

\* ShOpen keeps the invariant of its writer and leaves the others alone.
LEMMA ShOpenInv ==
  ASSUME NEW w \in Writers, Inv, ~Drops, ShOpen(w)
  PROVE  Kept(w)
<1> USE DEF ShOpen, Temp, Sh, given, target, retry
<1>1. TypeOK /\ WInv(w) /\ job' = job
  BY Making
<1>2. temp' \in [Writers -> FileType \cup {None}] /\ file' \in FileType \cup {None}
  BY <1>1, BytesType, ModeType DEF TypeOK
<1>3. TypeOK'
  BY <1>1, <1>2 DEF TypeOK, CallerPCs, ShellPCs
<1>4. Kinds(w)' /\ Verified(w)' /\ Told(w)'
  BY <1>1, JobFixes DEF WInv, Kinds, Verified, Told, TypeOK, Working
<1>5. Temps(w)'
  BY <1>1, JobFixes DEF WInv, Temps, Kinds, Verified, TypeOK, Working
<1>6. Own(w)'
  BY <1>1 DEF WInv, Own, Closed, TypeOK, Bytes, Created
<1>7. QED
  BY <1>1, <1>3, <1>4, <1>5, <1>6 DEF Kept, WInv, Others, TypeOK

\* ShDecode keeps the invariant of its writer and leaves the others alone.
LEMMA ShDecodeInv ==
  ASSUME NEW w \in Writers, Inv, ~Drops, ShDecode(w)
  PROVE  Kept(w)
<1> USE DEF ShDecode, Temp, Sh, given, target, retry
<1>1. TypeOK /\ WInv(w) /\ job' = job
  BY Making
<1>2. temp' \in [Writers -> FileType \cup {None}] /\ file' \in FileType \cup {None}
  BY <1>1, Making, BytesType, ModeType DEF TypeOK
<1>3. TypeOK'
  BY <1>1, <1>2 DEF TypeOK, CallerPCs, ShellPCs
<1>4. Kinds(w)' /\ Verified(w)' /\ Told(w)'
  BY <1>1, JobFixes DEF WInv, Kinds, Verified, Told, TypeOK, Working
<1>5. Temps(w)'
  BY <1>1, Making, JobFixes DEF WInv, Temps, Kinds, Verified, TypeOK, Working
<1>6. Own(w)'
  BY <1>1 DEF WInv, Own, Closed, TypeOK, Temps, Bytes, Created
<1>7. QED
  BY <1>1, <1>3, <1>4, <1>5, <1>6 DEF Kept, WInv, Others, TypeOK

\* ShChown keeps the invariant of its writer and leaves the others alone.
LEMMA ShChownInv ==
  ASSUME NEW w \in Writers, Inv, ~Drops, ShChown(w)
  PROVE  Kept(w)
<1> USE DEF ShChown, Temp, Sh, given, target, retry
<1>1. TypeOK /\ WInv(w) /\ job' = job
  BY Making
<1>2. temp' \in [Writers -> FileType \cup {None}] /\ file' \in FileType \cup {None}
  BY <1>1, Making, ChownType DEF TypeOK
<1>3. TypeOK'
  BY <1>1, <1>2 DEF TypeOK, CallerPCs, ShellPCs
<1>4. Kinds(w)' /\ Verified(w)' /\ Told(w)'
  BY <1>1, JobFixes DEF WInv, Kinds, Verified, Told, TypeOK, Working
<1>5. temp'[w] \in Whole(w)
  <2>1. Is(w, "put") /\ temp[w] = Bytes(w, "whole", Created(w)) /\ job[w] \in JobType
    BY <1>1, Making DEF WInv, Kinds, Temps
  <2>2. temp'[w] = temp[w] \/ (job[w].owned /\ temp'[w] = [temp[w] EXCEPT !.owned = TRUE])
    BY <1>1 DEF TypeOK
  <2>3. QED
    BY <2>1, <2>2, WholeRemote
<1>6. Temps(w)'
  BY <1>1, <1>5, JobFixes DEF WInv, Temps, Kinds, TypeOK, Working
<1>7. temp[w] # None /\ temp'[w].by = temp[w].by /\ temp'[w].mode = temp[w].mode
  <2>1. temp[w] \in FileType
    BY Making
  <2>2. temp'[w] = temp[w] \/ temp'[w] = [temp[w] EXCEPT !.owned = TRUE]
    BY <1>1 DEF TypeOK
  <2>3. temp[w] # None
    BY <2>1, OldAssumption
  <2>4. /\ [temp[w] EXCEPT !.owned = TRUE].by = temp[w].by
        /\ [temp[w] EXCEPT !.owned = TRUE].mode = temp[w].mode
    BY <2>1, ChownType
  <2>5. QED
    BY <2>2, <2>3, <2>4
<1>8. Own(w)'
  BY <1>1, <1>7 DEF WInv, Own, Closed, TypeOK
<1>9. QED
  BY <1>1, <1>3, <1>4, <1>6, <1>8 DEF Kept, WInv, Others, TypeOK

\* ShMv keeps the invariant of its writer and leaves the others alone.
LEMMA ShMvInv ==
  ASSUME NEW w \in Writers, Inv, ~Drops, ShMv(w)
  PROVE  Kept(w)
<1> USE DEF ShMv, Sh, Replaced, Temp, given, target, retry
<1>1. TypeOK /\ WInv(w) /\ job' = job
  BY Making
<1>2. temp' \in [Writers -> FileType \cup {None}] /\ file' \in FileType \cup {None}
  BY <1>1 DEF TypeOK
<1>3. TypeOK'
  BY <1>1, <1>2 DEF TypeOK, CallerPCs, ShellPCs
<1>4. Kinds(w)' /\ Verified(w)' /\ Told(w)'
  BY <1>1, JobFixes DEF WInv, Kinds, Verified, Told, TypeOK, Working
<1>5. Temps(w)'
  BY <1>1, JobFixes DEF WInv, Temps, Kinds, Verified, TypeOK, Working
<1>6. Own(w)'
  BY <1>1 DEF WInv, Own, Closed, TypeOK
<1>7. QED
  BY <1>1, <1>3, <1>4, <1>5, <1>6 DEF Kept, WInv, Others, TypeOK

\* ShRm keeps the invariant of its writer and leaves the others alone.
LEMMA ShRmInv ==
  ASSUME NEW w \in Writers, Inv, ~Drops, ShRm(w)
  PROVE  Kept(w)
<1> USE DEF ShRm, Temp, Sh, given, target, retry
<1>1. TypeOK /\ WInv(w) /\ job' = job
  BY Making
<1>2. temp' \in [Writers -> FileType \cup {None}] /\ file' \in FileType \cup {None}
  BY <1>1 DEF TypeOK
<1>3. TypeOK'
  BY <1>1, <1>2 DEF TypeOK, CallerPCs, ShellPCs
<1>4. Kinds(w)' /\ Verified(w)' /\ Told(w)'
  BY <1>1, JobFixes DEF WInv, Kinds, Verified, Told, TypeOK, Working
<1>5. Temps(w)'
  BY <1>1, JobFixes DEF WInv, Temps, Kinds, Verified, TypeOK, Working
<1>6. Own(w)'
  BY <1>1 DEF WInv, Own, Closed, TypeOK
<1>7. QED
  BY <1>1, <1>3, <1>4, <1>5, <1>6 DEF Kept, WInv, Others, TypeOK

\* ShKilled keeps the invariant of its writer and leaves the others alone.
LEMMA ShKilledInv ==
  ASSUME NEW w \in Writers, Inv, ~Drops, ShKilled(w)
  PROVE  Kept(w)
<1> USE DEF ShKilled, Sh, given, target, retry
<1>1. TypeOK /\ WInv(w) /\ job' = job
  BY Making
<1>2. TypeOK'
  BY <1>1 DEF TypeOK, CallerPCs, ShellPCs
<1>3. Kinds(w)' /\ Verified(w)' /\ Told(w)'
  BY <1>1, JobFixes DEF WInv, Kinds, Verified, Told, TypeOK, Working
<1>4. Temps(w)'
  BY <1>1, JobFixes DEF WInv, Temps, Kinds, Verified, TypeOK, Working
<1>5. Own(w)'
  BY <1>1 DEF WInv, Own, Closed
<1>6. QED
  BY <1>1, <1>2, <1>3, <1>4, <1>5 DEF Kept, WInv, Others, TypeOK

-----------------------------------------------------------------------------
(* The connection, and the caller's verdict. *)

\* Drop keeps the invariant of its writer and leaves the others alone.
LEMMA DropInv ==
  ASSUME NEW w \in Writers, Inv, ~Drops, Drop(w)
  PROVE  Kept(w)
<1> USE DEF Drop, End, given, target, retry
<1>1. TypeOK /\ WInv(w) /\ job' = job
  BY Making
<1>2. TypeOK'
  BY <1>1 DEF TypeOK, CallerPCs, ShellPCs
<1>3. Kinds(w)' /\ Verified(w)' /\ Told(w)'
  BY <1>1, JobFixes DEF WInv, Kinds, Verified, Told, TypeOK, Working, Sent
<1>4. Temps(w)'
  BY <1>1, JobFixes DEF WInv, Temps, Kinds, Verified, TypeOK, Working
<1>5. Own(w)'
  BY <1>1 DEF WInv, Own, Closed
<1>6. QED
  BY <1>1, <1>2, <1>3, <1>4, <1>5 DEF Kept, WInv, Others, TypeOK

\* Check keeps the invariant of its writer and leaves the others alone.
LEMMA CheckInv ==
  ASSUME NEW w \in Writers, Inv, ~Drops, Check(w)
  PROVE  Kept(w)
<1> USE DEF Check, End, shell, given, target, retry
<1>1. TypeOK /\ WInv(w) /\ job' = job
  BY Making
<1>2. TypeOK'
  BY <1>1 DEF TypeOK, CallerPCs, ShellPCs
<1>3. Kinds(w)' /\ Verified(w)' /\ Told(w)'
  BY <1>1, JobFixes DEF WInv, Kinds, Verified, Told, TypeOK, Working
<1>4. Temps(w)'
  BY <1>1, JobFixes DEF WInv, Temps, Kinds, Verified, TypeOK, Working
<1>5. Own(w)'
  BY <1>1 DEF WInv, Own, Closed
<1>6. QED
  BY <1>1, <1>2, <1>3, <1>4, <1>5 DEF Kept, WInv, Others, TypeOK

-----------------------------------------------------------------------------
(* The theorems. *)

\* Every step is one writer's, and keeps its invariant.
LEMMA StepKeeps == ASSUME Inv, ~Drops, Next PROVE \E w \in Writers : Kept(w)
<1>1. ASSUME NEW w \in Writers, Local(w) PROVE Kept(w)
  BY <1>1, OpenInv, WriteInv, ChmodInv, RenameInv, StatInv, RelaxInv, RenameAgainInv,
     CleanupInv, ReturnInv DEF Local
<1>2. ASSUME NEW w \in Writers, Shell(w) PROVE Kept(w)
  BY <1>2, ShMkdirInv, ShOpenInv, ShDecodeInv, ShChownInv, ShMvInv, ShRmInv DEF Shell
<1>3. ASSUME NEW w \in Writers,
             Begin(w) \/ Fetch(w) \/ Crash(w) \/ ShKilled(w) \/ Drop(w) \/ Check(w)
      PROVE  Kept(w)
  BY <1>3, BeginInv, FetchInv, CrashInv, ShKilledInv, DropInv, CheckInv
<1>4. QED
  BY <1>1, <1>2, <1>3 DEF Next

\* A step that installs nothing, reads no mode and sets none.
LEMMA FileStays ==
  ASSUME InPlace, UNCHANGED <<given, target, seen, put>>,
         \A v \in Writers : pc'[v] = "relax" => pc[v] = "relax"
  PROVE  InPlace'
<1>1. ASSUME NEW v \in Writers
      PROVE  /\ Closed(seen[v]) => Closed(seen[v])'
             /\ Earlier(seen[v]) => Earlier(seen[v])'
  BY DEF Closed, Earlier, Wanted, Whole, Created, Is, given
<1>2. /\ Closed(file) => Closed(file)'
      /\ Earlier(file) => Earlier(file)'
  BY DEF Closed, Earlier, Wanted, Whole, Created, Is, given, target
<1>3. QED
  BY <1>1, <1>2 DEF InPlace, ReadOnly, target

\* A rename puts a whole version in place, at the mode its writer asked for.
LEMMA FileReplaced ==
  ASSUME Inv, NEW w \in Writers, Replaced(w), UNCHANGED <<given, seen>>, temp[w] \in Whole(w),
         \A v \in Writers : pc'[v] = "relax" => pc[v] = "relax"
  PROVE  InPlace'
<1>1. put \subseteq put' /\ w \in put' /\ file' = temp[w] /\ misset' = FALSE
  BY DEF Replaced
<1>2. temp[w] # None
  BY WholeType, OldAssumption DEF Inv, TypeOK
<1>3. Closed(temp[w])
  BY <1>2 DEF Inv, WInv, Own
<1>4. Closed(file)'
  BY <1>1, <1>3 DEF Closed, Wanted, given
<1>5. Earlier(file)'
  BY <1>1 DEF Earlier, Whole, Created, Is, Wanted, given
<1>6. ASSUME NEW v \in Writers, pc'[v] = "relax"
      PROVE  ReadOnly(seen[v])' /\ Closed(seen[v])' /\ Earlier(seen[v])'
  <2>1. ReadOnly(seen[v]) /\ Closed(seen[v]) /\ Earlier(seen[v])
    BY <1>6 DEF Inv, InPlace
  <2>2. QED
    BY <1>1, <2>1 DEF ReadOnly, Closed, Earlier, Wanted, Whole, Created, Is, given
<1>7. QED
  BY <1>1, <1>4, <1>5, <1>6 DEF InPlace

\* A Stat that finds a read-only file reads the mode of a version as installed.
LEMMA FileStatted == ASSUME Inv, NEW w \in Writers, Stat(w) PROVE InPlace'
<1>1. /\ UNCHANGED <<given, target, put>>
      /\ Closed(file) => Closed(file)'
      /\ Earlier(file) => Earlier(file)'
  BY DEF Stat, Closed, Earlier, Wanted, Whole, Created, Is, given, target
<1>2. InPlace /\ TypeOK
  BY DEF Inv
<1>3. ASSUME NEW v \in Writers, pc'[v] = "relax"
      PROVE  ReadOnly(seen[v])' /\ Closed(seen[v])' /\ Earlier(seen[v])'
  <2>1. CASE v = w
    <3>1. seen'[v] = file /\ ReadOnly(file)
      BY <1>2, <1>3, <2>1 DEF Stat, Goto, TypeOK
    <3>2. Closed(file) /\ Earlier(file)
      BY <1>2, <3>1 DEF InPlace, ReadOnly
    <3>3. QED
      BY <1>1, <3>1, <3>2 DEF ReadOnly, Closed, Earlier, Wanted, Whole, Created, Is, given, target
  <2>2. CASE v # w
    <3>1. seen'[v] = seen[v] /\ pc[v] = "relax"
      BY <1>2, <1>3, <2>2 DEF Stat, Goto, TypeOK
    <3>2. ReadOnly(seen[v]) /\ Closed(seen[v]) /\ Earlier(seen[v])
      BY <1>2, <3>1 DEF InPlace
    <3>3. QED
      BY <1>1, <3>1, <3>2 DEF ReadOnly, Closed, Earlier, Wanted, Whole, Created, Is, given
  <2>3. QED
    BY <2>1, <2>2
<1>4. QED
  BY <1>1, <1>2, <1>3 DEF InPlace, ReadOnly, target

\* The Chmod of clearReadOnly: of the file whose mode was read it makes one no
\* more open, and of any other one that is misset.
LEMMA FileRelaxed == ASSUME Inv, NEW w \in Writers, Relax(w) PROVE InPlace'
<1>1. InPlace /\ TypeOK /\ UNCHANGED <<given, put>> /\ pc[w] = "relax"
  BY DEF Inv, Relax
<1>2. ASSUME NEW v \in Writers, pc'[v] = "relax"
      PROVE  ReadOnly(seen[v])' /\ Closed(seen[v])' /\ Earlier(seen[v])'
  <2>1. seen'[v] = seen[v] /\ pc[v] = "relax"
    BY <1>1, <1>2 DEF Relax, Goto, TypeOK
  <2>2. ReadOnly(seen[v]) /\ Closed(seen[v]) /\ Earlier(seen[v])
    BY <1>1, <2>1 DEF InPlace
  <2>3. QED
    BY <1>1, <2>1, <2>2 DEF ReadOnly, Closed, Earlier, Wanted, Whole, Created, Is, given
<1>3. CASE UNCHANGED target
  <2>1. /\ Closed(file) => Closed(file)'
        /\ Earlier(file) => Earlier(file)'
    BY <1>1, <1>3 DEF Closed, Earlier, Wanted, Whole, Created, Is, given, target
  <2>2. QED
    BY <1>1, <1>2, <1>3, <2>1 DEF InPlace, ReadOnly, target
<1>4. CASE file # None /\ file' = Relaxed(file, seen[w]) /\ misset' = (file.by # seen[w].by)
  <2>1. file \in FileType /\ seen[w] \in FileType /\ Closed(seen[w]) /\ seen[w] # None
    BY <1>1, <1>4, Making DEF TypeOK, InPlace, ReadOnly
  <2>2. /\ file' # None /\ file'.by = file.by
        /\ file'.mode = seen[w].mode \cup {"write"}
    BY <1>4, <2>1, RelaxedType, OldAssumption
  <2>3. ~misset' => Closed(file)'
    <3> SUFFICES ASSUME file.by = seen[w].by PROVE Closed(file)'
      BY <1>4
    <3>1. job' = job
      BY <1>1 DEF given
    <3>2. QED
      BY <2>1, <2>2, <3>1 DEF Closed, Wanted
  <2>4. QED
    BY <1>2, <1>4, <2>2, <2>3 DEF InPlace, ReadOnly
<1>5. QED
  BY <1>3, <1>4 DEF Relax

\* So every step leaves a file in place that is as it should be.
LEMMA FileMoves == ASSUME Inv, ~Drops, Next PROVE InPlace'
<1>1. InPlace /\ TypeOK
  BY DEF Inv
<1> DEFINE Still == /\ UNCHANGED <<given, target, seen, put>>
                    /\ \A v \in Writers : pc'[v] = "relax" => pc[v] = "relax"
<1>2. Still => InPlace'
  BY <1>1, FileStays
<1>3. ASSUME NEW w \in Writers, Rename(w) \/ RenameAgain(w) \/ ShMv(w) PROVE InPlace'
  <2>1. /\ UNCHANGED <<given, seen>>
        /\ \A v \in Writers : pc'[v] = "relax" => pc[v] = "relax"
    BY <1>1, <1>3 DEF Rename, RenameAgain, ShMv, Goto, retry, TypeOK
  <2>2. temp[w] \in Whole(w)
    BY <1>3 DEF Inv, WInv, Temps, Rename, RenameAgain, ShMv
  <2>3. Replaced(w) \/ UNCHANGED <<target, put>>
    BY <1>3 DEF Rename, RenameAgain, ShMv
  <2>4. QED
    BY <1>2, <2>1, <2>2, <2>3, FileReplaced
<1>4. ASSUME NEW w \in Writers, Stat(w) \/ Relax(w) PROVE InPlace'
  BY <1>4, FileStatted, FileRelaxed
<1>5. ASSUME NEW w \in Writers,
             \/ Begin(w) \/ Fetch(w) \/ Open(w) \/ Write(w) \/ Chmod(w) \/ Cleanup(w) \/ Return(w)
      PROVE  Still
  BY <1>1, <1>5 DEF Begin, Fetch, Open, Write, Chmod, Cleanup, Return, Goto, End, retry, TypeOK
<1>6. ASSUME NEW w \in Writers,
             \/ Crash(w) \/ ShMkdir(w) \/ ShOpen(w) \/ ShDecode(w) \/ ShChown(w) \/ ShRm(w)
             \/ ShKilled(w) \/ Drop(w) \/ Check(w)
      PROVE  Still
  BY <1>1, <1>6 DEF Crash, ShMkdir, ShOpen, ShDecode, ShChown, ShRm, ShKilled, Drop, Check, End,
                    retry, TypeOK
<1>7. QED
  BY <1>2, <1>3, <1>4, <1>5, <1>6 DEF Next, Local, Shell

\* Every step keeps the invariant.
LEMMA NextInv == Inv /\ ~Drops /\ [Next]_vars => Inv'
<1> SUFFICES ASSUME Inv, ~Drops, [Next]_vars PROVE Inv'
  OBVIOUS
<1>1. CASE Next
  <2>1. PICK w \in Writers : Kept(w)
    BY <1>1, StepKeeps
  <2>2. ASSUME NEW v \in Writers \ {w} PROVE WInv(v)'
    BY <2>1, <2>2, Frame DEF Kept, Others, Inv
  <2>3. QED
    BY <1>1, <2>1, <2>2, FileMoves DEF Kept, Inv
<1>2. CASE UNCHANGED vars
  <2> USE DEF vars, given, target, retry, shell
  <2>1. ASSUME NEW v \in Writers PROVE WInv(v)'
    BY <1>2, <2>1, Frame DEF Inv
  <2>2. TypeOK'
    BY <1>2 DEF Inv, TypeOK
  <2>3. InPlace'
    BY <1>2, FileStays DEF Inv
  <2>4. QED
    BY <2>1, <2>2, <2>3 DEF Inv
<1>3. QED
  BY <1>1, <1>2

\* So it holds of every behaviour.
LEMMA Invariance == ASSUME ~Drops PROVE Spec => []Inv
BY InitInv, NextInv, PTL DEF Spec

\* WriteAtomic's CreateTemp and chmod and WriteFileOwner's umask: the bytes of a
\* credential are in no file, temporary ones included, that is more open than
\* was asked for, for any writers and jobs.
THEOREM NothingIsExposed == ASSUME ~Drops PROVE Spec => []NeverExposed
<1>1. Inv => NeverExposed
  BY DEF Inv, InPlace, WInv, Own, Closed, NeverExposed, Exposed
<1>2. QED
  BY <1>1, Invariance, PTL

\* "Removed on every failure path" of WriteAtomic and of the script: whatever
\* fails, and however often, a writer that was not killed leaves no temporary
\* file.
THEOREM NothingIsLeft == ASSUME ~Drops PROVE Spec => []NoLitter
<1>1. Inv => NoLitter
  BY DEF Inv, WInv, Temps, NoLitter
<1>2. QED
  BY <1>1, Invariance, PTL

\* One step of the code is one of AtomicFile, or shows nothing.
LEMMA StepImplements == Inv /\ ~Drops /\ [Next]_vars => [Abstract!Next]_(Abstract!avars)
<1> SUFFICES ASSUME Inv, ~Drops, [Next]_vars PROVE [Abstract!Next]_(Abstract!avars)
  OBVIOUS
<1> DEFINE want == [w \in Writers |-> Whole(w)]
<1> DEFINE sure == {w \in Writers : ~Is(w, "put")}
<1>1. job' = job => want' = want /\ sure' = sure
  BY JobFixes
<1>2. ASSUME UNCHANGED <<given, target, put, result>> PROVE UNCHANGED Abstract!avars
  BY <1>1, <1>2 DEF Abstract!avars, given, target
<1>3. ASSUME NEW w \in Writers, UNCHANGED given, Replaced(w), UNCHANGED result, temp[w] \in Whole(w),
             w \notin put, result[w] = "none" \/ (result[w] = "error" /\ w \notin sure)
      PROVE  Abstract!Next
  <2>1. Abstract!Install(w)
    BY <1>1, <1>3 DEF Abstract!Install, Replaced, given
  <2>2. QED
    BY <2>1 DEF Abstract!Next
<1>4. ASSUME NEW w \in Writers, NEW r \in {"nil", "error", "rehearsed"}, End(w, r),
             UNCHANGED <<given, target, put>>, result[w] = "none", r = "nil" => w \in put,
             r = "rehearsed" => w \notin put, r = "error" /\ w \in sure => w \notin put
      PROVE  Abstract!Next
  <2>1. Abstract!Return(w, r)
    BY <1>1, <1>4 DEF Abstract!Return, End, given, target
  <2>2. QED
    BY <2>1 DEF Abstract!Next
<1>5. ASSUME NEW w \in Writers PROVE TypeOK /\ WInv(w)
  BY <1>5 DEF Inv
<1> USE DEF Goto
<1>6. ASSUME NEW w \in Writers, Begin(w) \/ Fetch(w) PROVE [Abstract!Next]_(Abstract!avars)
  <2>1. result[w] = "none" /\ w \notin put
    BY <1>5, <1>6 DEF WInv, Told, Kinds, Begin, Fetch
  <2>2. QED
    BY <1>2, <1>4, <1>6, <2>1 DEF Begin, Fetch
<1>7. ASSUME NEW w \in Writers, Open(w) \/ Write(w) \/ Chmod(w) \/ Cleanup(w) \/ Return(w)
      PROVE  [Abstract!Next]_(Abstract!avars)
  <2>1. result[w] = "none" /\ (w \in put <=> pc[w] = "return")
    BY <1>5, <1>7 DEF WInv, Told, Kinds, Working, Open, Write, Chmod, Cleanup, Return
  <2>2. QED
    BY <1>2, <1>4, <1>7, <2>1 DEF Open, Write, Chmod, Cleanup, Return
<1>8. ASSUME NEW w \in Writers, Rename(w) \/ RenameAgain(w) PROVE [Abstract!Next]_(Abstract!avars)
  <2>1. result[w] = "none" /\ w \notin put /\ temp[w] \in Whole(w)
    BY <1>5, <1>8 DEF WInv, Told, Kinds, Temps, Working, Rename, RenameAgain
  <2>2. QED
    BY <1>2, <1>3, <1>8, <2>1 DEF Rename, RenameAgain
<1>9. ASSUME NEW w \in Writers, Stat(w) \/ Relax(w) PROVE [Abstract!Next]_(Abstract!avars)
  <2>1. CASE UNCHANGED <<given, target, put, result>>
    BY <1>2, <2>1
  <2>2. CASE Relax(w) /\ file' = Relaxed(file, seen[w])
    <3>1. result[w] = "none" /\ w \notin put /\ ~Is(w, "put")
      BY <1>5, <2>2 DEF WInv, Told, Kinds, Working, Relax
    <3>2. ReadOnly(seen[w]) /\ Earlier(seen[w])
      BY <2>2 DEF Inv, InPlace, Relax
    <3>3. seen[w] \in {old} \cup UNION {want[v] : v \in put}
      BY <1>5, <3>2 DEF Earlier, TypeOK
    <3>4. Abstract!Relax(w)
      BY <1>1, <2>2, <3>1, <3>2, <3>3 DEF Abstract!Relax, Relax, given
    <3>5. QED
      BY <3>4 DEF Abstract!Next
  <2>3. QED
    BY <1>9, <2>1, <2>2 DEF Stat, Relax
<1>10. ASSUME NEW w \in Writers, ShMv(w) PROVE [Abstract!Next]_(Abstract!avars)
  <2>1. Is(w, "put") /\ w \notin put /\ temp[w] \in Whole(w)
    BY <1>5, <1>10 DEF WInv, Told, Kinds, Temps, ShMv
  <2>2. result[w] \in {"none", "error"}
    BY <1>5, <1>10 DEF WInv, Told, TypeOK, ShMv
  <2>3. QED
    BY <1>2, <1>3, <1>10, <2>1, <2>2 DEF ShMv
<1>11. ASSUME NEW w \in Writers, Drop(w) \/ Check(w) PROVE [Abstract!Next]_(Abstract!avars)
  <2>1. Is(w, "put") /\ result[w] = "none" /\ (sh[w] = "exit0" => w \in put)
    BY <1>5, <1>11 DEF WInv, Told, Kinds, Drop, Check
  <2>2. QED
    BY <1>4, <1>11, <2>1 DEF Drop, Check
<1>12. ASSUME NEW w \in Writers,
              \/ Crash(w) \/ ShMkdir(w) \/ ShOpen(w) \/ ShDecode(w) \/ ShChown(w) \/ ShRm(w)
              \/ ShKilled(w)
       PROVE  UNCHANGED Abstract!avars
  BY <1>2, <1>12 DEF Crash, ShMkdir, ShOpen, ShDecode, ShChown, ShRm, ShKilled
<1>13. CASE UNCHANGED vars
  BY <1>2, <1>13 DEF vars, target
<1>14. QED
  BY <1>6, <1>7, <1>8, <1>9, <1>10, <1>11, <1>12, <1>13 DEF Next, Local, Shell

\* The refinement: any number of local and remote writers of a path, with their
\* failures, retries, crashes and late shells, implement the atomic file.
THEOREM Implements == ASSUME ~Drops PROVE Spec => WritesAtomically
<1>1. Init => Abstract!Init
  BY DEF Init, Abstract!Init
<1>2. QED
  BY <1>1, Invariance, StepImplements, PTL DEF Spec, WritesAtomically, Abstract!Spec
=============================================================================
