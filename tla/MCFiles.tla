------------------------------ MODULE MCFiles -------------------------------
(* Two writers of one path, each with any of eight jobs, over no file, a     *)
(* public one, a read-only one and one that is both.                         *)
EXTENDS Files

CONSTANTS w1, w2
MCWriters == {w1, w2}
MCOne == {w1}

Job(kind, mode) == [kind |-> kind, mode |-> mode, secret |-> FALSE, sensitive |-> FALSE,
                    owned |-> FALSE, sum |-> FALSE, dry |-> FALSE]

MCJobs == {Job("fsx", {}), Job("set", Private), Job("set", Public),
           [Job("get", Public) EXCEPT !.sum = TRUE], Job("get", Public),
           [Job("put", None) EXCEPT !.secret = TRUE, !.owned = TRUE],
           Job("put", Bits), [Job("put", None) EXCEPT !.dry = TRUE]}

MCLocal == {Job("set", Private)}

MCRemote == {[Job("put", None) EXCEPT !.sensitive = TRUE]}

MCOld == {None} \cup [by: {"nobody"}, part: {"whole"}, mode: {Public, {"others"}, {}}, owned: {FALSE}]
=============================================================================
