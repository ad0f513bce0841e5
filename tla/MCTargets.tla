------------------------------ MODULE MCTargets ------------------------------
(* Definitions of up to three functions drawn from a pool with every shape,   *)
(* names that differ in case only, a name that is also a directory, a         *)
(* directory with a capital, two with one alias, and one nobody may import.   *)
EXTENDS Targets, TLC

Err == <<[type |-> "error", names |-> 0]>>
Fn(d, n, r, p) == [dir |-> d, name |-> n, generic |-> FALSE, results |-> r, params |-> p]

MCDecls == {
    Fn("", "Deploy", Err, <<"ctx", "...string">>), Fn("", "DEPLOY", Err, <<>>),
    Fn("", "DEPLOY", Err, <<"other">>), Fn("", "Secrets", <<>>, <<>>), Fn("", "Push", Err, <<"ctx", "other">>),
    [Fn("", "Push", Err, <<"ctx">>) EXCEPT !.generic = TRUE],
    Fn("secrets", "Push", Err, <<"...string">>), Fn("secrets", "Deploy", Err, <<"ctx">>),
    Fn("Secrets", "Deploy", Err, <<"...string">>), Fn("internal", "Deploy", Err, <<>>),
    Fn("a-b", "Push", Err, <<>>), Fn("a_b", "Push", Err, <<>>),
    Fn("a-b", "Deploy", <<[type |-> "error", names |-> 2]>>, <<"ctx">>),
    Fn("a-b", "Deploy", <<[type |-> "int", names |-> 0], [type |-> "error", names |-> 0]>>, <<>>)}

MCWords == {"Deploy", "push", "secrets", "a-b", "-h", "--json", "--debug", "--debug=bad"}

MCFold == [w \in MCWords \cup {"", "DEPLOY", "Secrets", "Push", "internal", "a_b"} |->
             CASE w \in {"Deploy", "DEPLOY"} -> "deploy" [] w = "Secrets" -> "secrets"
               [] w = "Push" -> "push" [] OTHER -> w]
MCAlias == [d \in {"", "secrets", "Secrets", "internal", "a-b", "a_b"} |->
              IF d = "a-b" THEN "a_b" ELSE d]
=============================================================================
