------------------------------ MODULE MCRunner ------------------------------
\* Two checkouts of one repository, three processes.
EXTENDS Runner, TLC

CONSTANTS p1, p2, r1, r2, r3, engine, kit

MCProjects == {p1, p2}
MCProcs == {r1, r2, r3}
MCContents == {"one", "two", "broken"}
MCCommands == [c \in MCContents |->
                 CASE c = "one" -> {"deploy"}
                   [] c = "two" -> {"deploy", "plan"}
                   [] OTHER     -> {"deploy"}]
MCCompiles == {"one", "two"}
MCCheckouts == {(p1 :> "one") @@ (p2 :> "one"),
                (p1 :> "broken") @@ (p2 :> None)}
\* An engine under development that replaces a module which replaces it.
MCModules == {engine, kit}
MCReplaces == ("one" :> <<engine>>) @@ ("two" :> <<>>) @@ ("broken" :> <<>>)
              @@ (engine :> <<kit, engine>>) @@ (kit :> <<engine>>)
MCNameOf == (p1 :> 1) @@ (p2 :> 2)
MCJobs ==
  (r1 :> {[verb |-> "run", at |-> p1]}) @@
  (r2 :> {[verb |-> "run", at |-> p1], [verb |-> "plan", at |-> p2]}) @@
  (r3 :> {[verb |-> v, at |-> p2] : v \in {"prune", "clean", "init", "list"}})
=============================================================================
