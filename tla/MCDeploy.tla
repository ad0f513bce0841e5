------------------------------ MODULE MCDeploy ------------------------------
(* Instances of Deploy: the pipelines README.md and docs/steps/README.md    *)
(* show, on a host with two old containers, two new ones and one foreign    *)
(* container whose name contains the prefix.                                *)
EXTENDS Deploy

MCOwn     == {"app-old-0", "app-old-1", "app-web-0", "app-job-0"}
MCMatches == MCOwn \cup {"my-app-db"}
MCRelease == <<"app-web-0", "app-job-0">>
MCRouted  == {"app-web-0"}

\* The steps of docs/steps/README.md and README.md that matter to each other,
\* in their order: publish; fetch, start, switch, retire; migrate and roll out.
Publish  == <<"resolve-commit", "build-image", "registry-login", "push-image", "prune-image">>
Switched == <<"resolve-env", "use-image", "pull-image", "start-processes", "wait-healthy",
              "switch-traffic", "stop-previous">>
Migrated == <<"resolve-env", "use-image", "run-once", "start-processes", "wait-healthy",
              "stop-previous">>

\* README.md as printed: nothing provides the environment Start requires.
Printed == <<"resolve-commit", "build-image", "run-once", "start-processes", "wait-healthy",
             "switch-traffic", "stop-previous">>

MCPlans == {Publish, Switched, Migrated, Printed}

\* Publishing alone: the pipeline ends in a registry step.
PublishPlans == {<<"resolve-commit", "build-image", "push-image">>}

\* They keep the order that the theorems about Deploy assume of its author.
ASSUME MCOrderly == \A p \in MCPlans : Orderly(p)

MCReplacing == {Migrated}

RetirePlans == {Migrated}

AllPipelines == {Steps(p) : p \in MCPlans \cup PublishPlans}

MCFragile == {"app-web-0"}

MCPrevious == {{"app-old-0", "app-old-1"}, {"app-old-0", "app-web-0"}}
ForeignPrevious == {{"app-old-0", "my-app-db"}}
=============================================================================
