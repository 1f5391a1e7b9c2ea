-------------------------------- MODULE Provision --------------------------------
(***************************************************************************)
(* Putting the system on its platforms (scripts/provision_render.py and    *)
(* provision_turso.py): calls of two services' APIs, any of which may      *)
(* fail, by a script that is run again until it ends.                      *)
(***************************************************************************)
EXTENDS Integers, Sequences, FiniteSets, SequencesExt, FiniteSetsExt

-----------------------------------------------------------------------------
(* Render. A service has a plan, its own auto-deploy, the variables it is  *)
(* given and those its last deploy was built with. The variables are       *)
(* abstracted to the access token among them: NoToken before any, or the   *)
(* number of the run that made it. The platform deploys a service it       *)
(* creates at once, and may refuse to turn its auto-deploy off.            *)
NoToken == 0
Absent == [exists |-> FALSE, plan |-> "free", auto |-> FALSE, token |-> NoToken, deployed |-> NoToken]
Service(plan, auto, token) == [exists |-> TRUE, plan |-> plan, auto |-> auto, token |-> token, deployed |-> NoToken]
Before == {Absent} \cup {Service(p, a, t) : p \in {"free", "paid"}, a \in BOOLEAN, t \in {NoToken, 9}}

\* fails: the call that does not come back, 0 for none; given: the plan a new service gets.
Calls == <<"find", "create", "get", "patch", "env_vars", "put", "deploy">>
RenderRuns == [fails : 0..7, given : {"free", "paid"}, obeys : BOOLEAN, secrets : BOOLEAN, deploys : BOOLEAN]
Usual(run) == run.given = "free" /\ run.obeys
RenderInputs == [before : Before, runs : {<<a>> : a \in RenderRuns} \cup {<<a, b>> : a \in {r \in RenderRuns : r.secrets}, b \in {r \in RenderRuns : Usual(r) /\ r.secrets}}]

\* assert_free_service: of what the platform answers, never of what was asked for.
assert_free_service(service) == service.exists /\ service.plan = "free"

\* reconcile_auto_deploy: patched when it is on, and an error when it stays on.
reconcile_auto_deploy(service, run) == IF service.auto /\ run.obeys THEN [service EXCEPT !.auto = FALSE] ELSE service

\* provision: what the service is after the run, and whether the run ended well.
render_provision(service, run, number) ==
    LET comesBack(call) == run.fails = 0 \/ Calls[run.fails] # call
        found == run.secrets /\ comesBack("find")
        created == found /\ ~service.exists /\ comesBack("create")
        there == IF created THEN Service(run.given, FALSE, NoToken) ELSE service
        free == found /\ there.exists /\ comesBack("get") /\ assert_free_service(there)
        quiet == IF free /\ comesBack("patch") THEN reconcile_auto_deploy(there, run) ELSE there
        agreed == free /\ (comesBack("patch") \/ ~there.auto) /\ ~quiet.auto
        known == agreed /\ (created \/ comesBack("env_vars"))
        token == IF created \/ quiet.token = NoToken THEN number ELSE quiet.token
        written == IF known /\ comesBack("put") THEN [quiet EXCEPT !.token = token] ELSE quiet
        deployed == known /\ comesBack("put") /\ comesBack("deploy")
    IN  [service |-> IF deployed /\ run.deploys THEN [written EXCEPT !.deployed = token] ELSE written,
         ok |-> known /\ comesBack("put") /\ (deployed \/ ~run.deploys), token |-> token,
         writes |-> (IF quiet # there THEN 1 ELSE 0) + (IF written # quiet THEN 1 ELSE 0)]

Provisioned(i) ==
    LET after[n \in 0..Len(i.runs)] ==
            IF n = 0 THEN [service |-> i.before, ok |-> FALSE, token |-> NoToken, writes |-> 0]
            ELSE render_provision(after[n - 1].service, i.runs[n], n)
    IN  after

(***************************************************************************)
(* A run that ends well leaves a free service whose own auto-deploy is     *)
(* off, built with the variables the run set and with the token it         *)
(* printed; a run after one that was cut short anywhere ends so as well; a *)
(* token that was once set is never replaced; and a service that is not    *)
(* free is never written to (provision_render.provision).                  *)
(***************************************************************************)
ProvisionedAsAgreed(i) ==
    LET after == Provisioned(i)
    IN  \A n \in DOMAIN i.runs :
            LET was == after[n - 1].service
                now == after[n].service
                run == i.runs[n]
            IN  /\ after[n].ok => /\ now.exists /\ now.plan = "free" /\ ~now.auto
                                  /\ now.token = after[n].token /\ (run.deploys => now.deployed = now.token)
                /\ was.token # NoToken => now.token = was.token
                /\ now.plan = "paid" => after[n].writes = 0 /\ ~after[n].ok
                /\ (run.fails = 0 /\ Usual(run) /\ run.secrets /\ was.plan = "free") => after[n].ok
                /\ ~run.secrets => now = was

-----------------------------------------------------------------------------
(* Turso. A group is asked for once and its machine may take longer than   *)
(* the run waits; a database is made in it, or found.                      *)
TursoRuns == [ready : BOOLEAN, fails : {"nothing", "groups", "create_group", "create_database", "token"},
              answers : {"nothing", "another", "no_tables", "orphans_taken", "one"}]
TursoInputs == [group : {"absent", "pending", "ready"}, runs : SeqOf(TursoRuns, 2)]

\* ensure_group: a group that is there already is not waited for.
ensure_group(group, run) ==
    IF run.fails = "groups" THEN [group |-> group, ok |-> FALSE]
    ELSE IF group # "absent" THEN [group |-> group, ok |-> TRUE]
    ELSE IF run.fails = "create_group" THEN [group |-> group, ok |-> FALSE]
    ELSE [group |-> IF run.ready THEN "ready" ELSE "pending", ok |-> run.ready]

\* The two questions put to the new database; that it takes orphans is only a warning.
parity_smoke(run) ==
    [problems |-> run.answers \in {"nothing", "another", "no_tables"},
     foreign_keys_enforced |-> IF run.answers \in {"nothing", "another", "no_tables"} THEN "unknown"
                               ELSE IF run.answers = "one" THEN "yes" ELSE "no"]

\* provision and main: ready, the pending group became ready before the run asks for the
\* database, which it refuses otherwise; the values are handed on after the parity smoke.
turso_provision(state, run) ==
    LET waited == ensure_group(state.group, run)
        group == IF waited.group = "pending" /\ run.ready THEN "ready" ELSE waited.group
        made == waited.ok /\ (state.database \/ (group = "ready" /\ run.fails # "create_database"))
        usable == made /\ run.fails # "token" /\ ~parity_smoke(run).problems
    IN  [group |-> group, database |-> state.database \/ made, databases |-> state.databases + (IF made /\ ~state.database THEN 1 ELSE 0),
         handoff |-> state.handoff \/ usable, ok |-> usable]

Tursos(i) ==
    LET after[n \in 0..Len(i.runs)] ==
            IF n = 0 THEN [group |-> i.group, database |-> FALSE, databases |-> 0, handoff |-> FALSE, ok |-> FALSE]
            ELSE turso_provision(after[n - 1], i.runs[n])
    IN  after

(***************************************************************************)
(* However often it is run there is one database; a run ends well only     *)
(* with a database that answered, in a group that is ready, and only then  *)
(* are its values handed on; and a run in which nothing fails ends well,   *)
(* whatever the one before it left (provision_turso.provision, main).      *)
(***************************************************************************)
OneDatabase(i) ==
    LET after == Tursos(i)
    IN  \A n \in DOMAIN i.runs :
          /\ after[n].databases <= 1
          /\ after[n].ok => after[n].database /\ after[n].group = "ready" /\ after[n].handoff /\ parity_smoke(i.runs[n]).foreign_keys_enforced # "unknown"
          /\ (after[n].handoff /\ ~after[n - 1].handoff) => after[n].ok
          /\ (i.runs[n].fails = "nothing" /\ i.runs[n].ready /\ i.runs[n].answers = "one") => after[n].ok
=============================================================================
