----------------------------- MODULE Deployment ------------------------------
(***************************************************************************)
(* A production server: the commands of scripts/deploy.py, what Compose    *)
(* makes of deploy/compose/compose.yml, and the workers of the backend     *)
(* container, from their lifespan to the bucket they share.                *)
(*                                                                         *)
(* Nothing keeps two operators from running commands at once: a `deploy`,  *)
(* which is three subcommands, overlaps with single commands, of which     *)
(* another `deploy` is a sequence.  A version of the code is a number,     *)
(* which its newest migration has too.  Docker, Compose, alembic, the      *)
(* object store and the supervisor of the workers are external.  Redis is  *)
(* left out: neither a migration nor the start of a worker touches it.     *)
(***************************************************************************)
EXTENDS Naturals

CONSTANTS
    Versions,       \* the number of versions of the code
    Worker,         \* the workers of the backend (Dockerfile: --workers 4)
    MaxCommands,    \* bounds the commands of the operator
    MaxFaults       \* bounds what goes wrong by itself

ASSUME VersionsAssumption == Versions \in Nat \ {0}
ASSUME BoundsAssumption == MaxCommands \in Nat /\ MaxFaults \in Nat

Version == 1 .. Versions
Service == {"db", "minio"}

VARIABLES
    checkout,   \* the version of the code on the server
    image,      \* the version in the backend image, 0 for no image
    schema,     \* the version of the database, 0 for none
    created,    \* the services the backend depends on that have a container
    running,    \* those of them that are up
    container,  \* the version the backend container runs, 0 for no container
    autoCreate, \* the OBJECT_STORAGE_AUTO_CREATE_BUCKET it was made with
    phase,      \* what each of its workers is doing
    bucket,     \* there is a bucket
    deploy,     \* the next subcommand of `deploy`, idle when none runs
    outcome,    \* how the last `deploy` ended
    commands,   \* the commands so far
    faults,     \* what went wrong so far
    overtaken,  \* history: the image was built anew since `deploy` migrated
    byDeploy    \* history: the version it runs was brought up by a `deploy` that
                \* nobody overtook

services == <<created, running>>
made == <<container, autoCreate, byDeploy>>
backend == <<made, phase>>
script == <<deploy, outcome, overtaken>>
bounds == <<commands, faults>>
vars == <<checkout, image, schema, services, backend, bucket, script, bounds>>

TypeOK ==
    /\ checkout \in Version
    /\ {image, schema, container} \subseteq Version \cup {0}
    /\ running \subseteq created /\ created \subseteq Service
    /\ phase \in [Worker -> {"off", "starting", "creating", "serving", "dead"}]
    /\ \A w \in Worker : phase[w] = "off" <=> container = 0
    /\ bucket \in BOOLEAN
    /\ deploy \in {"idle", "build", "migrate", "up"}
    /\ outcome \in {"none", "up", "failed"}
    /\ commands \in 0 .. MaxCommands
    /\ faults \in 0 .. MaxFaults
    /\ autoCreate \in BOOLEAN /\ byDeploy \in BOOLEAN
    /\ overtaken \in BOOLEAN

Everyone(p) == [w \in Worker |-> p]

\* A server nothing was ever started on.
Init ==
    /\ checkout \in Version
    /\ image = 0 /\ schema = 0
    /\ created = {} /\ running = {}
    /\ container = 0 /\ phase = Everyone("off") /\ byDeploy = FALSE /\ autoCreate = FALSE
    /\ bucket = FALSE
    /\ deploy = "idle" /\ outcome = "none" /\ overtaken = FALSE
    /\ commands = 0 /\ faults = 0

Command == commands < MaxCommands /\ commands' = commands + 1 /\ UNCHANGED faults

Fault == faults < MaxFaults /\ faults' = faults + 1 /\ UNCHANGED commands

-----------------------------------------------------------------------------
(* What Compose does. *)

\* run and up build an image where there is none.
Built == IF image = 0 THEN checkout ELSE image

\* alembic upgrade head in a container of the image, which --no-deps starts alone:
\* it needs the database, and to know the revision the database is at.
CanMigrate == "db" \in running /\ schema <= Built

\* A container is made when there is none, or its image or its settings, which the
\* operator may have changed, are not the current ones.
Recreate(version) ==
    /\ container' = version
    /\ autoCreate' \in BOOLEAN
    /\ \/ phase' = Everyone("starting")
       \/ container = version /\ UNCHANGED <<phase, autoCreate>>

\* up -d: the services first, until they are healthy, and then the backend.
Up ==
    /\ created' = Service /\ running' = Service
    /\ image' = Built
    /\ Recreate(Built)

\* A service does not get healthy: the image is built, the backend is not touched.
UpAborted ==
    /\ image' = Built
    /\ \E s \in SUBSET Service :
        created' = created \cup s /\ running' \in {running \cup t : t \in SUBSET s}

\* The image that a deploy is about to start is replaced by another version.
Overtake ==
    /\ overtaken' = (overtaken \/ (deploy = "up" /\ image' # image))
    /\ UNCHANGED <<deploy, outcome>>

-----------------------------------------------------------------------------
(* run_deploy *)

Deploy ==
    /\ deploy = "idle" /\ Command
    /\ deploy' = "build" /\ outcome' = "none"
    /\ UNCHANGED <<checkout, image, schema, services, backend, bucket, overtaken>>

DeployBuild ==
    /\ deploy = "build"
    /\ image' = checkout
    /\ deploy' = "migrate"
    /\ UNCHANGED <<checkout, schema, services, backend, bucket, outcome, overtaken, bounds>>

DeployMigrate ==
    /\ deploy = "migrate" /\ CanMigrate
    /\ schema' = image
    /\ deploy' = "up"
    /\ UNCHANGED <<checkout, image, services, backend, bucket, outcome, overtaken, bounds>>

\* Faulty variant: the exit code of the migration is not looked at.
MigrateIgnored ==
    /\ deploy = "migrate" /\ ~CanMigrate
    /\ deploy' = "up"
    /\ UNCHANGED <<checkout, image, schema, services, backend, bucket, outcome, overtaken,
                   bounds>>

DeployMigrateFails ==
    /\ deploy = "migrate" /\ ~CanMigrate
    /\ deploy' = "idle" /\ outcome' = "failed"
    /\ UNCHANGED <<checkout, image, schema, services, backend, bucket, overtaken, bounds>>

\* Faulty variant: up --build, which takes the code that is there by now.
UpBuilds ==
    /\ deploy = "up"
    /\ created' = Service /\ running' = Service
    /\ image' = checkout
    /\ Recreate(checkout)
    /\ byDeploy' = ~overtaken
    /\ deploy' = "idle" /\ outcome' = "up" /\ overtaken' = FALSE
    /\ UNCHANGED <<checkout, schema, bucket, bounds>>

DeployUp ==
    /\ deploy = "up"
    /\ Up
    /\ byDeploy' = ~overtaken
    /\ deploy' = "idle" /\ outcome' = "up" /\ overtaken' = FALSE
    /\ UNCHANGED <<checkout, schema, bucket, bounds>>

\* A subcommand fails, before or after what it does, or the operator interrupts it.
DeployFails ==
    /\ deploy # "idle" /\ Fault
    /\ deploy' = "idle" /\ outcome' = "failed" /\ overtaken' = FALSE
    /\ \/ UNCHANGED <<image, schema, services, backend>>
       \/ /\ deploy = "migrate" /\ CanMigrate
          /\ schema' = image
          /\ UNCHANGED <<image, services, backend>>
       \/ /\ deploy = "up" /\ UpAborted
          /\ UNCHANGED <<schema, backend>>
       \/ /\ deploy = "up" /\ Up
          /\ byDeploy' = ~overtaken
          /\ UNCHANGED schema
    /\ UNCHANGED <<checkout, bucket>>

-----------------------------------------------------------------------------
(* The other commands. *)

\* The operator moves the checkout with git, also while a deploy runs: to a newer
\* version, or back to an older one.  (The subcommand `pull` does not: it runs
\* `git pull --fast-only`, an option git does not have, and changes nothing.)
Checkout ==
    /\ Command
    /\ checkout' \in Version \ {checkout}
    /\ UNCHANGED <<image, schema, services, backend, bucket, script>>

Build ==
    /\ Command
    /\ image' = checkout
    /\ Overtake
    /\ UNCHANGED <<checkout, schema, services, backend, bucket>>

Migrate ==
    /\ Command
    /\ image' = Built
    /\ schema' = IF CanMigrate THEN Built ELSE schema
    /\ UNCHANGED <<checkout, services, backend, bucket, script>>

UpAlone ==
    /\ Command
    /\ Up
    /\ byDeploy' = (byDeploy /\ container = Built)
    /\ UNCHANGED <<checkout, schema, bucket, script>>

UpFails ==
    /\ Fault
    /\ UpAborted
    /\ UNCHANGED <<checkout, schema, backend, bucket, script>>

\* Volumes stay, and with them the schema and the bucket.
Down ==
    /\ Command
    /\ created' = {} /\ running' = {}
    /\ container' = 0 /\ phase' = Everyone("off") /\ byDeploy' = FALSE /\ autoCreate' = FALSE
    /\ UNCHANGED <<checkout, image, schema, bucket, script>>

\* Faulty variant: a container that was never made is restarted.
RestartAnything ==
    /\ Command
    /\ phase' = Everyone("starting")
    /\ UNCHANGED <<checkout, image, schema, services, made, bucket, script>>

\* The container is started again, with the image it was made of.
Restart ==
    /\ container # 0 /\ Command
    /\ phase' = Everyone("starting")
    /\ UNCHANGED <<checkout, image, schema, services, made, bucket, script>>

-----------------------------------------------------------------------------
(* The workers: lifespan and, in create_object_storage, ensure_bucket. *)

Turn(w, from, to) ==
    /\ phase[w] = from
    /\ phase' = [phase EXCEPT ![w] = to]

\* Neither engine nor Redis client connects before the first request.
Start(w) ==
    /\ ~autoCreate
    /\ Turn(w, "starting", "serving")
    /\ UNCHANGED <<checkout, image, schema, services, made, bucket, script, bounds>>

\* Faulty variant: the bucket is created without a look at whether it exists.
BucketNotLookedFor(w) ==
    /\ autoCreate /\ "minio" \in running /\ bucket
    /\ Turn(w, "starting", "creating")
    /\ UNCHANGED <<checkout, image, schema, services, made, bucket, script, bounds>>

FindBucket(w) ==
    /\ autoCreate /\ "minio" \in running /\ bucket
    /\ Turn(w, "starting", "serving")
    /\ UNCHANGED <<checkout, image, schema, services, made, bucket, script, bounds>>

MissBucket(w) ==
    /\ autoCreate /\ "minio" \in running /\ ~bucket
    /\ Turn(w, "starting", "creating")
    /\ UNCHANGED <<checkout, image, schema, services, made, bucket, script, bounds>>

CreateBucket(w) ==
    /\ "minio" \in running /\ ~bucket
    /\ Turn(w, "creating", "serving")
    /\ bucket' = TRUE
    /\ UNCHANGED <<checkout, image, schema, services, made, script, bounds>>

\* The store is down, or the bucket is there by now and the store says so; what
\* create_bucket raises ends the lifespan.
StorageFails(w) ==
    /\ \/ autoCreate /\ "minio" \notin running /\ Turn(w, "starting", "dead")
       \/ ("minio" \notin running \/ bucket) /\ Turn(w, "creating", "dead")
    /\ UNCHANGED <<checkout, image, schema, services, made, bucket, script, bounds>>

\* The bucket is created, the answer is lost.
CreateUnanswered(w) ==
    /\ Fault
    /\ "minio" \in running /\ ~bucket
    /\ Turn(w, "creating", "dead")
    /\ bucket' = TRUE
    /\ UNCHANGED <<checkout, image, schema, services, made, script>>

\* A dead worker is started again, or the container is (restart: always).
Revive(w) ==
    /\ Turn(w, "dead", "starting")
    /\ UNCHANGED <<checkout, image, schema, services, made, bucket, script, bounds>>

-----------------------------------------------------------------------------
(* What goes wrong. *)

WorkerDies(w) ==
    /\ Fault
    /\ phase[w] \notin {"off", "dead"}
    /\ phase' = [phase EXCEPT ![w] = "dead"]
    /\ UNCHANGED <<checkout, image, schema, services, made, bucket, script>>

ServiceDies(s) ==
    /\ Fault
    /\ running' = running \ {s} /\ s \in running
    /\ UNCHANGED <<checkout, image, schema, created, backend, bucket, script>>

\* restart: always
ServiceRestarts(s) ==
    /\ running' = running \cup {s} /\ s \in created \ running
    /\ UNCHANGED <<checkout, image, schema, created, backend, bucket, script, bounds>>

\* Every container comes back as it was, in no order, and a deploy does not.
HostReboots ==
    /\ Fault
    /\ running' = {}
    /\ IF container = 0 THEN UNCHANGED phase ELSE phase' = Everyone("starting")
    /\ deploy' = "idle" /\ overtaken' = FALSE
    /\ IF deploy = "idle" THEN UNCHANGED outcome ELSE outcome' = "failed"
    /\ UNCHANGED <<checkout, image, schema, created, made, bucket>>

-----------------------------------------------------------------------------
Serve(w) ==
    \/ Start(w) \/ FindBucket(w) \/ MissBucket(w) \/ CreateBucket(w)
    \/ StorageFails(w) \/ Revive(w)

\* The operator has finished, and everything that was started runs.
Quiescent ==
    /\ commands = MaxCommands /\ deploy = "idle" /\ running = created
    /\ \A w \in Worker : phase[w] \in {"off", "serving"}
    /\ UNCHANGED vars

Next ==
    \/ Deploy \/ DeployBuild \/ DeployMigrate \/ DeployMigrateFails \/ DeployUp \/ DeployFails
    \/ Checkout \/ Build \/ Migrate \/ UpAlone \/ UpFails \/ Down \/ Restart
    \/ \E w \in Worker : Serve(w) \/ CreateUnanswered(w) \/ WorkerDies(w)
    \/ \E s \in Service : ServiceDies(s) \/ ServiceRestarts(s)
    \/ HostReboots
    \/ Quiescent

\* Workers start, dead ones are revived, containers are restarted.
Fairness ==
    /\ \A w \in Worker : WF_vars(Serve(w))
    /\ \A s \in Service : WF_vars(ServiceRestarts(s))

Spec == Init /\ [][Next]_vars /\ Fairness

-----------------------------------------------------------------------------
(* Properties *)

\* The order build, migrate, up keeps code off a schema that is older than it: a
\* backend that `deploy` started runs on a schema with its migrations, through
\* changes of the checkout, builds and migrations at any moment, deploys that failed
\* at any step, restarts and reboots.  The exception, which nothing in run_deploy
\* rules out: a build of somebody else between the migration and the start of that
\* `deploy`.
MigratedBeforeServed == byDeploy => container <= schema

\* When a `deploy` replaces the backend, and nobody has built another image between
\* its migration and its start of the backend, the schema is the one of the new
\* code: what is started is what was migrated, whatever the checkout is by then,
\* and going back to an older version is refused before the backend is touched.
DeployFits == [][container' \notin {container, 0} /\ byDeploy' => container' = schema]_vars

\* Workers that start together may all miss the bucket, and all but one fail; the
\* store may be down when they look.  In the end they all serve.
WorkersServe == <>[](container # 0) => <>[](\A w \in Worker : phase[w] = "serving")

\* (deployment.md says that `deploy` builds, migrates and starts the services one
\* after the other; the code breaks it where the database does not run yet.)
DeployStartsStack ==
    [][outcome' = "failed" /\ outcome # "failed" => faults' > 0 \/ schema > image]_vars
=============================================================================
