-------------------------- MODULE DeploymentProofs ---------------------------
(***************************************************************************)
(* Theorems about Deployment, for any number of versions and workers and   *)
(* any bounds on the commands and faults.                                  *)
(***************************************************************************)
EXTENDS Deployment, TLAPS

\* What the subcommands of a running deploy have established so far.
ScriptInv ==
    /\ deploy \in {"migrate", "up"} => image # 0
    /\ deploy = "up" /\ ~overtaken => schema = image
    /\ deploy # "up" => ~overtaken

\* Only a container has a history.
HistoryInv == container = 0 => ~byDeploy

IInv == TypeOK /\ ScriptInv /\ HistoryInv /\ MigratedBeforeServed

LEMMA Initially == Init => IInv
<1> SUFFICES ASSUME Init PROVE IInv
  OBVIOUS
<1>1. TypeOK
  <2>1. commands \in 0 .. MaxCommands /\ faults \in 0 .. MaxFaults
    BY BoundsAssumption DEF Init
  <2>2. /\ phase \in [Worker -> {"off", "starting", "creating", "serving", "dead"}]
        /\ \A w \in Worker : phase[w] = "off" <=> container = 0
    BY DEF Init, Everyone
  <2> QED
    BY <2>1, <2>2 DEF Init, TypeOK
<1>2. ScriptInv /\ HistoryInv /\ MigratedBeforeServed
  BY DEF Init, ScriptInv, HistoryInv, MigratedBeforeServed
<1> QED
  BY <1>1, <1>2 DEF IInv

\* What `up` does, whoever runs it.
LEMMA UpTypes ==
    ASSUME TypeOK, Up, byDeploy' \in BOOLEAN
    PROVE  /\ {image, container}' \subseteq Version
           /\ running' \subseteq created' /\ created' \subseteq Service
           /\ phase' \in [Worker -> {"off", "starting", "creating", "serving", "dead"}]
           /\ \A w \in Worker : phase'[w] # "off"
           /\ autoCreate' \in BOOLEAN
           /\ image' = Built /\ container' = Built
<1>1. Built \in Version
  BY DEF TypeOK, Built
<1>2. CASE phase' = Everyone("starting")
  BY <1>1, <1>2 DEF Up, Recreate, Everyone
<1>3. CASE container = Built /\ UNCHANGED <<phase, autoCreate>>
  <2>1. container # 0
    BY <1>1, <1>3 DEF Version
  <2> QED
    BY <1>1, <1>3, <2>1 DEF Up, Recreate, TypeOK
<1> QED
  BY <1>2, <1>3 DEF Up, Recreate

LEMMA Counted ==
    ASSUME TypeOK
    PROVE  /\ Command => commands' \in 0 .. MaxCommands /\ faults' \in 0 .. MaxFaults
           /\ Fault => commands' \in 0 .. MaxCommands /\ faults' \in 0 .. MaxFaults
BY BoundsAssumption DEF TypeOK, Command, Fault

\* A step that leaves the backend's containers, the schema and the script alone.
LEMMA WorkersStep ==
    ASSUME IInv, UNCHANGED <<checkout, image, schema, made, script>>,
           running' \subseteq created', created' \subseteq Service,
           commands' \in 0 .. MaxCommands, faults' \in 0 .. MaxFaults, bucket' \in BOOLEAN,
           phase' \in [Worker -> {"off", "starting", "creating", "serving", "dead"}],
           \A w \in Worker : phase'[w] = "off" <=> phase[w] = "off"
    PROVE  IInv'
BY DEF IInv, TypeOK, ScriptInv, HistoryInv, MigratedBeforeServed, made, script

LEMMA DeployKeeps ==
    ASSUME IInv,
           Deploy \/ DeployBuild \/ DeployMigrate \/ DeployMigrateFails
    PROVE  IInv'
<1> USE DEF IInv, TypeOK, ScriptInv, HistoryInv, MigratedBeforeServed,
            services, made, backend, script, bounds
<1>1. CASE Deploy
  BY <1>1, Counted DEF Deploy
<1>2. CASE DeployBuild
  BY <1>2 DEF DeployBuild, Version
<1>3. CASE DeployMigrate
  <2>1. Built = image /\ schema <= image
    BY <1>3 DEF DeployMigrate, CanMigrate, Built
  <2>2. byDeploy => container <= image
    BY <2>1 DEF Version
  <2> QED
    BY <1>3, <2>1, <2>2 DEF DeployMigrate
<1>4. CASE DeployMigrateFails
  BY <1>4 DEF DeployMigrateFails
<1> QED
  BY <1>1, <1>2, <1>3, <1>4

LEMMA DeployUpKeeps ==
    ASSUME IInv, DeployUp
    PROVE  IInv'
<1>1. byDeploy' = ~overtaken /\ Up /\ deploy = "up" /\ deploy' = "idle" /\ outcome' = "up"
      /\ overtaken' = FALSE /\ UNCHANGED <<checkout, schema, bucket, commands, faults>>
  BY DEF DeployUp, bounds
<1>2. image # 0 /\ Built = image /\ (~overtaken => schema = image)
  BY <1>1 DEF IInv, ScriptInv, Built
<1>3. TypeOK
  BY DEF IInv
<1>b. byDeploy' \in BOOLEAN
  BY <1>1, <1>3 DEF TypeOK
<1>4. container' = image /\ image' \in Version /\ container' # 0 /\ container' \in Version
  BY <1>1, <1>2, <1>3, <1>b, UpTypes DEF Version
<1>5. TypeOK'
  BY <1>1, <1>3, <1>4, <1>b, UpTypes DEF TypeOK
<1>6. (ScriptInv /\ HistoryInv)'
  BY <1>1, <1>4 DEF ScriptInv, HistoryInv
<1>7. MigratedBeforeServed'
  <2>1. byDeploy' => container' = schema'
    BY <1>1, <1>2, <1>4
  <2> QED
    BY <1>4, <2>1 DEF MigratedBeforeServed, Version
<1> QED
  BY <1>5, <1>6, <1>7 DEF IInv

LEMMA DeployFailsKeeps ==
    ASSUME IInv, DeployFails
    PROVE  IInv'
<1>1. TypeOK /\ ScriptInv /\ HistoryInv /\ MigratedBeforeServed
  BY DEF IInv
<1>2. /\ deploy' = "idle" /\ outcome' = "failed" /\ overtaken' = FALSE
      /\ UNCHANGED <<checkout, bucket>>
      /\ commands' \in 0 .. MaxCommands /\ faults' \in 0 .. MaxFaults
  BY <1>1, Counted DEF DeployFails
<1>3. CASE UNCHANGED <<image, schema, services, backend>>
  BY <1>1, <1>2, <1>3
     DEF IInv, TypeOK, ScriptInv, HistoryInv, MigratedBeforeServed, services, backend, made
<1>4. CASE /\ deploy = "migrate" /\ CanMigrate
           /\ schema' = image
           /\ UNCHANGED <<image, services, backend>>
  <2>1. schema <= image
    BY <1>1, <1>4 DEF CanMigrate, Built, ScriptInv
  <2>2. byDeploy => container <= image
    BY <1>1, <2>1 DEF TypeOK, MigratedBeforeServed, Version
  <2> QED
    BY <1>1, <1>2, <1>4, <2>2
       DEF IInv, TypeOK, ScriptInv, HistoryInv, MigratedBeforeServed, services, backend, made
<1>5. CASE /\ deploy = "up" /\ UpAborted
           /\ UNCHANGED <<schema, backend>>
  <2>1. image' = image
    BY <1>1, <1>5 DEF UpAborted, Built, ScriptInv
  <2> QED
    BY <1>1, <1>2, <1>5, <2>1
       DEF IInv, TypeOK, ScriptInv, HistoryInv, MigratedBeforeServed, UpAborted, backend, made
<1>6. CASE /\ deploy = "up" /\ Up
           /\ byDeploy' = ~overtaken
           /\ UNCHANGED schema
  <2>1. image # 0 /\ Built = image /\ (~overtaken => schema = image)
    BY <1>1, <1>6 DEF ScriptInv, Built
  <2>b. byDeploy' \in BOOLEAN
    BY <1>1, <1>6 DEF TypeOK
  <2>2. container' = image /\ image' \in Version /\ container' # 0 /\ container' \in Version
    BY <1>1, <1>6, <2>1, <2>b, UpTypes DEF Version
  <2>3. TypeOK'
    BY <1>1, <1>2, <1>6, <2>2, <2>b, UpTypes DEF TypeOK
  <2>4. (ScriptInv /\ HistoryInv)'
    BY <1>2, <2>2 DEF ScriptInv, HistoryInv
  <2>5. MigratedBeforeServed'
    <3>1. byDeploy' => container' = schema'
      BY <1>6, <2>1, <2>2
    <3> QED
      BY <2>2, <3>1 DEF MigratedBeforeServed, Version
  <2> QED
    BY <2>3, <2>4, <2>5 DEF IInv
<1> QED
  BY <1>3, <1>4, <1>5, <1>6 DEF DeployFails

LEMMA CommandKeeps ==
    ASSUME IInv,
           Checkout \/ Build \/ Migrate \/ UpAlone \/ UpFails \/ Down \/ Restart
    PROVE  IInv'
<1>1. TypeOK /\ ScriptInv /\ HistoryInv /\ MigratedBeforeServed
  BY DEF IInv
<1>2. CASE Checkout
  BY <1>1, <1>2, Counted
     DEF Checkout, IInv, TypeOK, ScriptInv, HistoryInv, MigratedBeforeServed,
         services, backend, made, script
<1>3. CASE Build
  <2>1. /\ image' = checkout /\ deploy' = deploy
        /\ overtaken' = (overtaken \/ (deploy = "up" /\ image' # image))
        /\ UNCHANGED <<schema, container, byDeploy>>
    BY <1>3 DEF Build, Overtake, backend, made
  <2>a. image' # 0
    BY <1>1, <2>1 DEF TypeOK, Version
  <2>b. deploy' = "up" /\ ~overtaken' => schema' = image'
    <3> SUFFICES ASSUME deploy' = "up", ~overtaken'
                 PROVE  schema' = image'
      OBVIOUS
    <3>1. deploy = "up" /\ ~overtaken /\ image' = image
      BY <2>1
    <3> QED
      BY <1>1, <2>1, <3>1 DEF ScriptInv
  <2>c. deploy' # "up" => ~overtaken'
    <3> SUFFICES ASSUME deploy' # "up"
                 PROVE  ~overtaken'
      OBVIOUS
    <3>1. deploy # "up" /\ ~overtaken
      BY <1>1, <2>1 DEF ScriptInv
    <3> QED
      BY <2>1, <3>1
  <2>2. ScriptInv'
    BY <2>a, <2>b, <2>c DEF ScriptInv
  <2>3. HistoryInv' /\ MigratedBeforeServed'
    BY <1>1, <2>1 DEF HistoryInv, MigratedBeforeServed
  <2>4. overtaken' \in BOOLEAN
    BY <1>1, <2>1 DEF TypeOK
  <2>5. TypeOK'
    BY <1>1, <1>3, <2>4, Counted DEF Build, Overtake, TypeOK, services, backend, made
  <2> QED
    BY <2>2, <2>3, <2>5 DEF IInv
<1>4. CASE Migrate
  <2>1. /\ schema' \in Version \cup {0} /\ schema <= schema' /\ image' \in Version
        /\ image # 0 => image' = image /\ schema' \in {schema, image}
    BY <1>1, <1>4 DEF Migrate, CanMigrate, Built, TypeOK, Version
  <2>2. byDeploy => container <= schema'
    BY <1>1, <2>1 DEF TypeOK, MigratedBeforeServed, Version
  <2>3. ScriptInv'
    BY <1>1, <1>4, <2>1 DEF Migrate, script, ScriptInv, Version
  <2>4. HistoryInv' /\ MigratedBeforeServed'
    BY <1>1, <1>4, <2>2 DEF Migrate, backend, made, HistoryInv, MigratedBeforeServed
  <2>5. TypeOK'
    BY <1>1, <1>4, <2>1, Counted DEF Migrate, TypeOK, services, backend, made, script
  <2> QED
    BY <2>3, <2>4, <2>5 DEF IInv
<1>5. CASE UpAlone
  <2>1. /\ Up /\ byDeploy' = (byDeploy /\ container = Built)
        /\ UNCHANGED <<checkout, schema, bucket, deploy, outcome, overtaken>>
        /\ commands' \in 0 .. MaxCommands /\ faults' \in 0 .. MaxFaults
    BY <1>1, <1>5, Counted DEF UpAlone, script
  <2>2. byDeploy' \in BOOLEAN
    BY <1>1, <2>1 DEF TypeOK
  <2>3. {image, container}' \subseteq Version /\ container' = Built /\ image' = Built
    BY <1>1, <2>1, <2>2, UpTypes
  <2>4. container' # 0 /\ image' # 0 /\ (image # 0 => image' = image)
    BY <2>3 DEF Version, Built
  <2>5. TypeOK'
    BY <1>1, <2>1, <2>2, <2>4, UpTypes DEF TypeOK
  <2>6. (ScriptInv /\ HistoryInv)'
    BY <1>1, <2>1, <2>4 DEF ScriptInv, HistoryInv
  <2>7. MigratedBeforeServed'
    BY <1>1, <2>1, <2>3 DEF MigratedBeforeServed
  <2> QED
    BY <2>5, <2>6, <2>7 DEF IInv
<1>6. CASE UpFails
  <2>1. /\ image' = Built /\ Built \in Version
        /\ created' \subseteq Service /\ running' \subseteq created'
        /\ UNCHANGED <<checkout, schema, backend, bucket, script>>
    BY <1>1, <1>6 DEF UpFails, UpAborted, TypeOK, Built
  <2>2. image # 0 => image' = image
    BY <2>1 DEF Built
  <2>3. TypeOK'
    BY <1>1, <1>6, <2>1, Counted DEF UpFails, TypeOK, backend, made, script
  <2>4. (ScriptInv /\ HistoryInv /\ MigratedBeforeServed)'
    BY <1>1, <2>1, <2>2
       DEF ScriptInv, HistoryInv, MigratedBeforeServed, backend, made, script, Version
  <2> QED
    BY <2>3, <2>4 DEF IInv
<1>7. CASE Down
  BY <1>1, <1>7, Counted
     DEF Down, IInv, TypeOK, ScriptInv, HistoryInv, MigratedBeforeServed, Everyone, script
<1>8. CASE Restart
  BY <1>1, <1>8, Counted, WorkersStep DEF Restart, TypeOK, Everyone, services, made, script
<1> QED
  BY <1>2, <1>3, <1>4, <1>5, <1>6, <1>7, <1>8

LEMMA WorkerKeeps ==
    ASSUME IInv, NEW w \in Worker,
           Serve(w) \/ CreateUnanswered(w) \/ WorkerDies(w)
    PROVE  IInv'
<1>1. TypeOK
  BY DEF IInv
<1>2. /\ UNCHANGED <<checkout, image, schema, services, made, script>>
      /\ commands' \in 0 .. MaxCommands /\ faults' \in 0 .. MaxFaults
  BY <1>1, Counted
     DEF Serve, Start, FindBucket, MissBucket, CreateBucket, StorageFails, Revive,
         CreateUnanswered, WorkerDies, bounds, TypeOK
<1>3. bucket' \in BOOLEAN
  BY <1>1
     DEF Serve, Start, FindBucket, MissBucket, CreateBucket, StorageFails, Revive,
         CreateUnanswered, WorkerDies, TypeOK
<1>4. PICK p \in {"starting", "creating", "serving", "dead"} : phase' = [phase EXCEPT ![w] = p]
  BY DEF Serve, Start, FindBucket, MissBucket, CreateBucket, StorageFails, Revive,
         CreateUnanswered, WorkerDies, Turn
<1>5. phase[w] # "off"
  BY DEF Serve, Start, FindBucket, MissBucket, CreateBucket, StorageFails, Revive,
         CreateUnanswered, WorkerDies, Turn
<1>6. running' \subseteq created' /\ created' \subseteq Service
  BY <1>1, <1>2 DEF TypeOK, services
<1>7. /\ phase' \in [Worker -> {"off", "starting", "creating", "serving", "dead"}]
      /\ \A v \in Worker : phase'[v] = "off" <=> phase[v] = "off"
  BY <1>1, <1>4, <1>5 DEF TypeOK
<1> QED
  BY <1>2, <1>3, <1>6, <1>7, WorkersStep DEF services

LEMMA FaultKeeps ==
    ASSUME IInv,
           (\E s \in Service : ServiceDies(s) \/ ServiceRestarts(s)) \/ HostReboots
    PROVE  IInv'
<1>1. TypeOK /\ ScriptInv /\ HistoryInv /\ MigratedBeforeServed
  BY DEF IInv
<1>2. CASE \E s \in Service : ServiceDies(s) \/ ServiceRestarts(s)
  BY <1>1, <1>2, Counted, WorkersStep
     DEF ServiceDies, ServiceRestarts, TypeOK, backend, bounds
<1>3. CASE HostReboots
  <2>1. /\ phase' \in [Worker -> {"off", "starting", "creating", "serving", "dead"}]
        /\ \A v \in Worker : phase'[v] = "off" <=> phase[v] = "off"
    <3>1. CASE container = 0
      BY <1>1, <1>3, <3>1 DEF HostReboots, TypeOK
    <3>2. CASE container # 0
      BY <1>1, <1>3, <3>2 DEF HostReboots, TypeOK, Everyone
    <3> QED
      BY <3>1, <3>2
  <2>2. /\ deploy' = "idle" /\ outcome' \in {"none", "up", "failed"} /\ overtaken' = FALSE
        /\ UNCHANGED <<checkout, image, schema, created, container, autoCreate, byDeploy, bucket>>
        /\ running' = {}
        /\ commands' \in 0 .. MaxCommands /\ faults' \in 0 .. MaxFaults
    BY <1>1, <1>3, Counted DEF HostReboots, TypeOK, made
  <2>3. TypeOK'
    BY <1>1, <2>1, <2>2 DEF TypeOK
  <2> QED
    BY <1>1, <2>2, <2>3 DEF IInv, ScriptInv, HistoryInv, MigratedBeforeServed
<1> QED
  BY <1>2, <1>3

LEMMA Inductive == IInv /\ [Next]_vars => IInv'
<1> SUFFICES ASSUME IInv, [Next]_vars PROVE IInv'
  OBVIOUS
<1>1. CASE Deploy \/ DeployBuild \/ DeployMigrate \/ DeployMigrateFails
  BY <1>1, DeployKeeps
<1>2. CASE DeployUp
  BY <1>2, DeployUpKeeps
<1>3. CASE DeployFails
  BY <1>3, DeployFailsKeeps
<1>4. CASE Checkout \/ Build \/ Migrate \/ UpAlone \/ UpFails \/ Down \/ Restart
  BY <1>4, CommandKeeps
<1>5. CASE \E w \in Worker : Serve(w) \/ CreateUnanswered(w) \/ WorkerDies(w)
  BY <1>5, WorkerKeeps
<1>6. CASE (\E s \in Service : ServiceDies(s) \/ ServiceRestarts(s)) \/ HostReboots
  BY <1>6, FaultKeeps
<1>7. CASE Quiescent \/ UNCHANGED vars
  BY <1>7 DEF Quiescent, vars, services, made, backend, script, bounds, IInv, TypeOK,
              ScriptInv, HistoryInv, MigratedBeforeServed
<1> QED
  BY <1>1, <1>2, <1>3, <1>4, <1>5, <1>6, <1>7 DEF Next

LEMMA Invariant == Spec => []IInv
BY Initially, Inductive, PTL DEF Spec

\* The types of the server, whatever the commands, the faults and the workers.
THEOREM TypeCorrect == Spec => []TypeOK
<1>1. IInv => TypeOK
  BY DEF IInv
<1> QED
  BY <1>1, Invariant, PTL

\* The order build, migrate, up of run_deploy keeps a backend that it started off
\* an older schema, for any number of versions, commands and failures, and with
\* commands of others at any moment but a build before its `up`.
THEOREM MigratedFirst == Spec => []MigratedBeforeServed
<1>1. IInv => MigratedBeforeServed
  BY DEF IInv
<1> QED
  BY <1>1, Invariant, PTL

\* When run_deploy replaces the backend and nobody has built another image between
\* its migration and its `up`, the schema is exactly the one of the new code: its
\* `up` uses the image that its migration has used.
THEOREM DeploysFit == Spec => DeployFits
<1> DEFINE Fits == container' \notin {container, 0} /\ byDeploy' => container' = schema
<1>1. IInv /\ [Next]_vars => [Fits]_vars
  <2> SUFFICES ASSUME IInv, Next, container' \notin {container, 0}, byDeploy'
               PROVE  container' = schema
    BY DEF Fits
  <2>1. TypeOK /\ ScriptInv
    BY DEF IInv
  <2>2. CASE DeployUp
    BY <2>1, <2>2 DEF DeployUp, Up, Recreate, Built, ScriptInv
  <2>3. CASE DeployFails
    BY <2>1, <2>3
       DEF DeployFails, Up, Recreate, Built, ScriptInv, backend, made
  <2>4. CASE UpAlone
    BY <2>4 DEF UpAlone, Up, Recreate
  <2>5. CASE Down
    BY <2>5 DEF Down
  <2>6. CASE \E w \in Worker : Serve(w) \/ CreateUnanswered(w) \/ WorkerDies(w)
    BY <2>6 DEF Serve, Start, FindBucket, MissBucket, CreateBucket, StorageFails, Revive,
                CreateUnanswered, WorkerDies, made
  <2>7. CASE Quiescent
    BY <2>7 DEF Quiescent, vars, backend, made
  <2> QED
    BY <2>2, <2>3, <2>4, <2>5, <2>6, <2>7
       DEF Next, Deploy, DeployBuild, DeployMigrate, DeployMigrateFails, Checkout, Build,
           Migrate, UpFails, Restart, ServiceDies, ServiceRestarts, HostReboots, backend, made
<1> QED
  BY <1>1, Invariant, PTL DEF Spec, DeployFits
=============================================================================
