------------------------------- MODULE Rollouts -------------------------------
(***************************************************************************)
(* GET /deploystatus and the clients that poll it until a rollout ends.    *)
(*                                                                         *)
(* naisd writes a Deployment and answers; the rollout is the business of   *)
(* the cluster's Deployment controller, which writes what it has seen into *)
(* the status of the same object some time later.  The status handler      *)
(* judges the rollout from one read of that object, and two commands poll  *)
(* it: `nais wait`, and `nais deploy --wait` after its own deploy.         *)
(*                                                                         *)
(* The controller, the autoscaler and the pods are the environment, with   *)
(* what the code's deployment specification asks of them.                  *)
(***************************************************************************)
EXTENDS Naturals, FiniteSets

CONSTANTS Clients,         \* runs of `nais deploy --wait` and `nais wait`
          Versions,        \* pod templates
          Earlier,         \* the one that may run before the first deploy
          NoVersion,       \* of a pod that does not exist
          Application,     \* the name of the application and its Deployment
          Namespace,       \* it is deployed to
          Capacity,        \* pods the cluster has room for
          MaxReplicas,     \* bound on what the autoscaler asks for
          MaxDeploys,      \* bound on deploys, the clients' and others'
          MaxDisturbances  \* bound on scalings, failing pods and failing calls

ASSUME VersionAssumption == Earlier \in Versions /\ NoVersion \notin Versions
ASSUME PodAssumption == {MaxReplicas, Capacity} \subseteq Nat \ {0} /\ MaxReplicas < Capacity
ASSUME BoundAssumption == {MaxDeploys, MaxDisturbances} \subseteq Nat

Pods == 1 .. Capacity

VARIABLE broken         \* versions whose pods never get ready

VARIABLES deployment,   \* the Deployment's spec and generation, 0 if there is none
          status,       \* its status, written by the controller
          known,        \* versions there is a replica set of
          runs,         \* the version each pod runs
          ready         \* the pods that are ready

VARIABLES pc,           \* what each client is doing
          place,        \* where it looks for the Deployment
          answer,       \* the last status code it got, 0 for none
          since,        \* the generation its wait is for
          fresh         \* history: that and the later versions were new to the cluster

VARIABLES deploys, disturbances,
          rolledOut,    \* history: the last generation that was up entirely
          expired,      \* history: the last generation that ran out of time
          promised      \* history: the pods rolling deploys have to leave ready

podVars == <<known, runs, ready>>
clientVars == <<pc, place, answer, since, fresh>>
boundVars == <<deploys, disturbances>>
historyVars == <<rolledOut, expired, promised>>
vars == <<broken, deployment, status, podVars, clientVars, boundVars, historyVars>>

-------------------------------------------------------------------------------
\* The object.

Strategies == {"RollingUpdate", "Recreate"}

\* A plausible bug: an old pod may go before its replacement is ready.
OneUnavailable(v, s, replicas) ==
    [version |-> v, strategy |-> s, replicas |-> replicas,
     maxUnavailable |-> 1, maxSurge |-> 1, progressDeadline |-> TRUE]

\* A plausible bug: the progress deadline is left out.
NoDeadline(v, s, replicas) ==
    [version |-> v, strategy |-> s, replicas |-> replicas,
     maxUnavailable |-> 0, maxSurge |-> 1, progressDeadline |-> FALSE]

\* The part of the deployment specification the controller goes by.
createDeploymentSpec(v, s, replicas) ==
    [version |-> v, strategy |-> s, replicas |-> replicas,
     maxUnavailable |-> 0, maxSurge |-> 1, progressDeadline |-> TRUE]

\* A plausible bug: a new Deployment gets no replicas.
NoReplicas(v, s) ==
    createDeploymentSpec(v, s,
                         IF deployment.generation = 0 THEN 0 ELSE deployment.spec.replicas)

\* A deploy keeps the replicas of an existing Deployment.
createDeploymentDef(v, s) ==
    createDeploymentSpec(v, s,
                         IF deployment.generation = 0 THEN 1 ELSE deployment.spec.replicas)

\* The generation counts the changes of the specification.
Updated(spec) ==
    [generation |-> deployment.generation
                    + (IF deployment.generation # 0 /\ spec = deployment.spec THEN 0 ELSE 1),
     spec |-> spec]

Of(v) == {p \in Pods : runs[p] = v}
Running == {p \in Pods : runs[p] # NoVersion}
New == Of(deployment.spec.version)
Old == Running \ New
Desired == deployment.spec.replicas

-------------------------------------------------------------------------------
\* The status handler.

Home == <<Namespace, Application>>
Exists(c) == place[c] = Home /\ deployment.generation # 0

Observed == deployment.generation <= status.observed

RolledOut == /\ status.counts.updated >= Desired
             /\ status.counts.replicas <= status.counts.updated
             /\ status.counts.available >= status.counts.updated

\* A plausible bug: the generation is not looked at.
AnyGeneration == IF status.progress = "exceeded" THEN "Failed"
                 ELSE IF RolledOut THEN "Success" ELSE "InProgress"

\* A plausible bug: the deadline is looked at before the generation.
DeadlineFirst == IF status.progress = "exceeded" THEN "Failed"
                 ELSE IF Observed /\ RolledOut THEN "Success" ELSE "InProgress"

DeploymentStatus == IF ~Observed THEN "InProgress"
                    ELSE IF status.progress = "exceeded" THEN "Failed"
                    ELSE IF RolledOut THEN "Success" ELSE "InProgress"

StatusCode == [InProgress |-> 202, Failed |-> 500, Success |-> 200]

deploymentStatusHandler(c) == IF Exists(c) THEN StatusCode[DeploymentStatus] ELSE 404

-------------------------------------------------------------------------------
All(n) == [replicas |-> n, updated |-> n, available |-> n]
Absent == [generation |-> 0, spec |-> createDeploymentSpec(Earlier, "RollingUpdate", 1)]
Settled(n) == [generation |-> 1, spec |-> createDeploymentSpec(Earlier, "RollingUpdate", n)]

\* There is no Deployment yet, or an earlier version is up.
Init == /\ broken \in SUBSET (Versions \ {Earlier})
        /\ \/ /\ deployment = Absent
              /\ status = [observed |-> 0, counts |-> All(0), progress |-> "progressing"]
              /\ known = {} /\ ready = {}
           \/ /\ deployment = Settled(MaxReplicas)
              /\ status = [observed |-> 1, counts |-> All(MaxReplicas), progress |-> "complete"]
              /\ known = {Earlier}
              /\ ready = 1 .. MaxReplicas
        /\ runs = [p \in Pods |-> IF p \in ready THEN Earlier ELSE NoVersion]
        /\ pc = [c \in Clients |-> "idle"]
        /\ place = [c \in Clients |-> Home]
        /\ answer = [c \in Clients |-> 0]
        /\ since = [c \in Clients |-> 0]
        /\ fresh = [c \in Clients |-> FALSE]
        /\ deploys = 0 /\ disturbances = 0
        /\ rolledOut = deployment.generation /\ expired = 0
        /\ promised = Cardinality(ready)

-------------------------------------------------------------------------------
\* Deploys.

Disturbance == /\ disturbances < MaxDisturbances
               /\ disturbances' = disturbances + 1
               /\ UNCHANGED deploys

\* naisd writes the Deployment for a deploy.
Write(v, s) ==
    /\ deploys < MaxDeploys
    /\ deployment' = Updated(createDeploymentDef(v, s))
    /\ promised' = IF s = "Recreate" THEN 0 ELSE promised
    /\ deploys' = deploys + 1
    /\ UNCHANGED <<broken, status, podVars, disturbances,
                   rolledOut, expired>>

\* For a client that does not wait.
OtherDeploy == \E v \in Versions, s \in Strategies :
                   /\ Write(v, s)
                   /\ fresh' = [c \in Clients |-> fresh[c] /\ v \notin known]
                   /\ UNCHANGED <<pc, place, answer, since>>

\* For `nais deploy --wait`, which will ask for /deploystatus/application/namespace
\* where naisd expects the namespace first.
Deploy(c) ==
    /\ pc[c] = "idle"
    /\ \E v \in Versions, s \in Strategies :
           /\ Write(v, s)
           /\ fresh' = [q \in Clients |-> (q = c \/ fresh[q]) /\ v \notin known]
    /\ pc' = [pc EXCEPT ![c] = "deploying"]
    /\ place' = [place EXCEPT ![c] = <<Application, Namespace>>]
    /\ since' = [since EXCEPT ![c] = deployment'.generation]
    /\ UNCHANGED answer

Exits(c, at, code) == /\ pc' = [pc EXCEPT ![c] = at]
                      /\ answer' = [answer EXCEPT ![c] = code]
                      /\ since' = [since EXCEPT ![c] = 0]
                      /\ fresh' = [fresh EXCEPT ![c] = FALSE]
                      /\ UNCHANGED place

\* A later step of the deploy fails: the client gives up, the rollout goes on.
DeployFails(c) == /\ pc[c] = "deploying" /\ Disturbance /\ Exits(c, "exited", 500)
                  /\ UNCHANGED <<broken, deployment, status, podVars, historyVars>>

DeploySucceeds(c) ==
    /\ pc[c] = "deploying"
    /\ pc' = [pc EXCEPT ![c] = "polling"]
    /\ UNCHANGED <<place, answer, since, fresh, broken, deployment, status, podVars,
                   boundVars, historyVars>>

-------------------------------------------------------------------------------
\* waitForDeploy, which `nais wait` calls at once.

StartWait(c) ==
    /\ pc[c] = "idle"
    /\ pc' = [pc EXCEPT ![c] = "polling"]
    /\ since' = [since EXCEPT ![c] = deployment.generation]
    /\ fresh' = [fresh EXCEPT ![c] = deployment.spec.version \notin known]
    /\ UNCHANGED <<place, broken, deployment, status, podVars, answer, boundVars,
                   historyVars>>

\* 200 ends the wait well, 202 prolongs it by a second, anything else is a failure.
Poll(c) == /\ pc[c] = "polling"
           /\ \/ deploymentStatusHandler(c) # 202 /\ Exits(c, "waited", deploymentStatusHandler(c))
              \/ deploymentStatusHandler(c) = 202 /\ UNCHANGED clientVars
           /\ UNCHANGED <<broken, deployment, status, podVars, boundVars, historyVars>>

\* The request fails (no code), or the handler's Get does, which it calls not found.
PollFails(c) == /\ pc[c] = "polling" /\ Disturbance
                /\ \E code \in {0, 404} : Exits(c, "waited", code)
                /\ UNCHANGED <<broken, deployment, status, podVars, historyVars>>

-------------------------------------------------------------------------------
\* The environment: autoscaler, pods, controller.

Least(m, n) == IF m < n THEN m ELSE n

Scale == /\ deployment.generation # 0 /\ Disturbance
         /\ \E n \in (1 .. MaxReplicas) \ {Desired} :
                /\ deployment' = Updated([deployment.spec EXCEPT !.replicas = n])
                /\ promised' = Least(promised, n)
         /\ UNCHANGED <<broken, status, podVars, clientVars, rolledOut, expired>>

PodGetsReady(p) == /\ p \in Running \ ready /\ runs[p] \notin broken
                   /\ ready' = ready \cup {p}
                   /\ UNCHANGED <<broken, deployment, status, known, runs, clientVars,
                                  boundVars, historyVars>>

PodFails(p) == /\ p \in ready /\ Disturbance
               /\ ready' = ready \ {p}
               /\ promised' = 0
               /\ UNCHANGED <<broken, deployment, status, known, runs, clientVars,
                              rolledOut, expired>>

\* Everything that runs is the version asked for and ready, and there is enough of it.
AllUp == Running \subseteq New \cap ready /\ Cardinality(New) >= Desired

Counts == [replicas |-> Cardinality(Running), updated |-> Cardinality(New),
           available |-> Cardinality(ready)]

Progress == \/ Counts.updated > status.counts.updated
            \/ Counts.available > status.counts.available
            \/ Counts.replicas - Counts.updated < status.counts.replicas - status.counts.updated

\* The controller makes a replica set for a version that has none, which restarts
\* the clock, and reports what runs.  A version it knows does not restart it: the
\* condition stays as it was until there is progress.
Report ==
    /\ deployment.generation # 0
    /\ status' = [observed |-> deployment.generation, counts |-> Counts,
                  progress |-> IF AllUp /\ Cardinality(New) = Desired THEN "complete"
                               ELSE IF deployment.spec.version \notin known \/ Progress
                                    THEN "progressing" ELSE status.progress]
    /\ known' = known \cup {deployment.spec.version}
    /\ rolledOut' = IF AllUp THEN deployment.generation ELSE rolledOut
    /\ UNCHANGED <<broken, deployment, runs, ready, clientVars, boundVars,
                   expired, promised>>

DeadlinePasses == /\ deployment.spec.progressDeadline /\ status.progress = "progressing"
                  /\ status.observed = deployment.generation /\ deployment.generation # 0
                  /\ status' = [status EXCEPT !.progress = "exceeded"]
                  /\ expired' = status.observed
                  /\ UNCHANGED <<broken, deployment, podVars, clientVars, boundVars,
                                 rolledOut, promised>>

Rolling == deployment.spec.strategy = "RollingUpdate"
Steering == deployment.generation # 0 /\ status.observed = deployment.generation
MinAvailable == Desired - deployment.spec.maxUnavailable

Becomes(p, v) == /\ runs' = [runs EXCEPT ![p] = v]
                 /\ ready' = ready \ {p}
                 /\ UNCHANGED <<broken, deployment, status, known, clientVars, boundVars,
                                historyVars>>

\* Pods of a kind are alike: the first is taken.
First(pods) == {p \in pods : \A q \in pods : p <= q}

Room == /\ Cardinality(New) < Desired
        /\ IF Rolling THEN Cardinality(Running) < Desired + deployment.spec.maxSurge
                      ELSE Old = {}

CreatePod == /\ Steering /\ Room
             /\ \E p \in First(Pods \ Running) : Becomes(p, deployment.spec.version)

\* Old pods that may go: all of them, or those that are not ready, then one more as
\* long as enough are available.
Spare == IF ~Rolling THEN Old
         ELSE IF Cardinality(Old) + Cardinality(New \cap ready) <= MinAvailable THEN {}
         ELSE IF ~(Old \subseteq ready) THEN Old \ ready
         ELSE IF Cardinality(ready) > MinAvailable THEN Old ELSE {}

RemoveOldPod == /\ Steering
                /\ \E v \in Versions : \E p \in First(Spare \cap Of(v)) : Becomes(p, NoVersion)

\* Fewer replicas are asked for; those that are not ready go first.
RemoveNewPod == /\ Steering /\ Cardinality(New) > Desired
                /\ \E p \in First(IF New \subseteq ready THEN New ELSE New \ ready) :
                       Becomes(p, NoVersion)

-------------------------------------------------------------------------------
Controller == Report \/ DeadlinePasses \/ CreatePod \/ RemoveOldPod \/ RemoveNewPod
Client(c) == \/ Deploy(c) \/ DeployFails(c) \/ DeploySucceeds(c)
             \/ StartWait(c) \/ Poll(c) \/ PollFails(c)
Pod(p) == PodGetsReady(p) \/ PodFails(p)

Next == \/ Controller \/ Scale \/ OtherDeploy
        \/ \E c \in Clients : Client(c)
        \/ \E p \in Pods : Pod(p)

Fairness == /\ WF_vars(Report) /\ WF_vars(DeadlinePasses)
            /\ WF_vars(CreatePod) /\ WF_vars(RemoveOldPod) /\ WF_vars(RemoveNewPod)
            /\ \A p \in Pods : WF_vars(PodGetsReady(p))
            /\ \A c \in Clients : WF_vars(Poll(c))

Spec == Init /\ [][Next]_vars /\ Fairness

-------------------------------------------------------------------------------
Specs == [version : Versions, strategy : Strategies, replicas : 1 .. MaxReplicas,
          maxUnavailable : Nat, maxSurge : Nat, progressDeadline : BOOLEAN]

\* Every variable has its type.
TypeOK ==
    /\ broken \subseteq Versions
    /\ deployment \in [generation : Nat, spec : Specs]
    /\ status \in [observed : Nat,
                   counts : [replicas : Nat, updated : Nat, available : Nat],
                   progress : {"progressing", "complete", "exceeded"}]
    /\ known \subseteq Versions
    /\ runs \in [Pods -> Versions \cup {NoVersion}] /\ ready \subseteq Running
    /\ pc \in [Clients -> {"idle", "deploying", "polling", "exited", "waited"}]
    /\ place \in [Clients -> {Home, <<Application, Namespace>>}]
    /\ answer \in [Clients -> {0, 200, 404, 500}]
    /\ since \in [Clients -> Nat] /\ fresh \in [Clients -> BOOLEAN]
    /\ {deploys, disturbances, promised, rolledOut, expired} \subseteq Nat

Waited(c) == pc[c] = "polling" /\ pc'[c] = "waited"

\* A `nais wait`, or a `nais deploy --wait` that looks in the right place, ends well
\* only if at some time since the deploy it waits for the Deployment's pods were all
\* of the newest version, ready, and as many as asked for.  It reads a status that may
\* be older than the deploy, and a deploy or a scaling may come while it polls.
SuccessIsARollout ==
    [][\A c \in Clients : Waited(c) /\ answer'[c] = 200 => rolledOut >= since[c]]_vars

\* A failed wait has a cause: a call failed; there was no Deployment when it began,
\* or it was looked up in the wrong place; or the rollout ran out of time.  That may
\* have been an earlier rollout, but not if all versions since were new to the
\* cluster: a rollback, or a scaling of what is stuck, is taken for a failure.
FailedWaitsHaveCauses ==
    [][\A c \in Clients : Waited(c) =>
        \/ answer'[c] = 200
        \/ answer'[c] \in {0, 404} /\ disturbances' > disturbances
        \/ answer'[c] = 404 /\ (since[c] = 0 \/ place[c] # Home)
        \/ answer'[c] = 500 /\ expired # 0 /\ (fresh[c] => expired >= since[c])]_vars

\* Rolling deploys, however many overlap and whatever becomes of their pods, take
\* nothing away: of the pods that were ready there are never fewer than the smallest
\* number of replicas asked for.  A deploy that recreates and a pod that fails end
\* this promise.
RollingKeepsServing == Cardinality(ready) >= promised

\* Every wait ends, because a rollout that makes no progress runs out of time.  The
\* client itself has no time-out.
WaitsEnd == \A c \in Clients : pc[c] = "polling" ~> pc[c] = "waited"

-------------------------------------------------------------------------------
\* What the code says of itself and does not do.

\* cli/cmd/deploy.go, on --wait: "whether to wait until the deploy has succeeded (or
\* failed)".  If nothing fails on the way, a wait for a Deployment that is there ends
\* only when a rollout since has succeeded or some rollout has run out of time.
WaitsLastUntilSettled ==
    [][\A c \in Clients :
          Waited(c) /\ since[c] # 0 /\ disturbances' = 0 =>
              rolledOut >= since[c] \/ expired # 0]_vars
===============================================================================
