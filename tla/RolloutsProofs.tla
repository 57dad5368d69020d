---------------------------- MODULE RolloutsProofs ----------------------------
(***************************************************************************)
(* For any number of clients, versions, pods, deploys and disturbances:    *)
(* the rollout keeps its type, a wait that ends well has seen a rollout,   *)
(* one that fails has a cause, and rolling deploys never take a ready pod  *)
(* away before its replacement is ready.                                   *)
(*                                                                         *)
(* Success: the status the handler reads is at most as new as the          *)
(* specification, and if it is as new and its counters say so, the newest  *)
(* generation is up (StatusIsTrue).  Serving: the promise is at most the   *)
(* replicas asked for, and nothing once a deploy recreates (PromiseIsKept).*)
(* Failure: a missed deadline in a status that is as new as a wait for new *)
(* versions was missed during that wait (DeadlinesAreTold).                *)
(***************************************************************************)
EXTENDS Rollouts, FiniteSetTheorems, TLAPS

-------------------------------------------------------------------------------
\* Sets of pods and their sizes.

\* Every set of pods has a size, and a larger one has a larger size.
LEMMA PodSets ==
    ASSUME NEW A \in SUBSET Pods, NEW B \in SUBSET A
    PROVE  /\ IsFiniteSet(A) /\ IsFiniteSet(B)
           /\ Cardinality(A) \in Nat /\ Cardinality(B) \in Nat
           /\ Cardinality(B) <= Cardinality(A)
           /\ Cardinality(A) = Cardinality(B) => A = B
  <1>1. IsFiniteSet(Pods)
    BY FS_Interval, PodAssumption DEF Pods
  <1>2. IsFiniteSet(A)
    BY <1>1, FS_Subset
  <1>3. /\ IsFiniteSet(B) /\ Cardinality(B) <= Cardinality(A)
        /\ Cardinality(A) = Cardinality(B) => A = B
    BY <1>2, FS_Subset
  <1>4. Cardinality(A) \in Nat /\ Cardinality(B) \in Nat
    BY <1>2, <1>3, FS_CardinalityType
  <1> QED BY <1>2, <1>3, <1>4

\* The sets the controller counts are sets of pods.
LEMMA CountedSets ==
    ASSUME TypeOK
    PROVE  /\ Running \subseteq Pods /\ New \subseteq Running /\ ready \subseteq Running
           /\ Cardinality(Running) \in Nat /\ Cardinality(New) \in Nat
           /\ Cardinality(ready) \in Nat
           /\ Cardinality(New) <= Cardinality(Running)
           /\ Cardinality(Running) - Cardinality(New) \in Nat
  <1>1. Running \subseteq Pods /\ ready \subseteq Running
    BY DEF Running, TypeOK
  <1>2. New \subseteq Running
    BY VersionAssumption DEF New, Of, Running, TypeOK, Specs
  <1>3. /\ Cardinality(Running) \in Nat /\ Cardinality(New) \in Nat
        /\ Cardinality(New) <= Cardinality(Running)
    BY <1>1, <1>2, PodSets
  <1>4. Cardinality(ready) \in Nat
    BY <1>1, PodSets
  <1> QED BY <1>1, <1>2, <1>3, <1>4

\* If at least as many pods are available and updated as run, all is up.
LEMMA CountsTellAllUp ==
    ASSUME TypeOK, Cardinality(New) >= Desired, Cardinality(Running) <= Cardinality(New),
           Cardinality(ready) >= Cardinality(New)
    PROVE  AllUp
  <1>1. Running \in SUBSET Pods /\ New \in SUBSET Running /\ ready \in SUBSET Running
    BY CountedSets
  <1>2. Running = New
    BY <1>1, PodSets
  <1>3. Cardinality(ready) <= Cardinality(Running)
    BY <1>1, PodSets
  <1>4. Cardinality(ready) = Cardinality(Running)
    BY <1>2, <1>3, CountedSets
  <1>5. ready = Running
    BY <1>1, <1>4, PodSets
  <1> QED BY <1>2, <1>5 DEF AllUp

-------------------------------------------------------------------------------
\* Types.

LEMMA InitTyped == Init => TypeOK
  <1> SUFFICES ASSUME Init PROVE TypeOK
    OBVIOUS
  <1> USE VersionAssumption, PodAssumption
  <1>1. 1 \in 1 .. MaxReplicas /\ MaxReplicas \in 1 .. MaxReplicas /\ 1 .. MaxReplicas \subseteq Pods
    BY DEF Pods
  <1>2. createDeploymentSpec(Earlier, "RollingUpdate", 1) \in Specs
    BY <1>1 DEF createDeploymentSpec, Specs, Strategies
  <1>3. createDeploymentSpec(Earlier, "RollingUpdate", MaxReplicas) \in Specs
    BY <1>1 DEF createDeploymentSpec, Specs, Strategies
  <1>4. /\ deployment \in [generation : Nat, spec : Specs]
        /\ status \in [observed : Nat,
                       counts : [replicas : Nat, updated : Nat, available : Nat],
                       progress : {"progressing", "complete", "exceeded"}]
        /\ known \subseteq Versions /\ ready \subseteq Pods
    BY <1>1, <1>2, <1>3 DEF Init, Absent, Settled, All
  <1>5. runs \in [Pods -> Versions \cup {NoVersion}] /\ ready \subseteq Running
    BY <1>4 DEF Init, Running
  <1>6. Cardinality(ready) \in Nat
    BY <1>4, PodSets
  <1>7. {deploys, disturbances, promised, rolledOut, expired} \subseteq Nat
    BY <1>4, <1>6 DEF Init
  <1> QED BY <1>4, <1>5, <1>7 DEF Init, TypeOK, Home
\* A deploy leaves a well-formed Deployment, a new generation of it or the same.
LEMMA WriteTyped ==
    ASSUME TypeOK, NEW v \in Versions, NEW s \in Strategies, Write(v, s)
    PROVE  /\ deployment' \in [generation : Nat, spec : Specs]
           /\ deployment'.spec.strategy = s
           /\ deployment'.spec.maxUnavailable = 0
           /\ deployment.generation # 0 => deployment'.spec.replicas = Desired
           /\ deployment.generation = 0 => deployment'.spec.replicas = 1
           /\ \/ deployment'.generation = deployment.generation + 1
              \/ deployment' = deployment
           /\ {deploys', promised'} \subseteq Nat
  <1> DEFINE spec == createDeploymentDef(v, s)
  <1>1. Desired \in 1 .. MaxReplicas /\ 1 \in 1 .. MaxReplicas
    BY PodAssumption DEF TypeOK, Specs, Desired
  <1>2. spec \in Specs /\ spec.strategy = s /\ spec.maxUnavailable = 0
    BY <1>1 DEF createDeploymentDef, createDeploymentSpec, Specs, Desired
  <1>3. spec.replicas = IF deployment.generation = 0 THEN 1 ELSE Desired
    BY DEF createDeploymentDef, createDeploymentSpec, Desired
  <1> HIDE DEF spec
  <1>4. deployment' = Updated(spec) /\ deployment \in [generation : Nat, spec : Specs]
    BY DEF Write, TypeOK, spec
  <1>5. /\ deployment'.spec = spec /\ deployment' \in [generation : Nat, spec : Specs]
        /\ deployment'.generation \in {deployment.generation + 1, deployment.generation}
        /\ deployment'.generation = deployment.generation => deployment.spec = spec
    BY <1>2, <1>4 DEF Updated
  <1>6. {deploys', promised'} \subseteq Nat
    BY DEF Write, TypeOK
  <1>7. deployment'.generation = deployment.generation => deployment' = deployment
    BY <1>4, <1>5
  <1> QED BY <1>2, <1>3, <1>5, <1>6, <1>7

\* So does a scaling.
LEMMA ScaleTyped ==
    ASSUME TypeOK, Scale
    PROVE  /\ deployment' \in [generation : Nat, spec : Specs]
           /\ deployment'.spec.strategy = deployment.spec.strategy
           /\ deployment'.spec.maxUnavailable = deployment.spec.maxUnavailable
           /\ deployment'.generation = deployment.generation + 1
           /\ promised' \in Nat /\ promised' <= promised /\ promised' <= deployment'.spec.replicas
  <1>1. PICK n \in (1 .. MaxReplicas) \ {Desired} :
          /\ deployment' = Updated([deployment.spec EXCEPT !.replicas = n])
          /\ promised' = Least(promised, n)
    BY DEF Scale
  <1> DEFINE spec == [deployment.spec EXCEPT !.replicas = n]
  <1>2. /\ spec \in Specs /\ spec.replicas = n /\ spec # deployment.spec
        /\ spec.strategy = deployment.spec.strategy
        /\ spec.maxUnavailable = deployment.spec.maxUnavailable
    BY DEF TypeOK, Specs, Desired
  <1> HIDE DEF spec
  <1>3. deployment' = Updated(spec) /\ deployment \in [generation : Nat, spec : Specs]
    BY <1>1 DEF TypeOK, spec
  <1>4. /\ deployment'.spec = spec /\ deployment'.generation = deployment.generation + 1
        /\ deployment' \in [generation : Nat, spec : Specs]
    BY <1>2, <1>3 DEF Updated
  <1>5. promised' \in Nat /\ promised' <= promised /\ promised' <= n
    BY <1>1, PodAssumption DEF Least, TypeOK
  <1> QED BY <1>2, <1>4, <1>5

\* What a poll answers.
LEMMA AnswersTyped ==
    ASSUME NEW c \in Clients
    PROVE  deploymentStatusHandler(c) \in {202, 200, 404, 500}
  BY DEF deploymentStatusHandler, DeploymentStatus, StatusCode

\* A pod that changes hands.
LEMMA BecomesTyped ==
    ASSUME TypeOK, NEW p \in Pods, NEW v \in Versions \cup {NoVersion}, Becomes(p, v)
    PROVE  TypeOK'
  <1>1. runs' \in [Pods -> Versions \cup {NoVersion}] /\ ready' \subseteq Running'
    BY DEF Becomes, TypeOK, Running
  <1> QED BY <1>1 DEF Becomes, TypeOK, clientVars, boundVars, historyVars, Home

-------------------------------------------------------------------------------
LEMMA ControllerTyped ==
    ASSUME TypeOK, Controller PROVE TypeOK'
  <1> USE DEF clientVars, boundVars, historyVars, podVars
  <1>1. CASE Report
    <2>1. Counts \in [replicas : Nat, updated : Nat, available : Nat]
      BY CountedSets DEF Counts
    <2>2. known' \subseteq Versions
      BY <1>1 DEF Report, TypeOK, Specs
    <2>3. /\ status'.observed \in Nat /\ rolledOut' \in Nat
          /\ status' \in [observed : Nat, counts : [replicas : Nat, updated : Nat, available : Nat],
                          progress : {"progressing", "complete", "exceeded"}]
      BY <1>1, <2>1 DEF Report, TypeOK
    <2>4. ready' \subseteq Running'
      BY <1>1 DEF Report, Running, TypeOK
    <2> QED BY <1>1, <2>2, <2>3, <2>4 DEF Report, TypeOK, Home
  <1>2. CASE DeadlinePasses
    <2>1. ready' \subseteq Running'
      BY <1>2 DEF DeadlinePasses, Running, TypeOK
    <2> QED BY <1>2, <2>1 DEF DeadlinePasses, TypeOK, Home
  <1>3. CASE CreatePod
    <2>1. PICK p \in Pods : Becomes(p, deployment.spec.version)
      BY <1>3 DEF CreatePod, First
    <2>2. deployment.spec.version \in Versions
      BY DEF TypeOK, Specs
    <2> QED BY <2>1, <2>2, BecomesTyped
  <1>4. CASE RemoveOldPod
    <2>1. PICK p \in Pods : Becomes(p, NoVersion)
      BY <1>4 DEF RemoveOldPod, First, Of
    <2> QED BY <2>1, BecomesTyped
  <1>5. CASE RemoveNewPod
    <2>1. PICK p \in New : Becomes(p, NoVersion)
      BY <1>5 DEF RemoveNewPod, First
    <2>2. p \in Pods
      BY <2>1 DEF New, Of
    <2> QED BY <2>1, <2>2, BecomesTyped
  <1> QED BY <1>1, <1>2, <1>3, <1>4, <1>5 DEF Controller

LEMMA PodTyped ==
    ASSUME TypeOK, NEW p \in Pods, Pod(p) PROVE TypeOK'
  <1> USE DEF clientVars, boundVars, historyVars, podVars
  <1>1. CASE PodGetsReady(p)
    <2>1. ready' \subseteq Running'
      BY <1>1 DEF PodGetsReady, Running, TypeOK
    <2> QED BY <1>1, <2>1 DEF PodGetsReady, TypeOK, Home
  <1>2. CASE PodFails(p)
    <2>1. ready' \subseteq Running'
      BY <1>2 DEF PodFails, Running, TypeOK
    <2>2. disturbances' \in Nat /\ UNCHANGED deploys
      BY <1>2 DEF PodFails, Disturbance, TypeOK
    <2> QED BY <1>2, <2>1, <2>2 DEF PodFails, TypeOK, Home
  <1> QED BY <1>1, <1>2 DEF Pod

LEMMA ExitsTyped ==
    ASSUME TypeOK, NEW c \in Clients, NEW at \in {"exited", "waited"},
           NEW code \in {0, 200, 404, 500}, Exits(c, at, code)
    PROVE  /\ pc' \in [Clients -> {"idle", "deploying", "polling", "exited", "waited"}]
           /\ place' \in [Clients -> {Home, <<Application, Namespace>>}]
           /\ answer' \in [Clients -> {0, 200, 404, 500}]
           /\ since' \in [Clients -> Nat] /\ fresh' \in [Clients -> BOOLEAN]
  BY DEF TypeOK, Exits

LEMMA ClientTyped ==
    ASSUME TypeOK, NEW c \in Clients, Client(c) PROVE TypeOK'
  <1> USE DEF clientVars, boundVars, historyVars, podVars
  <1>0. UNCHANGED runs /\ UNCHANGED ready => ready' \subseteq Running'
    BY DEF Running, TypeOK
  <1>1. CASE Deploy(c)
    <2>1. PICK v \in Versions, s \in Strategies :
            /\ Write(v, s)
            /\ fresh' = [q \in Clients |-> (q = c \/ fresh[q]) /\ v \notin known]
      BY <1>1 DEF Deploy
    <2>2. deployment' \in [generation : Nat, spec : Specs] /\ {deploys', promised'} \subseteq Nat
      BY <2>1, WriteTyped
    <2>3. fresh' \in [Clients -> BOOLEAN]
      BY <2>1
    <2>4. /\ pc' \in [Clients -> {"idle", "deploying", "polling", "exited", "waited"}]
          /\ place' \in [Clients -> {Home, <<Application, Namespace>>}]
          /\ since' \in [Clients -> Nat]
      BY <1>1, <2>2 DEF Deploy, TypeOK
    <2> QED BY <1>0, <1>1, <2>1, <2>2, <2>3, <2>4 DEF Deploy, Write, TypeOK, Home
  <1>2. CASE DeployFails(c)
    <2>1. disturbances' \in Nat /\ UNCHANGED deploys
      BY <1>2 DEF DeployFails, Disturbance, TypeOK
    <2>2. Exits(c, "exited", 500)
      BY <1>2 DEF DeployFails
    <2> QED BY <1>0, <1>2, <2>1, <2>2, ExitsTyped DEF DeployFails, TypeOK, Home
  <1>3. CASE DeploySucceeds(c)
    BY <1>0, <1>3 DEF DeploySucceeds, TypeOK, Home
  <1>4. CASE StartWait(c)
    <2>1. fresh' \in [Clients -> BOOLEAN] /\ since' \in [Clients -> Nat]
      BY <1>4 DEF StartWait, TypeOK
    <2> QED BY <1>0, <1>4, <2>1 DEF StartWait, TypeOK, Home
  <1>5. CASE Poll(c)
    <2>1. CASE Exits(c, "waited", deploymentStatusHandler(c)) /\ deploymentStatusHandler(c) # 202
      <3>1. deploymentStatusHandler(c) \in {0, 200, 404, 500}
        BY <2>1, AnswersTyped
      <3> QED BY <1>0, <1>5, <2>1, <3>1, ExitsTyped DEF Poll, TypeOK, Home
    <2>2. CASE UNCHANGED clientVars
      BY <1>0, <1>5, <2>2 DEF Poll, TypeOK, Home
    <2> QED BY <1>5, <2>1, <2>2 DEF Poll
  <1>6. CASE PollFails(c)
    <2>1. disturbances' \in Nat /\ UNCHANGED deploys
      BY <1>6 DEF PollFails, Disturbance, TypeOK
    <2>2. PICK code \in {0, 404} : Exits(c, "waited", code)
      BY <1>6 DEF PollFails
    <2> QED BY <1>0, <1>6, <2>1, <2>2, ExitsTyped DEF PollFails, TypeOK, Home
  <1> QED BY <1>1, <1>2, <1>3, <1>4, <1>5, <1>6 DEF Client
LEMMA StepTyped == TypeOK /\ [Next]_vars => TypeOK'
  <1> SUFFICES ASSUME TypeOK, [Next]_vars PROVE TypeOK'
    OBVIOUS
  <1>0. UNCHANGED runs /\ UNCHANGED ready => ready' \subseteq Running'
    BY DEF Running, TypeOK
  <1>1. CASE Scale
    <2>1. disturbances' \in Nat /\ UNCHANGED deploys
      BY <1>1 DEF Scale, Disturbance, TypeOK
    <2>2. deployment' \in [generation : Nat, spec : Specs] /\ promised' \in Nat
      BY <1>1, ScaleTyped
    <2> QED BY <1>0, <1>1, <2>1, <2>2 DEF Scale, TypeOK, Home, podVars, clientVars
  <1>2. CASE OtherDeploy
    <2>1. PICK v \in Versions, s \in Strategies :
            /\ Write(v, s) /\ fresh' = [c \in Clients |-> fresh[c] /\ v \notin known]
      BY <1>2 DEF OtherDeploy
    <2>2. deployment' \in [generation : Nat, spec : Specs] /\ {deploys', promised'} \subseteq Nat
      BY <2>1, WriteTyped
    <2>3. fresh' \in [Clients -> BOOLEAN]
      BY <2>1, VersionAssumption DEF TypeOK
    <2> QED BY <1>0, <1>2, <2>1, <2>2, <2>3 DEF OtherDeploy, Write, TypeOK, Home, podVars
  <1>3. CASE UNCHANGED vars
    BY <1>0, <1>3 DEF vars, podVars, clientVars, boundVars, historyVars, TypeOK, Home
  <1> QED BY <1>1, <1>2, <1>3, ControllerTyped, ClientTyped, PodTyped DEF Next

\* Every reachable state is well typed.
THEOREM TypeCorrect == Spec => []TypeOK
  <1>1. Init => TypeOK
    BY InitTyped
  <1>2. TypeOK /\ [Next]_vars => TypeOK'
    BY StepTyped
  <1> QED BY <1>1, <1>2, PTL DEF Spec

-------------------------------------------------------------------------------
\* A wait that ends well.

\* The status is of this generation or an earlier one, each wait is for this one or an
\* earlier one, and a status of this generation that tells of success is right.
StatusIsTrue == /\ status.observed <= deployment.generation
                /\ \A c \in Clients : since[c] <= deployment.generation
                /\ rolledOut <= deployment.generation
                /\ Observed /\ RolledOut => rolledOut = deployment.generation

LEMMA InitTrue == Init => StatusIsTrue
  <1> SUFFICES ASSUME Init PROVE StatusIsTrue
    OBVIOUS
  <1>1. CASE deployment = Absent /\ status.observed = 0
    BY <1>1 DEF Init, StatusIsTrue, Absent
  <1>2. CASE deployment = Settled(MaxReplicas) /\ status.observed = 1
    BY <1>2 DEF Init, StatusIsTrue, Settled
  <1> QED BY <1>1, <1>2 DEF Init

\* A step that leaves the status and the Deployment alone.
LEMMA ClientsKeepStatusTrue ==
    ASSUME TypeOK, StatusIsTrue, UNCHANGED <<deployment, status, rolledOut>>,
           \A c \in Clients : since'[c] \in {0, since[c], deployment.generation}
    PROVE  StatusIsTrue'
  BY DEF StatusIsTrue, Observed, RolledOut, Desired, TypeOK

\* A step that makes a new generation: nothing is known of it.
LEMMA NewGenerationsAreUnobserved ==
    ASSUME TypeOK, TypeOK', StatusIsTrue, UNCHANGED <<status, rolledOut>>,
           \/ deployment'.generation = deployment.generation + 1
           \/ deployment' = deployment,
           \A c \in Clients : since'[c] \in {since[c], deployment'.generation}
    PROVE  StatusIsTrue'
  <1>1. CASE deployment'.generation = deployment.generation + 1
    <2>1. ~Observed'
      BY <1>1 DEF Observed, StatusIsTrue, TypeOK
    <2>2. \A c \in Clients : since'[c] <= deployment'.generation
      BY <1>1 DEF StatusIsTrue, TypeOK
    <2> QED BY <1>1, <2>1, <2>2 DEF StatusIsTrue, TypeOK
  <1>2. CASE deployment' = deployment
    BY <1>2 DEF StatusIsTrue, Observed, RolledOut, Desired, TypeOK
  <1> QED BY <1>1, <1>2

\* A report that tells of success tells the truth.
LEMMA ReportsAreTrue ==
    ASSUME TypeOK, StatusIsTrue, Report PROVE StatusIsTrue'
  <1>1. /\ status'.observed = deployment.generation /\ status'.counts = Counts
        /\ deployment' = deployment /\ since' = since
        /\ rolledOut' = IF AllUp THEN deployment.generation ELSE rolledOut
    BY DEF Report, clientVars
  <1>2. RolledOut' => AllUp
    <2>1. RolledOut' => /\ Cardinality(New) >= Desired
                        /\ Cardinality(Running) <= Cardinality(New)
                        /\ Cardinality(ready) >= Cardinality(New)
      BY <1>1 DEF RolledOut, Counts, Desired
    <2> QED BY <2>1, CountsTellAllUp
  <1> QED BY <1>1, <1>2 DEF StatusIsTrue, TypeOK, Observed

LEMMA StepTrue == TypeOK /\ StatusIsTrue /\ [Next]_vars => StatusIsTrue'
  <1> SUFFICES ASSUME TypeOK, StatusIsTrue, [Next]_vars PROVE StatusIsTrue'
    OBVIOUS
  <1>0. TypeOK'
    BY StepTyped
  <1> USE DEF clientVars, boundVars, historyVars, podVars
  <1>1. CASE Controller
    <2>1. CASE DeadlinePasses
      BY <2>1 DEF DeadlinePasses, StatusIsTrue, Observed, RolledOut, Desired, TypeOK
    <2>2. CASE CreatePod \/ RemoveOldPod \/ RemoveNewPod
      BY <2>2, ClientsKeepStatusTrue DEF CreatePod, RemoveOldPod, RemoveNewPod, Becomes
    <2> QED BY <1>1, <2>1, <2>2, ReportsAreTrue DEF Controller
  <1>2. CASE Scale
    BY <1>0, <1>2, ScaleTyped, NewGenerationsAreUnobserved DEF Scale
  <1>3. CASE OtherDeploy
    BY <1>0, <1>3, WriteTyped, NewGenerationsAreUnobserved DEF OtherDeploy, Write
  <1>4. ASSUME NEW c \in Clients, Client(c) PROVE StatusIsTrue'
    <2>1. CASE Deploy(c)
      <3>1. PICK v \in Versions, s \in Strategies : Write(v, s)
        BY <2>1 DEF Deploy
      <3>2. \A q \in Clients : since'[q] \in {since[q], deployment'.generation}
        BY <2>1 DEF Deploy, TypeOK
      <3> QED BY <1>0, <3>1, <3>2, WriteTyped, NewGenerationsAreUnobserved DEF Write
    <2>2. CASE StartWait(c)
      <3>1. \A q \in Clients : since'[q] \in {0, since[q], deployment.generation}
        BY <2>2 DEF StartWait, TypeOK
      <3> QED BY <2>2, <3>1, ClientsKeepStatusTrue DEF StartWait
    <2>3. CASE DeploySucceeds(c)
      BY <2>3, ClientsKeepStatusTrue DEF DeploySucceeds
    <2>4. CASE DeployFails(c) \/ Poll(c) \/ PollFails(c)
      <3>1. \A q \in Clients : since'[q] \in {0, since[q]}
        BY <2>4 DEF DeployFails, Poll, PollFails, Exits, TypeOK
      <3> QED BY <2>4, <3>1, ClientsKeepStatusTrue DEF DeployFails, Poll, PollFails
    <2> QED BY <1>4, <2>1, <2>2, <2>3, <2>4 DEF Client
  <1>5. ASSUME NEW p \in Pods, Pod(p) PROVE StatusIsTrue'
    BY <1>5, ClientsKeepStatusTrue DEF Pod, PodGetsReady, PodFails
  <1>6. CASE UNCHANGED vars
    BY <1>6, ClientsKeepStatusTrue DEF vars
  <1> QED BY <1>1, <1>2, <1>3, <1>4, <1>5, <1>6 DEF Next

LEMMA StatusCorrect == Spec => []StatusIsTrue
  <1>1. Init => StatusIsTrue
    BY InitTrue
  <1>2. TypeOK /\ StatusIsTrue /\ [Next]_vars => StatusIsTrue'
    BY StepTrue
  <1> QED BY <1>1, <1>2, TypeCorrect, PTL DEF Spec

\* Only the client itself ends its wait.
LEMMA OnlyPollsEndWaits ==
    ASSUME TypeOK, Next, NEW c \in Clients, Waited(c)
    PROVE  Poll(c) \/ PollFails(c)
  <1>1. pc'[c] # pc[c] /\ pc'[c] = "waited" /\ pc[c] = "polling"
    BY DEF Waited
  <1>2. ~(Controller \/ Scale \/ OtherDeploy \/ \E p \in Pods : Pod(p))
    BY <1>1 DEF Controller, Report, DeadlinePasses, CreatePod, RemoveOldPod, RemoveNewPod,
         Becomes, Scale, OtherDeploy, Pod, PodGetsReady, PodFails, clientVars
  <1>3. PICK q \in Clients : Client(q)
    BY <1>2 DEF Next
  <1>4. Poll(q) \/ PollFails(q)
    BY <1>1, <1>3 DEF Client, Deploy, DeployFails, DeploySucceeds, StartWait, Exits, TypeOK
  <1>5. q = c
    BY <1>1, <1>4 DEF Poll, PollFails, Exits, TypeOK, clientVars
  <1> QED BY <1>4, <1>5

\* A wait that ends well has seen a rollout: at some time since the deploy it waits for
\* the pods were all of the newest version, ready, and as many as asked for.
THEOREM SuccessCorrect == Spec => SuccessIsARollout
  <1> DEFINE Step == \A c \in Clients : Waited(c) /\ answer'[c] = 200 => rolledOut >= since[c]
  <1>1. TypeOK /\ StatusIsTrue /\ [Next]_vars => [Step]_vars
    <2> SUFFICES ASSUME TypeOK, StatusIsTrue, Next, NEW c \in Clients, Waited(c), answer'[c] = 200
                 PROVE  rolledOut >= since[c]
      BY DEF vars, Waited
    <2>1. Poll(c)
      BY OnlyPollsEndWaits DEF PollFails, Exits, TypeOK
    <2>2. deploymentStatusHandler(c) = 200
      BY <2>1 DEF Poll, Exits, Waited, TypeOK, clientVars
    <2>3. Observed /\ RolledOut
      BY <2>2 DEF deploymentStatusHandler, DeploymentStatus, StatusCode
    <2> QED BY <2>3 DEF StatusIsTrue, TypeOK
  <1> QED BY <1>1, StatusCorrect, TypeCorrect, PTL DEF Spec, SuccessIsARollout
-------------------------------------------------------------------------------
\* What rolling deploys promise.

\* No more is promised than is asked for, and nothing once a deploy recreates.
PromiseIsKept == /\ promised <= Desired
                 /\ Rolling \/ promised = 0
                 /\ deployment.generation = 0 => promised = 0
                 /\ deployment.spec.maxUnavailable = 0
                 /\ RollingKeepsServing

LEMMA InitServes == Init => PromiseIsKept
  <1> SUFFICES ASSUME Init PROVE PromiseIsKept
    OBVIOUS
  <1>1. CASE deployment = Absent /\ ready = {}
    <2>1. Cardinality(ready) = 0
      BY <1>1, FS_EmptySet
    <2> QED BY <1>1, <2>1 DEF Init, PromiseIsKept, RollingKeepsServing, Absent, Desired, Rolling,
                createDeploymentSpec
  <1>2. CASE deployment = Settled(MaxReplicas) /\ ready = 1 .. MaxReplicas
    <2>1. Cardinality(ready) = MaxReplicas
      BY <1>2, FS_Interval, PodAssumption
    <2> QED BY <1>2, <2>1, PodAssumption DEF Init, PromiseIsKept, RollingKeepsServing, Settled,
                Desired, Rolling, createDeploymentSpec
  <1> QED BY <1>1, <1>2 DEF Init

\* A step that leaves the Deployment and the promise alone, and as many pods ready.
LEMMA ServingKept ==
    ASSUME PromiseIsKept, UNCHANGED <<deployment, promised>>,
           \/ UNCHANGED ready
           \/ Cardinality(ready') >= promised
    PROVE  PromiseIsKept'
  BY DEF PromiseIsKept, RollingKeepsServing, Desired, Rolling

\* A pod that changes hands takes at most one from those that are ready, and none if
\* it was not.
LEMMA BecomesCounts ==
    ASSUME TypeOK, NEW p \in Pods, NEW v, Becomes(p, v)
    PROVE  /\ UNCHANGED <<deployment, promised>>
           /\ Cardinality(ready) \in Nat /\ Cardinality(ready') \in Nat
           /\ Cardinality(ready') = IF p \in ready THEN Cardinality(ready) - 1
                                                  ELSE Cardinality(ready)
  <1>1. IsFiniteSet(ready) /\ Cardinality(ready) \in Nat
    <2>1. ready \in SUBSET Pods
      BY CountedSets
    <2> QED BY <2>1, PodSets
  <1>2. ready' = ready \ {p} /\ UNCHANGED <<deployment, promised>>
    BY DEF Becomes, historyVars
  <1>3. Cardinality(ready \ {p}) = IF p \in ready THEN Cardinality(ready) - 1
                                                  ELSE Cardinality(ready)
    BY <1>1, FS_RemoveElement
  <1>4. Cardinality(ready \ {p}) \in Nat
    BY <1>1, FS_RemoveElement, FS_CardinalityType
  <1> QED BY <1>1, <1>2, <1>3, <1>4

LEMMA ControllerServes ==
    ASSUME TypeOK, PromiseIsKept, Controller PROVE PromiseIsKept'
  <1>0. promised \in Nat /\ Desired \in Nat /\ promised <= Cardinality(ready)
        /\ promised <= Desired /\ MinAvailable = Desired
    BY DEF TypeOK, PromiseIsKept, RollingKeepsServing, Desired, Specs, MinAvailable
  <1>1. CASE Report \/ DeadlinePasses
    BY <1>1, ServingKept DEF Report, DeadlinePasses, podVars
  <1>2. CASE CreatePod
    <2>1. PICK p \in Pods \ Running : Becomes(p, deployment.spec.version)
      BY <1>2 DEF CreatePod, First
    <2>2. p \notin ready
      BY <2>1, CountedSets
    <2> QED BY <1>0, <2>1, <2>2, BecomesCounts, ServingKept
  <1>3. CASE RemoveOldPod
    <2>1. PICK p \in Spare \cap Pods : Becomes(p, NoVersion)
      BY <1>3 DEF RemoveOldPod, First, Of
    <2>2. CASE ~Rolling
      <3>1. promised = 0
        BY <2>2 DEF PromiseIsKept
      <3> QED BY <1>0, <2>1, <3>1, BecomesCounts, ServingKept
    <2>3. CASE Rolling /\ p \notin ready
      BY <1>0, <2>1, <2>3, BecomesCounts, ServingKept
    <2>4. CASE Rolling /\ p \in ready
      <3>1. Spare = {} \/ Spare = Old \ ready \/ Cardinality(ready) > MinAvailable
        <4>1. CASE Cardinality(Old) + Cardinality(New \cap ready) <= MinAvailable
          BY <2>4, <4>1 DEF Spare
        <4>2. CASE /\ ~(Cardinality(Old) + Cardinality(New \cap ready) <= MinAvailable)
                   /\ ~(Old \subseteq ready)
          BY <2>4, <4>2 DEF Spare
        <4>3. CASE /\ ~(Cardinality(Old) + Cardinality(New \cap ready) <= MinAvailable)
                   /\ Old \subseteq ready
          BY <2>4, <4>3 DEF Spare
        <4> QED BY <4>1, <4>2, <4>3
      <3>2. Cardinality(ready) > Desired
        BY <1>0, <2>1, <2>4, <3>1
      <3> QED BY <1>0, <2>1, <2>4, <3>2, BecomesCounts, ServingKept
    <2> QED BY <2>2, <2>3, <2>4
  <1>4. CASE RemoveNewPod
    <2>1. Cardinality(New) > Desired
      BY <1>4 DEF RemoveNewPod
    <2>2. PICK p \in IF New \subseteq ready THEN New ELSE New \ ready : Becomes(p, NoVersion)
      BY <1>4 DEF RemoveNewPod, First
    <2>3. p \in Pods
      BY <2>2 DEF New, Of
    <2>4. CASE New \subseteq ready
      <3>1. Cardinality(New) <= Cardinality(ready) /\ Cardinality(New) \in Nat
        <4>1. ready \in SUBSET Pods
          BY CountedSets
        <4> QED BY <2>4, <4>1, PodSets
      <3> QED BY <1>0, <2>1, <2>2, <2>3, <3>1, BecomesCounts, ServingKept
    <2>5. CASE ~(New \subseteq ready)
      BY <1>0, <2>2, <2>3, <2>5, BecomesCounts, ServingKept
    <2> QED BY <2>4, <2>5
  <1> QED BY <1>1, <1>2, <1>3, <1>4 DEF Controller

\* A deploy keeps the replicas, and a new Deployment follows no promise.
LEMMA WriteServes ==
    ASSUME TypeOK, PromiseIsKept,
           NEW v \in Versions, NEW s \in Strategies, Write(v, s)
    PROVE  PromiseIsKept'
  <1>1. promised' = IF s = "Recreate" THEN 0 ELSE promised
    BY DEF Write
  <1>2. /\ deployment'.spec.strategy = s /\ deployment'.spec.maxUnavailable = 0
        /\ Desired' = IF deployment.generation = 0 THEN 1 ELSE Desired
    BY WriteTyped DEF Desired
  <1>3. /\ promised \in Nat /\ Desired \in Nat /\ promised <= Desired
        /\ Cardinality(ready) >= promised
        /\ deployment.generation = 0 => promised = 0
    BY DEF TypeOK, PromiseIsKept, RollingKeepsServing, Desired, Specs
  <1>4. ready' = ready /\ Cardinality(ready) \in Nat
    BY CountedSets DEF Write, podVars
  <1>5. promised' <= Desired' /\ Cardinality(ready') >= promised'
    BY <1>1, <1>2, <1>3, <1>4
  <1>6. Rolling' \/ promised' = 0
    BY <1>1, <1>2 DEF Rolling, Strategies
  <1>7. deployment'.generation = 0 => promised' = 0
    BY <1>1, WriteTyped DEF PromiseIsKept, TypeOK
  <1> QED BY <1>2, <1>5, <1>6, <1>7 DEF PromiseIsKept, RollingKeepsServing

LEMMA ScaleServes ==
    ASSUME TypeOK, PromiseIsKept, Scale PROVE PromiseIsKept'
  <1>1. /\ promised' \in Nat /\ promised' <= promised /\ promised' <= Desired'
        /\ deployment'.spec.maxUnavailable = deployment.spec.maxUnavailable
        /\ Rolling' = Rolling
        /\ deployment'.generation = deployment.generation + 1 /\ deployment.generation \in Nat
    BY ScaleTyped DEF Desired, Rolling, TypeOK
  <1>2. ready' = ready /\ Cardinality(ready) \in Nat /\ promised \in Nat
    BY CountedSets DEF Scale, podVars, TypeOK
  <1> QED BY <1>1, <1>2 DEF PromiseIsKept, RollingKeepsServing

LEMMA PodServes ==
    ASSUME TypeOK, PromiseIsKept, NEW p \in Pods, Pod(p) PROVE PromiseIsKept'
  <1>1. ready \in SUBSET Pods /\ ready \cup {p} \in SUBSET Pods /\ ready \ {p} \in SUBSET Pods
    BY CountedSets
  <1>2. CASE PodGetsReady(p)
    <2>1. Cardinality(ready \cup {p}) >= Cardinality(ready)
          /\ Cardinality(ready) \in Nat /\ Cardinality(ready \cup {p}) \in Nat
      BY <1>1, PodSets
    <2>2. Cardinality(ready') >= promised
      BY <1>2, <2>1 DEF PodGetsReady, PromiseIsKept, RollingKeepsServing, TypeOK
    <2> QED BY <1>2, <2>2, ServingKept DEF PodGetsReady, historyVars
  <1>3. CASE PodFails(p)
    <2>1. Cardinality(ready') \in Nat
      BY <1>1, <1>3, PodSets DEF PodFails
    <2>2. promised' = 0 /\ deployment' = deployment
      BY <1>3 DEF PodFails
    <2> QED BY <2>1, <2>2 DEF PromiseIsKept, RollingKeepsServing, Desired, Rolling, TypeOK, Specs
  <1> QED BY <1>2, <1>3 DEF Pod
LEMMA StepServes == TypeOK /\ PromiseIsKept /\ [Next]_vars => PromiseIsKept'
  <1> SUFFICES ASSUME TypeOK, PromiseIsKept, [Next]_vars PROVE PromiseIsKept'
    OBVIOUS
  <1> USE DEF clientVars, boundVars, historyVars, podVars
  <1>1. CASE OtherDeploy
    BY <1>1, WriteServes DEF OtherDeploy
  <1>2. ASSUME NEW c \in Clients, Client(c) PROVE PromiseIsKept'
    <2>1. CASE Deploy(c)
      BY <2>1, WriteServes DEF Deploy
    <2>2. CASE ~Deploy(c)
      BY <1>2, <2>2, ServingKept DEF Client, DeployFails, DeploySucceeds, StartWait, Poll, PollFails
    <2> QED BY <2>1, <2>2
  <1>3. CASE UNCHANGED vars
    BY <1>3, ServingKept DEF vars
  <1> QED BY <1>1, <1>2, <1>3, ControllerServes, ScaleServes, PodServes DEF Next

\* However many rolling deploys and scalings overlap, of the pods that were ready there
\* are never fewer than the smallest number asked for.
THEOREM ServingCorrect == Spec => []RollingKeepsServing
  <1>1. Init => PromiseIsKept
    BY InitServes
  <1>2. TypeOK /\ PromiseIsKept /\ [Next]_vars => PromiseIsKept'
    BY StepServes
  <1>3. PromiseIsKept => RollingKeepsServing
    BY DEF PromiseIsKept
  <1> QED BY <1>1, <1>2, <1>3, TypeCorrect, PTL DEF Spec
-------------------------------------------------------------------------------
\* A wait that fails.

\* What a status that tells of a missed deadline is worth: some deadline was missed; and
\* for a wait for versions that were new to the cluster the controller has either not
\* seen the newest one yet, which will restart the clock, or it has, and the deadline
\* was one of them.
Exceeded == status.progress = "exceeded"
DeadlinesAreTold ==
    /\ Exceeded => expired # 0
    /\ deployment.generation # 0 /\ Observed => deployment.spec.version \in known
    /\ \A c \in Clients : fresh[c] =>
         /\ status.observed < since[c] => deployment.spec.version \notin known
         /\ since[c] <= status.observed /\ Exceeded => expired >= since[c]

LEMMA InitTold == Init => DeadlinesAreTold
  <1> SUFFICES ASSUME Init PROVE DeadlinesAreTold
    OBVIOUS
  <1>1. CASE deployment = Absent /\ status.progress = "progressing"
    BY <1>1 DEF Init, DeadlinesAreTold, Absent, Exceeded
  <1>2. CASE deployment = Settled(MaxReplicas) /\ status.progress = "complete" /\ known = {Earlier}
    BY <1>2 DEF Init, DeadlinesAreTold, Settled, createDeploymentSpec, Exceeded
  <1> QED BY <1>1, <1>2 DEF Init

\* A step that leaves the Deployment and its status alone, and starts no wait.
LEMMA ToldKept ==
    ASSUME DeadlinesAreTold, UNCHANGED <<deployment, status, known, expired>>,
           \A c \in Clients : fresh'[c] => fresh[c] /\ since'[c] = since[c]
    PROVE  DeadlinesAreTold'
  BY DEF DeadlinesAreTold, Exceeded, Observed

\* A deploy, which one client may begin to wait for.
LEMMA WriteTold ==
    ASSUME TypeOK, StatusIsTrue, DeadlinesAreTold,
           NEW v \in Versions, NEW s \in Strategies, Write(v, s),
           \A c \in Clients : fresh'[c] =>
               /\ v \notin known
               /\ \/ fresh[c] /\ since'[c] = since[c]
                  \/ since'[c] = deployment'.generation
    PROVE  DeadlinesAreTold'
  <1>1. /\ deployment'.spec.version = v /\ deployment' = Updated(createDeploymentDef(v, s))
        /\ UNCHANGED <<status, known, expired>>
    BY DEF Write, Updated, createDeploymentDef, createDeploymentSpec, podVars
  <1>2. CASE deployment'.generation = deployment.generation + 1
    <2>1. ~Observed' /\ status.observed < deployment'.generation
      BY <1>1, <1>2 DEF Observed, StatusIsTrue, TypeOK
    <2>2. ASSUME NEW c \in Clients, fresh'[c], since'[c] <= status.observed, Exceeded
          PROVE  expired >= since'[c]
      <3>1. status.observed \in Nat /\ deployment'.generation \in Nat
        BY <1>2 DEF TypeOK
      <3>2. ~(deployment'.generation <= status.observed)
        BY <2>1, <3>1
      <3>3. since'[c] # deployment'.generation
        BY <2>2, <3>2
      <3> QED BY <2>2, <3>3 DEF DeadlinesAreTold
    <2> QED BY <1>1, <2>1, <2>2 DEF DeadlinesAreTold, Exceeded
  <1>3. CASE deployment' = deployment
    <2>1. deployment.generation # 0
      BY <1>1, <1>3 DEF Updated, TypeOK
    <2>2. ASSUME NEW c \in Clients, fresh'[c]
          PROVE  ~Observed /\ (since'[c] <= status.observed => fresh[c] /\ since'[c] = since[c])
      <3>1. ~Observed
        BY <1>1, <1>3, <2>1, <2>2 DEF DeadlinesAreTold
      <3> QED BY <1>3, <2>2, <3>1 DEF Observed, TypeOK
    <2> QED BY <1>1, <1>3, <2>2 DEF DeadlinesAreTold, Exceeded, Observed
  <1> QED BY <1>2, <1>3, WriteTyped

LEMMA ControllerTells ==
    ASSUME TypeOK, StatusIsTrue, DeadlinesAreTold, Controller PROVE DeadlinesAreTold'
  <1> USE DEF clientVars, boundVars, historyVars, podVars
  <1>1. CASE Report
    <2>1. /\ status'.observed = deployment.generation /\ UNCHANGED <<deployment, expired, fresh, since>>
          /\ known' = known \cup {deployment.spec.version}
          /\ status'.progress \in {"complete", "progressing", status.progress}
          /\ deployment.spec.version \notin known => status'.progress # "exceeded"
      BY <1>1 DEF Report
    <2>2. Exceeded' => Exceeded /\ deployment.spec.version \in known
      BY <2>1 DEF Exceeded
    <2>3. \A c \in Clients : since[c] <= deployment.generation
      BY DEF StatusIsTrue
    <2>4. ASSUME NEW c \in Clients, fresh[c], Exceeded' PROVE expired >= since[c]
      <3>1. ~(status.observed < since[c])
        BY <2>2, <2>4 DEF DeadlinesAreTold
      <3>2. since[c] <= status.observed
        BY <3>1 DEF TypeOK
      <3> QED BY <2>2, <2>4, <3>2 DEF DeadlinesAreTold
    <2>5. \A c \in Clients : ~(status'.observed < since[c])
      BY <2>1, <2>3 DEF TypeOK
    <2> QED BY <2>1, <2>2, <2>4, <2>5 DEF DeadlinesAreTold
  <1>2. CASE DeadlinePasses
    <2>1. /\ expired' = status.observed /\ status.observed = deployment.generation
          /\ deployment.generation # 0 /\ status'.observed = status.observed
          /\ UNCHANGED <<deployment, known, fresh, since>>
      BY <1>2 DEF DeadlinePasses, TypeOK
    <2>2. \A c \in Clients : expired' >= since[c] /\ ~(status.observed < since[c])
      BY <2>1 DEF StatusIsTrue, TypeOK
    <2> QED BY <2>1, <2>2 DEF DeadlinesAreTold, Observed
  <1>3. CASE CreatePod \/ RemoveOldPod \/ RemoveNewPod
    BY <1>3, ToldKept DEF CreatePod, RemoveOldPod, RemoveNewPod, Becomes
  <1> QED BY <1>1, <1>2, <1>3 DEF Controller

LEMMA ScaleTells ==
    ASSUME TypeOK, StatusIsTrue, DeadlinesAreTold, Scale PROVE DeadlinesAreTold'
  <1>1. deployment'.generation = deployment.generation + 1
    BY ScaleTyped
  <1>2. deployment'.spec.version = deployment.spec.version
    BY DEF Scale, Updated, TypeOK, Specs
  <1>3. ~Observed' /\ UNCHANGED <<status, known, expired, fresh, since>>
    BY <1>1 DEF Scale, podVars, clientVars, Observed, StatusIsTrue, TypeOK
  <1> QED BY <1>2, <1>3 DEF DeadlinesAreTold, Exceeded

LEMMA ClientTells ==
    ASSUME TypeOK, StatusIsTrue, DeadlinesAreTold, NEW c \in Clients, Client(c)
    PROVE  DeadlinesAreTold'
  <1> USE DEF clientVars, boundVars, historyVars, podVars
  <1>1. CASE Deploy(c)
    <2>1. PICK v \in Versions, s \in Strategies :
            /\ Write(v, s)
            /\ fresh' = [q \in Clients |-> (q = c \/ fresh[q]) /\ v \notin known]
      BY <1>1 DEF Deploy
    <2>2. since' = [since EXCEPT ![c] = deployment'.generation]
      BY <1>1 DEF Deploy
    <2>3. \A q \in Clients : fresh'[q] =>
            /\ v \notin known
            /\ \/ fresh[q] /\ since'[q] = since[q]
               \/ since'[q] = deployment'.generation
      <3> SUFFICES ASSUME NEW q \in Clients, fresh'[q]
                   PROVE  /\ v \notin known
                          /\ \/ fresh[q] /\ since'[q] = since[q]
                             \/ since'[q] = deployment'.generation
        OBVIOUS
      <3>1. (q = c \/ fresh[q]) /\ v \notin known
        BY <2>1, Zenon
      <3>2. since'[q] = IF q = c THEN deployment'.generation ELSE since[q]
        BY <2>2 DEF TypeOK
      <3> QED BY <3>1, <3>2
    <2> QED BY <2>1, <2>3, WriteTold
  <1>2. CASE StartWait(c)
    <2>1. /\ since' = [since EXCEPT ![c] = deployment.generation]
          /\ fresh' = [fresh EXCEPT ![c] = deployment.spec.version \notin known]
          /\ UNCHANGED <<deployment, status, known, expired>>
      BY <1>2 DEF StartWait
    <2>3. fresh'[c] => deployment.spec.version \notin known
      <3> DEFINE isNew == deployment.spec.version \notin known
      <3>1. fresh' = [fresh EXCEPT ![c] = isNew] /\ fresh \in [Clients -> BOOLEAN]
        BY <2>1 DEF TypeOK
      <3>2. fresh'[c] = isNew
        <4> HIDE DEF isNew
        <4> QED BY <3>1, Zenon
      <3> QED BY <3>2
    <2>2. ASSUME fresh'[c], since'[c] <= status.observed, Exceeded PROVE expired >= since'[c]
      <3>1. since'[c] = deployment.generation /\ deployment.spec.version \notin known
        <4>1. since'[c] = deployment.generation
          BY <2>1 DEF TypeOK
        <4> QED BY <2>2, <2>3, <4>1
      <3>2. deployment.generation = 0
        BY <2>2, <3>1 DEF DeadlinesAreTold, Observed
      <3> QED BY <3>1, <3>2 DEF TypeOK
    <2>4. \A q \in Clients \ {c} : fresh'[q] = fresh[q] /\ since'[q] = since[q]
      BY <2>1 DEF TypeOK
    <2> QED BY <2>1, <2>2, <2>3, <2>4 DEF DeadlinesAreTold, Exceeded, Observed
  <1>3. CASE DeploySucceeds(c)
    BY <1>3, ToldKept DEF DeploySucceeds
  <1>4. CASE DeployFails(c) \/ Poll(c) \/ PollFails(c)
    <2>1. \A q \in Clients : fresh'[q] => fresh[q] /\ since'[q] = since[q]
      BY <1>4 DEF DeployFails, Poll, PollFails, Exits, TypeOK
    <2> QED BY <1>4, <2>1, ToldKept DEF DeployFails, Poll, PollFails
  <1> QED BY <1>1, <1>2, <1>3, <1>4 DEF Client

LEMMA StepTold == TypeOK /\ StatusIsTrue /\ DeadlinesAreTold /\ [Next]_vars => DeadlinesAreTold'
  <1> SUFFICES ASSUME TypeOK, StatusIsTrue, DeadlinesAreTold, [Next]_vars PROVE DeadlinesAreTold'
    OBVIOUS
  <1> USE DEF clientVars, boundVars, historyVars, podVars
  <1>1. CASE OtherDeploy
    <2>1. PICK v \in Versions, s \in Strategies :
            Write(v, s) /\ fresh' = [c \in Clients |-> fresh[c] /\ v \notin known]
      BY <1>1 DEF OtherDeploy
    <2>2. UNCHANGED since
      BY <1>1 DEF OtherDeploy
    <2> QED BY <2>1, <2>2, WriteTold
  <1>2. ASSUME NEW p \in Pods, Pod(p) PROVE DeadlinesAreTold'
    BY <1>2, ToldKept DEF Pod, PodGetsReady, PodFails
  <1>3. CASE UNCHANGED vars
    BY <1>3, ToldKept DEF vars
  <1> QED BY <1>1, <1>2, <1>3, ControllerTells, ScaleTells, ClientTells DEF Next

\* A failed wait has a cause, and for versions new to the cluster it is not the missed
\* deadline of an earlier rollout.
THEOREM FailureCorrect == Spec => FailedWaitsHaveCauses
  <1> DEFINE Step == \A c \in Clients : Waited(c) =>
                       \/ answer'[c] = 200
                       \/ answer'[c] \in {0, 404} /\ disturbances' > disturbances
                       \/ answer'[c] = 404 /\ (since[c] = 0 \/ place[c] # Home)
                       \/ answer'[c] = 500 /\ expired # 0 /\ (fresh[c] => expired >= since[c])
  <1>1. TypeOK /\ StatusIsTrue /\ DeadlinesAreTold /\ [Next]_vars => [Step]_vars
    <2> SUFFICES ASSUME TypeOK, StatusIsTrue, DeadlinesAreTold, Next, NEW c \in Clients, Waited(c)
                 PROVE  \/ answer'[c] = 200
                        \/ answer'[c] \in {0, 404} /\ disturbances' > disturbances
                        \/ answer'[c] = 404 /\ (since[c] = 0 \/ place[c] # Home)
                        \/ answer'[c] = 500 /\ expired # 0 /\ (fresh[c] => expired >= since[c])
      BY DEF vars, Waited
    <2>1. CASE PollFails(c)
      BY <2>1 DEF PollFails, Exits, Disturbance, TypeOK
    <2>2. CASE Poll(c)
      <3>1. answer'[c] = deploymentStatusHandler(c) /\ deploymentStatusHandler(c) # 202
        BY <2>2 DEF Poll, Exits, Waited, TypeOK, clientVars
      <3>2. CASE ~Exists(c)
        BY <3>1, <3>2 DEF deploymentStatusHandler, Exists, StatusIsTrue, TypeOK
      <3>3. CASE Exists(c) /\ DeploymentStatus = "Success"
        BY <3>1, <3>3 DEF deploymentStatusHandler, StatusCode
      <3>4. CASE Exists(c) /\ DeploymentStatus = "Failed"
        <4>1. Observed /\ Exceeded
          BY <3>4 DEF DeploymentStatus, Exceeded
        <4>2. since[c] <= status.observed
          BY <4>1 DEF StatusIsTrue, Observed, TypeOK
        <4> QED BY <3>1, <3>4, <4>1, <4>2 DEF DeadlinesAreTold, deploymentStatusHandler, StatusCode
      <3>5. CASE Exists(c) /\ DeploymentStatus = "InProgress"
        BY <3>1, <3>5 DEF deploymentStatusHandler, StatusCode
      <3> QED BY <3>2, <3>3, <3>4, <3>5 DEF DeploymentStatus
    <2> QED BY <2>1, <2>2, OnlyPollsEndWaits
  <1>2. Spec => []DeadlinesAreTold
    <2>1. Init => DeadlinesAreTold
      BY InitTold
    <2>2. TypeOK /\ StatusIsTrue /\ DeadlinesAreTold /\ [Next]_vars => DeadlinesAreTold'
      BY StepTold
    <2> QED BY <2>1, <2>2, TypeCorrect, StatusCorrect, PTL DEF Spec
  <1> QED BY <1>1, <1>2, TypeCorrect, StatusCorrect, PTL DEF Spec, FailedWaitsHaveCauses
===============================================================================
