---------------------------- MODULE AppResources ----------------------------
(***************************************************************************)
(* The Kubernetes resources of one application: createOrUpdateK8sResources *)
(* and deleteK8sResouces run side by side against the API server.          *)
(*                                                                         *)
(* A handler walks a fixed list of resources.  For each it Gets the        *)
(* object, edits the copy and sends it back, or sends a Delete; the API    *)
(* server accepts an Update only with the version the copy was read at.    *)
(* Every call may fail before or after it took effect, and the process may *)
(* die between any two calls.  Meanwhile the horizontal pod autoscaler     *)
(* scales the Deployment, the garbage collector finishes foreground        *)
(* deletions, and other applications write the shared alerts ConfigMap,    *)
(* whose contents AlertRules models in full.                               *)
(*                                                                         *)
(* Of an object's content the model keeps which request wrote it last,     *)
(* the Deployment's replicas, and the teams under whose name this          *)
(* application has alert groups in the ConfigMap.                          *)
(***************************************************************************)
EXTENDS Naturals, Sequences, FiniteSets

CONSTANTS Deploys,      \* calls of the deploy handler for this application
          Deletes,      \* calls of the delete handler for it
          Manifests,    \* what a deploy may be asked for
          Teams,        \* the teams a manifest may name
          NoTeam,       \* the team of a manifest without one, and of a delete
          Earlier,      \* the author of what was there from the start
          MaxReplicas,  \* bound on what the autoscaler scales to
          MaxScalings,  \* bound on the number of scalings
          MaxForeign,   \* bound on writes of the ConfigMap by other applications
          MaxFaults     \* bound on API calls that fail

ASSUME BoundAssumption == /\ MaxReplicas \in Nat \ {0}
                          /\ MaxScalings \in Nat
                          /\ MaxForeign \in Nat
                          /\ MaxFaults \in Nat

\* The data of a manifest and its Fasit resources that the handlers act on:
\* whether there are a Redis, alerts, an ingress and secret values, and whether
\* createDeploymentDef succeeds (no duplicate variables, a usable Vault).
ASSUME ManifestAssumption ==
    Manifests \subseteq [team : Teams \cup {NoTeam}, redis : BOOLEAN, alerts : BOOLEAN,
                         ingress : BOOLEAN, secrets : BOOLEAN, builds : BOOLEAN]

Requests == Deploys \cup Deletes

\* Different actors have different names, in the histories too.
ASSUME RequestAssumption ==
    /\ Deploys \cap Deletes = {}
    /\ Earlier \notin Deploys
    /\ Requests \cap {"autoscaler", "collector", "foreign", "fault"} = {}

VARIABLES store,      \* the cluster's object of each kind
          manifest,   \* what each deploy was asked for
          pc,         \* where each handler is, or how it ended
          at,         \* its position in its list of resources
          seen,       \* its copy of the object it is about to write
          skipped,    \* Redis resources a delete reported as FAIL
          scalings, foreign, faults,   \* how often the environment acted
          disturbed   \* history: who else acted since each request began

environment == <<scalings, foreign, faults>>

vars == <<store, manifest, pc, at, seen, skipped, environment, disturbed>>

-------------------------------------------------------------------------------
\* Objects.

Kinds == {"serviceAccount", "roleBinding", "service", "redis", "redisService",
          "deployment", "secret", "autoscaler", "alerts", "ingress"}

\* dying: marked by a foreground deletion, there until its pods are gone.
\* version counts the writes to the name, also over deletions.
Objects == [exists : BOOLEAN, dying : BOOLEAN, version : Nat,
            author : Deploys \cup {Earlier}, replicas : 0 .. MaxReplicas,
            groups : SUBSET (Teams \cup {NoTeam})]

NoObject == [exists |-> FALSE, dying |-> FALSE, version |-> 0, author |-> Earlier,
             replicas |-> 0, groups |-> {}]

-------------------------------------------------------------------------------
\* The resources a handler goes through, in order.

When(condition, kinds) == IF condition THEN kinds ELSE <<>>

\* A plausible bug: the objects the pods run under are made last.
DeployListIdentityLast(m) ==
    <<"service">>
      \o When(m.redis, <<"redis", "redisService">>)
      \o <<"deployment", "secret", "autoscaler">>
      \o When(m.alerts, <<"alerts">>)
      \o When(m.ingress, <<"ingress">>)
      \o <<"serviceAccount", "roleBinding">>

DeployList(m) ==
    <<"serviceAccount", "roleBinding", "service">>
      \o When(m.redis, <<"redis", "redisService">>)
      \o <<"deployment", "secret", "autoscaler">>
      \o When(m.alerts, <<"alerts">>)
      \o When(m.ingress, <<"ingress">>)

\* A plausible bug: the Redis service is forgotten.
DeleteListNoRedisService ==
    <<"service", "deployment", "redis", "secret", "ingress", "autoscaler",
      "alerts", "serviceAccount">>

DeleteList == <<"service", "deployment", "redis", "redisService", "secret",
                "ingress", "autoscaler", "alerts", "serviceAccount">>

List(r) == IF r \in Deploys THEN DeployList(manifest[r]) ELSE DeleteList

Kind(r) == List(r)[at[r]]

\* A delete Gets only what it then deletes conditionally or edits; everything
\* else it deletes by name.
FirstPc(r, kind) == IF r \in Deploys \/ kind \in {"ingress", "autoscaler", "alerts"}
                      THEN "get" ELSE "write"

Goto(r, label) == pc' = [pc EXCEPT ![r] = label] /\ UNCHANGED at

\* A plausible bug: the end of the list is noticed one resource too late.
AdvancePastTheEnd(r) ==
    /\ at' = [at EXCEPT ![r] = @ + 1]
    /\ pc' = [pc EXCEPT ![r] = IF at[r] = Len(List(r)) THEN "ok"
                               ELSE FirstPc(r, List(r)[at[r] + 1])]

Advance(r) == IF at[r] = Len(List(r))
                THEN Goto(r, "ok")
                ELSE /\ at' = [at EXCEPT ![r] = @ + 1]
                     /\ pc' = [pc EXCEPT ![r] = FirstPc(r, List(r)[at[r] + 1])]

Running(r) == pc[r] \in {"get", "write"}

\* History: every request under way or ended has been disturbed by actor.
Disturb(actor) ==
    disturbed' = [r \in Requests |-> IF pc[r] = "idle" \/ r = actor
                                       THEN disturbed[r] ELSE disturbed[r] \cup {actor}]

\* History: a call of r failed, and others are disturbed if it took effect.
DisturbByFault(r, effective) ==
    disturbed' = [q \in Requests |->
                    IF q = r THEN disturbed[q] \cup {"fault"}
                    ELSE IF pc[q] # "idle" /\ effective THEN disturbed[q] \cup {r}
                    ELSE disturbed[q]]

Fault == /\ faults < MaxFaults
         /\ faults' = faults + 1
         /\ UNCHANGED <<scalings, foreign>>

-------------------------------------------------------------------------------
\* Initially the application is either not there or as an earlier deploy left
\* it.  The ConfigMap may be there because of other applications.

Fresh(configMapExists) ==
    [kind \in Kinds |-> IF kind = "alerts" /\ configMapExists
                          THEN [NoObject EXCEPT !.exists = TRUE, !.version = 1]
                          ELSE NoObject]

Present(m, kind) == \/ kind \in {"serviceAccount", "roleBinding", "service",
                                 "deployment", "autoscaler"}
                    \/ kind \in {"redis", "redisService"} /\ m.redis
                    \/ kind = "secret" /\ m.secrets
                    \/ kind = "alerts" /\ m.alerts
                    \/ kind = "ingress" /\ m.ingress

Deployed(m) ==
    [kind \in Kinds |->
       IF Present(m, kind)
         THEN [NoObject EXCEPT
                 !.exists = TRUE, !.version = 1,
                 !.replicas = IF kind = "deployment" THEN 1 ELSE 0,
                 !.groups = IF kind = "alerts" THEN {m.team} ELSE {}]
         ELSE NoObject]

Init == /\ store \in {Fresh(b) : b \in BOOLEAN}
                       \cup {Deployed(m) : m \in {n \in Manifests : n.builds}}
        /\ manifest \in [Deploys -> Manifests]
        /\ pc = [r \in Requests |-> "idle"]
        /\ at = [r \in Requests |-> 1]
        /\ seen = [r \in Requests |-> NoObject]
        /\ skipped = [r \in Requests |-> {}]
        /\ scalings = 0 /\ foreign = 0 /\ faults = 0
        /\ disturbed = [r \in Requests |-> {}]

Begin(r) == /\ pc[r] = "idle"
            /\ pc' = [pc EXCEPT ![r] = FirstPc(r, List(r)[1])]
            /\ UNCHANGED <<store, manifest, at, seen, skipped, environment, disturbed>>

-------------------------------------------------------------------------------
\* A deploy (createOrUpdateK8sResources).

Getting(d) == d \in Deploys /\ pc[d] = "get"

\* A plausible bug: what is there is left as it is.
LeftAloneIfThere(d) == store[Kind(d)].exists

\* CreateServiceAccountIfNotExist leaves an existing one as it is.
HasServiceAccount(d) == Kind(d) = "serviceAccount" /\ store["serviceAccount"].exists

\* A plausible bug: a secret that does not exist is not made.
NeedsNoNewSecret(d) == Kind(d) = "secret" /\ ~store["secret"].exists

\* A secret without values is not made, though an existing one is emptied.
NeedsNoSecret(d) == Kind(d) = "secret" /\ ~store["secret"].exists /\ ~manifest[d].secrets

LeftAlone(d) == HasServiceAccount(d) \/ NeedsNoSecret(d)

Unbuildable(d) == Kind(d) = "deployment" /\ ~manifest[d].builds

GetLeavesAlone(d) == /\ Getting(d)
                     /\ LeftAlone(d)
                     /\ Advance(d)
                     /\ UNCHANGED <<store, manifest, seen, skipped, environment, disturbed>>

GetToEdit(d) == /\ Getting(d)
                /\ ~LeftAlone(d)
                /\ ~Unbuildable(d)
                /\ seen' = [seen EXCEPT ![d] = store[Kind(d)]]
                /\ Goto(d, "write")
                /\ UNCHANGED <<store, manifest, skipped, environment, disturbed>>

BuildFails(d) == /\ Getting(d)
                 /\ Unbuildable(d)
                 /\ Goto(d, "failed")
                 /\ UNCHANGED <<store, manifest, seen, skipped, environment, disturbed>>

\* Any error of the first two Gets is taken for "there is none".
GetFails(d) == /\ Getting(d)
               /\ Fault
               /\ IF Kind(d) \in {"serviceAccount", "roleBinding"}
                    THEN /\ seen' = [seen EXCEPT ![d] = NoObject]
                         /\ Goto(d, "write")
                    ELSE /\ Goto(d, "failed")
                         /\ UNCHANGED seen
               /\ DisturbByFault(d, FALSE)
               /\ UNCHANGED <<store, manifest, skipped>>

\* A plausible bug: objects are sent without the resourceVersion they were
\* read with.
AcceptsAnyVersion(d) == seen[d].exists = store[Kind(d)].exists

\* A plausible bug: the existing object is not looked for.
AcceptsOnlyNew(d) == ~store[Kind(d)].exists

\* A Create needs a free name.  An Update needs the version that was read; the
\* role binding is sent without one, which updates whatever is there.
Accepts(d) ==
    LET now == store[Kind(d)]
    IN  IF seen[d].exists
          THEN now.exists /\ (Kind(d) = "roleBinding" \/ now.version = seen[d].version)
          ELSE ~now.exists

\* An existing Deployment keeps the replicas of the copy; they default to 1.
EditedReplicas(d) == IF Kind(d) # "deployment" THEN 0
                     ELSE IF seen[d].exists THEN seen[d].replicas ELSE 1

EditedGroups(d) == IF Kind(d) = "alerts" THEN seen[d].groups \cup {manifest[d].team} ELSE {}

\* The object a deploy sends, as it is stored: all else in it is the deploy's own.
Edited(d) ==
    [exists |-> TRUE,
     dying |-> store[Kind(d)].exists /\ store[Kind(d)].dying,
     version |-> store[Kind(d)].version + 1,
     author |-> d,
     replicas |-> EditedReplicas(d),
     groups |-> EditedGroups(d)]

Writing(d) == d \in Deploys /\ pc[d] = "write"

Write(d) == /\ Writing(d)
            /\ Accepts(d)
            /\ store' = [store EXCEPT ![Kind(d)] = Edited(d)]
            /\ Advance(d)
            /\ seen' = [seen EXCEPT ![d] = NoObject]
            /\ Disturb(d)
            /\ UNCHANGED <<manifest, skipped, environment>>

\* Conflict, AlreadyExists or NotFound: the deploy gives up where it is.
WriteRejected(d) == /\ Writing(d)
                    /\ ~Accepts(d)
                    /\ Goto(d, "failed")
                    /\ UNCHANGED <<store, manifest, seen, skipped, environment, disturbed>>

\* The call fails before it reached the store, or its answer got lost.
WriteFails(d) == /\ Writing(d)
                 /\ Fault
                 /\ \/ UNCHANGED store /\ DisturbByFault(d, FALSE)
                    \/ /\ Accepts(d)
                       /\ store' = [store EXCEPT ![Kind(d)] = Edited(d)]
                       /\ DisturbByFault(d, TRUE)
                 /\ Goto(d, "failed")
                 /\ UNCHANGED <<manifest, seen, skipped>>

-------------------------------------------------------------------------------
\* A delete (deleteK8sResouces).

GetToDelete(d) == /\ d \in Deletes /\ pc[d] = "get"
                  /\ store[Kind(d)].exists
                  /\ seen' = [seen EXCEPT ![d] = store[Kind(d)]]
                  /\ Goto(d, "write")
                  /\ UNCHANGED <<store, manifest, skipped, environment, disturbed>>

\* No ingress or autoscaler is fine.  Without a ConfigMap the handler reads the
\* Data of a nil pointer.
GetNothingToDelete(d) == /\ d \in Deletes /\ pc[d] = "get"
                         /\ ~store[Kind(d)].exists
                         /\ IF Kind(d) = "alerts" THEN Goto(d, "panicked") ELSE Advance(d)
                         /\ UNCHANGED <<store, manifest, seen, skipped, environment, disturbed>>

\* A plausible bug: deployments are not deleted, only what belongs to them.
DeletedButDeployments(kind) ==
    IF kind \in {"deployment", "redis"} THEN store[kind]
    ELSE [store[kind] EXCEPT !.exists = FALSE, !.version = @ + 1, !.groups = {}]

\* The object after a Delete call.  Deployments are deleted in the foreground.
Deleted(kind) ==
    LET now == store[kind]
    IN  IF ~now.exists \/ now.dying THEN now
        ELSE IF kind \in {"deployment", "redis"}
          THEN [now EXCEPT !.dying = TRUE, !.version = @ + 1]
          ELSE [now EXCEPT !.exists = FALSE, !.version = @ + 1, !.groups = {}]

DeleteByName(d) == /\ d \in Deletes /\ pc[d] = "write"
                   /\ Kind(d) # "alerts"
                   /\ store' = [store EXCEPT ![Kind(d)] = Deleted(Kind(d))]
                   /\ Disturb(d)
                   /\ Advance(d)
                   /\ UNCHANGED <<manifest, seen, skipped, environment>>

\* The delete takes out the group filed without a team.
WithoutGroup(d) == [store["alerts"] EXCEPT !.version = @ + 1,
                                           !.groups = seen[d].groups \ {NoTeam}]

RemoveAlerts(d) == /\ d \in Deletes /\ pc[d] = "write"
                   /\ Kind(d) = "alerts"
                   /\ Accepts(d)
                   /\ store' = [store EXCEPT !["alerts"] = WithoutGroup(d)]
                   /\ Disturb(d)
                   /\ Advance(d)
                   /\ UNCHANGED <<manifest, seen, skipped, environment>>

RemoveAlertsRejected(d) == /\ d \in Deletes /\ pc[d] = "write"
                           /\ Kind(d) = "alerts"
                           /\ ~Accepts(d)
                           /\ Goto(d, "failed")
                           /\ UNCHANGED <<store, manifest, seen, skipped, environment,
                                          disturbed>>

\* A call of a delete fails, before or after its effect.  Only for the Redis
\* resources is the error put in the results and passed over.
DeleteFails(d) == /\ d \in Deletes /\ Running(d)
                  /\ Fault
                  /\ \/ UNCHANGED store
                     \/ /\ pc[d] = "write"
                        /\ IF Kind(d) = "alerts"
                             THEN Accepts(d) /\ store' = [store EXCEPT !["alerts"] = WithoutGroup(d)]
                             ELSE store' = [store EXCEPT ![Kind(d)] = Deleted(Kind(d))]
                  /\ IF Kind(d) \in {"redis", "redisService"}
                       THEN skipped' = [skipped EXCEPT ![d] = @ \cup {Kind(d)}] /\ Advance(d)
                       ELSE Goto(d, "failed") /\ UNCHANGED skipped
                  /\ DisturbByFault(d, store' # store)
                  /\ UNCHANGED <<manifest, seen>>

-------------------------------------------------------------------------------
\* The environment.

\* The naisd pod dies, or building an object panics: the request is never
\* answered and what it did stays done.
Crash(r) == /\ Running(r)
            /\ Goto(r, "crashed")
            /\ UNCHANGED <<store, manifest, seen, skipped, environment, disturbed>>

\* The horizontal pod autoscaler sets the Deployment's replicas.
Scale(n) == /\ scalings < MaxScalings
            /\ store["autoscaler"].exists /\ store["deployment"].exists
            /\ n # store["deployment"].replicas
            /\ store' = [store EXCEPT !["deployment"].replicas = n,
                                      !["deployment"].version = @ + 1]
            /\ scalings' = scalings + 1
            /\ Disturb("autoscaler")
            /\ UNCHANGED <<manifest, pc, at, seen, skipped, foreign, faults>>

\* The garbage collector removes a Deployment whose pods are gone.
Collect(kind) == /\ store[kind].exists /\ store[kind].dying
                 /\ store' = [store EXCEPT ![kind].exists = FALSE,
                                           ![kind].version = @ + 1]
                 /\ Disturb("collector")
                 /\ UNCHANGED <<manifest, pc, at, seen, skipped, environment>>

\* Another application's deploy or delete writes the ConfigMap.
WriteForeignAlerts == /\ foreign < MaxForeign
                      /\ store' = [store EXCEPT !["alerts"].exists = TRUE,
                                                !["alerts"].version = @ + 1]
                      /\ foreign' = foreign + 1
                      /\ Disturb("foreign")
                      /\ UNCHANGED <<manifest, pc, at, seen, skipped, scalings, faults>>

DeployStep(d) == \/ GetLeavesAlone(d)
                 \/ GetToEdit(d)
                 \/ BuildFails(d)
                 \/ GetFails(d)
                 \/ Write(d)
                 \/ WriteRejected(d)
                 \/ WriteFails(d)

DeleteStep(d) == \/ GetToDelete(d)
                 \/ GetNothingToDelete(d)
                 \/ DeleteByName(d)
                 \/ RemoveAlerts(d)
                 \/ RemoveAlertsRejected(d)
                 \/ DeleteFails(d)

Next == \/ \E r \in Requests : Begin(r) \/ Crash(r)
        \/ \E d \in Deploys : DeployStep(d)
        \/ \E d \in Deletes : DeleteStep(d)
        \/ \E n \in 1 .. MaxReplicas : Scale(n)
        \/ \E kind \in {"deployment", "redis"} : Collect(kind)
        \/ WriteForeignAlerts

Spec == Init /\ [][Next]_vars

\* A handler whose next step is enabled takes it: its goroutine runs until it
\* returns.  The garbage collector gets to every marked object.
FairSpec == /\ Spec
            /\ \A d \in Deploys : WF_vars(DeployStep(d))
            /\ \A d \in Deletes : WF_vars(DeleteStep(d))
            /\ \A kind \in {"deployment", "redis"} : WF_vars(Collect(kind))

-------------------------------------------------------------------------------
\* Properties.

\* Every variable stays in its range; a handler under way is at a resource of
\* its list.
TypeOK == /\ store \in [Kinds -> Objects]
          /\ manifest \in [Deploys -> Manifests]
          /\ pc \in [Requests -> {"idle", "get", "write", "ok", "failed", "panicked", "crashed"}]
          /\ at \in [Requests -> Nat \ {0}]
          /\ \A r \in Requests : at[r] <= Len(List(r))
          /\ seen \in [Requests -> Objects]
          /\ skipped \in [Requests -> SUBSET {"redis", "redisService"}]
          /\ scalings \in 0 .. MaxScalings
          /\ foreign \in 0 .. MaxForeign
          /\ faults \in 0 .. MaxFaults
          /\ disturbed \in [Requests -> SUBSET (Requests \cup {"autoscaler", "collector",
                                                             "foreign", "fault"})]

\* No deploy undoes a scaling: whatever was read before the autoscaler acted,
\* the replicas of a Deployment that stays in place change only by scaling
\* (createDeploymentDef, createOrUpdateDeploymentResource).
ReplicasChangeOnlyByScaling ==
    [][(store["deployment"].exists /\ store'["deployment"].exists /\ scalings' = scalings)
         => store'["deployment"].replicas = store["deployment"].replicas]_vars

\* A request nobody of the same application interferes with.
Alone(r) == disturbed[r] \cap Requests = {}

\* What is there once d has ended was written by d, or by a deploy that wrote something
\* after d began.
Writers(d) == {d} \cup (disturbed[d] \cap Deploys)

\* A deploy that answered 200 while the application was not being deleted has left
\* nothing older than itself: everything its manifest asks for is its own version or,
\* of some objects, that of a deploy that overlapped it.  Only a Deployment that was
\* still being deleted may be gone again, and its alerts stay whoever else writes
\* theirs (createOrUpdateK8sResources).
DeployedAppIsItsManifest ==
    \A d \in Deploys : pc[d] = "ok" /\ disturbed[d] \cap Deletes = {} =>
      /\ \A kind \in Kinds : Present(manifest[d], kind) =>
           \/ store[kind].exists /\ store[kind].author \in Writers(d)
           \/ store[kind].exists /\ kind = "serviceAccount"
           \/ store[kind].dying /\ store[kind].author \in Writers(d)
      /\ store["secret"].exists => store["secret"].author \in Writers(d)
      /\ manifest[d].alerts => manifest[d].team \in store["alerts"].groups

\* A deploy fails, and a delete fails, only for a reason: the manifest cannot be
\* built, or an API call failed, or somebody else changed something meanwhile
\* (every createOrUpdate*Resource and every delete* of a found object).
FailuresHaveCauses ==
    \A r \in Requests : pc[r] = "failed" =>
      disturbed[r] # {} \/ (r \in Deploys /\ ~manifest[r].builds)

\* The Deployment of a deploy whose application is not being deleted at the same
\* time never stands without the service account its pods run as, the role
\* binding, the service and, if it asks for one, the Redis and its service: of
\* these only a Redis that a delete had marked before the deploy found it can be
\* gone, once the garbage collector has taken it
\* (order of createOrUpdateK8sResources, deleteDeployment).
PodsHaveWhatTheyNeed ==
    \A d \in Deploys :
      (/\ store["deployment"].exists /\ store["deployment"].author = d
       /\ disturbed[d] \cap Deletes = {})
        => /\ \A kind \in {"serviceAccount", "roleBinding", "service"} : store[kind].exists
           /\ manifest[d].redis => /\ store["redisService"].exists
                                   /\ store["redis"].exists \/ store["redis"].dying

\* Pods of a new Deployment refer to a Secret that is written after it.  It follows,
\* unless the deploy ends by a failure or a crash, or the application is written by
\* another request (order of createOrUpdateK8sResources, createOrUpdateSecret).
SecretFollowsDeployment ==
    \A d \in Deploys :
      (/\ store["deployment"].exists /\ store["deployment"].author = d
       /\ manifest[d].secrets)
        ~> \/ store["secret"].exists /\ store["secret"].author = d
           \/ pc[d] \in {"failed", "crashed"}
           \/ ~Alone(d)

\* What a delete that answered 200 while no other request ran has left of the
\* application: its role binding, its alert groups, Deployments whose pods are
\* still stopping, and Redis resources it reported as FAIL (deleteK8sResouces).
DeletedAppIsGone ==
    \A d \in Deletes : pc[d] = "ok" /\ Alone(d) =>
      \A kind \in Kinds \ ({"roleBinding", "alerts"} \cup skipped[d]) :
        store[kind].exists => store[kind].dying

\* After a delete answered 200 the Deployment goes away for good, unless a deploy
\* came in between or later.
DeletedDeploymentGoes ==
    \A d \in Deletes : pc[d] = "ok" ~> \/ ~store["deployment"].exists
                                       \/ disturbed[d] \cap Deploys # {}

-------------------------------------------------------------------------------
\* What tests and comments of the repository say, and the code does not do.

\* resourcedeleter_test.go: "Deleting existing app should delete all created
\* resources".  The role binding is created, and never deleted.
DeleteRemovesAllCreated ==
    \A d \in Deletes : pc[d] = "ok" /\ Alone(d) /\ skipped[d] = {} =>
      \A kind \in Kinds \ {"alerts"} : store[kind].exists => store[kind].dying

\* resourcedeleter_test.go: "No alert for appName existant after deletion".  The
\* delete handler does not know the team the group is filed under.
DeleteRemovesAlerts ==
    \A d \in Deletes : pc[d] = "ok" /\ Alone(d) => store["alerts"].groups = {}

\* resourcedeleter_test.go: "Deleting non-existing app should return no error".
\* Without a ConfigMap of alerts the handler panics.
DeleteOfNothingSucceeds ==
    \A d \in Deletes : disturbed[d] = {} => pc[d] \notin {"failed", "panicked"}
===============================================================================
