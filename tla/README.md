# naisd in TLA+

naisd deploys applications to a Kubernetes cluster. A client posts a deploy
request; naisd fetches the application's manifest, looks up its resources in
Fasit (a registry of environments and resources), creates or updates the
Kubernetes objects, registers the application in Fasit, tells Sensu, and
publishes an event on Kafka. It also deletes applications and reports how a
rollout is going. It keeps nothing itself: all state is in Kubernetes, Fasit
and Kafka, several pods of naisd serve requests at once
(`helm/naisd/values.yaml`), and nothing serialises the requests for one
application, or any request with the other writers of the same objects.

What makes the program hard to test is therefore not what any of its functions
computes, but that every request is a sequence of calls to other systems, each
of which may fail or be interleaved with anybody else's.

## Inventory

| Part | State | Operations | Hard about it | Correct means |
|---|---|---|---|---|
| Kubernetes resources of an application (`api/resourcecreator.go`, `resourcedeleter.go`, `redis.go`, `rolebinding.go`, `serviceaccount.go`) | up to ten objects per application | create or update them in order; delete them in another order | Get and write are two calls; the autoscaler writes the same Deployment; calls fail half-way, answers get lost, pods die; Deployments are deleted in the foreground | no lost update; a lone 200 means the manifest is in place, or the application gone; failures have causes |
| Alert rules (`api/prometheus.go` and callers) | one ConfigMap `app-rules` for all applications | add, replace or remove one group | read-modify-write of a shared object | nobody touches another's group; each answer is true |
| Deploy request (`api/api.go`) | position in the sequence of systems | one step per call | later steps fail after earlier ones took effect | a rejection has changed nothing; each system follows the one before |
| Fasit client (`api/fasit.go`) | resources and application instances in Fasit | look up, create, update, register | lookups race with creates; errors overwritten or swallowed | instances name the right resources; scopes keep their class |
| Deployment events (`pkg/kafka`, `api/deploymentevent.go`) | bounded channel per pod, topic | send, produce | full channel, failing and repeated sends, lost with the pod | in order per pod; reaches the topic or is known to be dropped |
| Sensu notification (`api/sensuclient.go`) | none | send | no deadline; malformed answer panics | never fails a deploy |
| Rollout status (`api/deploymentstatus.go`) and the waiting clients (`cli/cmd/deploy.go`, `wait.go`) | none / what the client polls for | judge one read of the Deployment; poll every second | the status lags behind the specification; other deploys and scalings come while a client waits; the client has no time-out | success only if the new version was up; failure only with a cause; every wait ends |
| Manifest (`api/manifest.go`, `defaults.go`) | files in three places of Nexus | download from the first that has one, default, validate | which of sixteen checks looks at what, and when, against what is built later | the uploaded manifest is the one used; what is accepted can be built |
| Variables, pods, secrets, ingress (`api/resourcecreator.go`, `internal/vault`, `proxyopts`) | none | merge variables, look for duplicates, name keys and files | four functions name the same values, each for itself | every variable means one thing; the Secret holds what the pods refer to |
| Event contents (`api/deploymentevent.go`, `pkg/event`) | none | convert | an integer narrower than what is put in | the event tells what runs, and when |
| Command line (`cli/`): `upload`, `env`, `validate`, `version` | none | one call each | `env` goes through the naming of values a second time | shows what the pods see |
| Start-up, chart | none | - | - | - |

`PROJECT.json` lists every part with what is modelled of it, and every hazard
with the line where it bites.

## Modules

```
RuleBook            what is promised about alert rules: one-step changes of a book
  ^ implemented by
AlertRules          both handlers of app-rules, several applications
  ^                   AlertRulesProofs     six theorems
MCAlertRules

AppResources        one application's ten objects: deploys, deletes, environment
  ^                   AppResourcesProofs   two theorems
  ^                   AppOutcomesProofs    four more, on how requests end
MCAppResources

EventQueue          the Kafka producer of each pod
  ^ extended by
DeployRequests      POST /deploy from request to answer, Fasit, cluster, events
  ^                   DeployRequestsProofs seven theorems
MCDeployRequests

Rollouts            GET /deploystatus, the clients that wait, controller and pods
  ^                   RolloutsProofs       four theorems
MCRollouts

FasitResources      names and values of Fasit resources
Manifests           defaults, validations, quantities
  ^ both extended by
PodSpecs            pod, Secret and ingress built from the two
DeploymentEvents    what an event says
  ^ both extended by
PodBuilding         one deploy from manifest to event, `nais upload`, `nais env`
  ^                   PodBuildingProofs    two theorems
  ^                   PodOutcomesProofs    six more, on what is built
MCPodBuilding         ten families of situations
```

**AlertRules.** A request (`deploy` with a manifest's team and alerts, or
`delete`, which knows no team) Gets `app-rules`, changes its copy, and writes
the whole object back. `seen[r]` is the copy, `pc[r]` the place in the handler,
`configMap` the object with its `resourceVersion`. `Accepts` is the API server's
test of the version, chosen by `createOrUpdateConfigMapResource` as in the code.
A write may also fail before or after its effect. Names are sequences of parts,
because the key joins them with dashes that they may contain themselves: application
`b-c` of team `a` and `c` of team `a-b` have one key. TLC's instance has names that
do not collide. That the two handlers amount to one
atomic change is stated by `RuleBook` and checked as `ImplementsRuleBook`: the
book is `configMap.data`, the order is computed from the job, the answer from
`pc`. What a client may rely on is `AlertsStayAsDeployed`: alerts answered with success
stay until a request for the very same team, application and namespace.

**AppResources.** `DeployList` and `DeleteList` are the orders of
`createOrUpdateK8sResources` and `deleteK8sResouces`; a handler is at position
`at[r]` and either about to Get or about to write. An object is whether it
exists, whether it is marked for foreground deletion, its version, its author,
and what the properties tell apart of its content: replicas of a Deployment, the
teams under which this application has groups in the ConfigMap. The model keeps
the code's exceptions: an existing service account is left alone; any error of
its Get, or of the role binding's, means "there is none"; the role binding is
sent without a version; a secret without values is not created; the errors of
deleting Redis are passed over; a missing ConfigMap makes a delete panic.
`Scale`, `Collect` and `WriteForeignAlerts` are the environment. `disturbed`
is a history of who else acted since a request began; the properties of a
request that ran alone are stated with it. Status updates of the controllers,
which only cause more conflicts, are left out.

**EventQueue and DeployRequests.** `SendQueue`, the event `ProducerLoop` is
sending, the topic, and what was dropped; `DeployRequests` extends it with the
handlers. Its actions are the calls of `Api.deploy` in order, with an action
or disjunct for each early return. The cluster is two writes here (workload
first, ingress last), each an abstraction of the steps of AppResources. Fasit
is a sequence of resources (the index is the id) and one of application
instances. That the hostname of an ingress is empty cannot happen in the daemon
(`createIngressHostname` always has a dot), so that return is left out.
Authentication, an unreadable body and a bad manifest are one action with the
statuses they lead to. The lookups of the resources a manifest uses, one call each in the
code, are one step (`Fetch`): they only read, Fasit's resources never disappear or change
their alias, and a failure of any of them ends the deploy in the same way, so what comes of
them does not depend on what happens in between. When Kafka is disabled the handler's
last call does nothing; the model has it enabled.

**Rollouts.** naisd writes a Deployment and answers; the rollout is the
business of the cluster. `deployment` is the specification with its generation,
`status` what the controller has written about it so far: the generation it has
seen, the counters, and the reason of the Progressing condition.
`DeploymentStatus` is `deploymentStatusAndView`, in its order of cases;
`deploymentStatusHandler` turns it into a status code; `Poll` is one turn of the
loop in `waitForDeploy`. `nais deploy --wait` asks for
`/deploystatus/application/namespace` where the route has the namespace first,
so its `place` is the swapped pair and it gets a 404, unless the two are called
the same. In TLC's instance they differ, so successes are those of `nais wait`;
the proofs hold of names that are equal too. The
controller, the autoscaler and the pods are the environment, modelled from what
the code's specification asks of them: `maxUnavailable` 0, `maxSurge` 1 or
Recreate, `progressDeadlineSeconds`. `broken` versions never get ready.
History variables remember the last generation that was entirely up
(`rolledOut`), that ran out of time (`expired`), how many pods rolling deploys
still have to leave ready (`promised`), and for each wait the generation it is
for (`since`) and whether all versions since were new to the cluster (`fresh`).

**FasitResources, Manifests, PodSpecs, DeploymentEvents.** Pure functions, under
the names they have in the code. A name is a sequence of words and separators
and case is a function on words, so that names that differ only in case or
separator meet exactly where `ToResourceVariable` makes them meet. A quantity is
text: unset, nonsense, or an amount. Defaults replace only what is unset, so that a
written "0" stays, where they replace every number that is 0; an amount may be negative,
which passes the validations and is refused by the API server. A value has, beside what
it says, the signs in it that a format string or quotes do not stand (`%`, `'`). An
image is a registry, perhaps none, and a path; `Repository` completes it the way the
event's parser does: `nginx` is `docker.io/library/nginx`. The variables of a container are a set of records
with the stage at which each was added, because of two with one name the
container sees the later. Where Go iterates over a map the operator has a set of
outcomes (`resolveSecrets`).

**PodBuilding.** These functions in the order of a deploy: the places where a
manifest may be, one after the other, with files that are no manifest; defaults and validations; Fasit's
resources, one request at a time; the objects, one at a time, each of which may
not be built, panic, or be refused by the API server; the event. Beside it runs
`nais upload`, which puts any file there, or on the server `NEXUS_URL` names, and
afterwards `nais env` fetches everything again and prints it. It passes what it prints to
`fmt.Printf` as the format (`Printf`), between quotes it does not escape.
Where AppResources knows of a manifest only whether it builds, this module says
which do; in return nobody else writes the objects here.

## Runs

| Run | Question | Bounds | Result |
|---|---|---|---|
| `alert_rules` | can handlers of several applications damage the shared ConfigMap? | 3 requests, 2 applications, with and without team, 1 failing call | passes, 136 thousand states |
| `app_deploys` | what do two deploys, the autoscaler and a foreign writer do to each other? | 2 deploys of 2 manifests, 1 scaling, 1 foreign write | passes, 1.2 million states |
| `app_lifecycle` | what does a deploy and a delete leave behind, and does the Secret follow the Deployment? | 1 deploy, 1 delete, 1 failing call, crashes, foreground deletion | passes, 0.5 million states |
| `deploy_requests` | what do a rejection, a 200, an instance and an event vouch for? | 2 requests of 6 kinds, 4 catalogues, channel of 2, 1 failing call, 1 crash | passes, 1.4 million states |
| `deploy_reports` | do events get out of a full channel? | 2 requests, channel of 1, 1 failing call, 1 crash | passes, 0.36 million states |
| `rollouts` | what does a waiting client learn about a rollout? | 1 client, 2 versions, 3 pods, 2 replicas, 2 deploys, 1 scaling, failing pod or failing call | passes, 0.59 million states |
| `pod_building` | which manifests build, and do pods, Secret, `nais env` and event agree? | 10 families, 1 failing fetch or error page, times around every wrap of the second part | passes, 0.15 million states |
| `delete_removes_all_created` | "should delete all created resources" | as `app_lifecycle`, no failures | violated: the role binding stays |
| `delete_removes_alerts` | "No alert for appName existant after deletion" | same | violated: the delete looks under a name without the team |
| `delete_of_nothing_succeeds` | "Deleting non-existing app should return no error" | same | violated: no ConfigMap, a nil is dereferenced |
| `deploy_waits_until_settled` | `--wait`: "whether to wait until the deploy has succeeded (or failed)" | as `rollouts` | violated: it polls the wrong place and fails at once |
| `missed_balancers` | is a failing lookup warned about? | 1 request that asks for an ingress, 1 failing call | violated: the wrong error variable is returned, and the ingress is written without the hosts |

Two requests are enough for every hazard listed but those of the shared
ConfigMap, where three let one handler be overtaken by two others; races here
are between one Get and one write, and no property relates more than two
requests. One failing call may strike any call of any request, before or after
its effect. Versions need no bound of their own: each request writes an object
at most once. Deadlock is not checked, because all of these systems stop when
every request has ended; what must not be stuck is stated as liveness.

The situations of `pod_building` vary one part of an ordinary deploy at a time
and go through all combinations of that part: places of manifests and uploads, readable or
not; quantities of Redis (nonsense, nothing, too little, zero or negative, for each of
four); limits and requests; numbers of pods; spellings of images; manifests wrong in some
other way; container and volume names; pairs of resources whose names meet
in some way; values with special signs; the request and the proxy. Parts of different families do not meet
in the code before `createPodSpec`, and what meets there (variables, leader
election, proxy, Redis) is one family. A second has 2 ticks and the second part
of a timestamp 9, so that sums go over either end of its range.

`app_lifecycle` assumes weak fairness of each handler's next step (it is a
goroutine that runs until it returns; a crash ends it) and of the garbage
collector. `deploy_reports` assumes it of `ProducerLoop`, whose `SendMessage` gives
up after bounded retries, and of a handler's send into a channel with room. It
assumes nothing of Fasit and Sensu, whose calls have no deadline: no property
says that a deploy is answered. `rollouts` assumes it of each thing the
controller does, of pods of versions that are not broken getting ready, and of the
clients' polls, which a loop with a sleep of one second repeats for ever. Pods
that never settle would keep a wait going for ever; that they settle is an
assumption about the cluster (failures are bounded), the deadline for those that
do not get ready is not: with it left out `WaitsEnd` fails.

What a property allows is part of what it says. `AlertsStayAsDeployed`
is about names whose keys differ, in `alert_rules` by their choice and in the proof by
assumption. `DeployedAppIsItsManifest`
allows a successful deploy to lose a Deployment that an earlier delete had
already marked, and the objects of deploys that overlap to be some of one, some of
the other; it leaves out deploys met by a delete. `PodsHaveWhatTheyNeed` allows the same
loss of a marked Redis, and nothing else to be missing. `FailuresHaveCauses` takes a failed
call, and a change by anybody else, for a cause of whatever follows, and
`SecretFollowsDeployment` lets a deploy fail or crash before it writes the Secret.
`DeletedAppIsGone` leaves out deletes met by another request, the role binding and the alerts,
the subject of two violated runs, and Redis objects whose deletion was skipped.
`LoneDeployIsCurrent` leaves out deploys that overlap, and allows hosts to be missing after a lookup that failed unnoticed, and
`ClassesAreLostOnlyToMissedLookups` a class to be lost after one.
`FailedWaitsHaveCauses` allows a deadline that an earlier rollout missed to fail a
wait for a version the cluster already knew: rolling back what is stuck is reported as
failed. `EndsHaveCauses` names the manifests that pass all validations and still
panic or are refused, `VariablesMeanOneThing` the variables that are
added without the check for duplicates, `EventTimeIsClose` how far a timestamp is
off, and `EventTellsWhatRuns` that a load balancer of Fasit may have the public host of
production in any environment. `UploadedManifestIsUsed` is about readable manifests while no
fetch fails: what cannot be read or fetched is passed over for an older one, as the code does.
`SecretHoldsWhatPodsRead` says that the pods get what was fetched, not that it was the right
answer. `DeveloperSeesWhatPodsSee` asks for the same names always, and for the same value
unless it has a percent sign or a quote: one with a percent sign is printed otherwise, and one
with a quote ends its quotes.

## Divergences that are no findings

Some of what the code does is surprising, but nothing says otherwise, or only wording that
no run quotes; it is in the models and in what the properties allow:

- `createOrUpdateIngress` updates an existing ingress, although its comment has "No
  reason to do update, as nothing can change" (`api/resourcecreator.go:791`).
- A rollback, or a scaling, of a rollout that is stuck is at once reported as failed.
- `nais env` prints values with a percent sign as format strings and does not escape quotes
  (`cli/cmd/environment.go:157`), although its help offers them to `eval`.
- Two applications whose team and name join alike share an alert group
  (`api/prometheus.go:64`), and each deploy replaces the other's.
- A wait has no time-out and leaves the bodies of its answers open (`cli/cmd/wait.go:13`).
- `REDIS_HOST` is `rfs-<app>`, the service that is created is `<app>-redis`.
- A path that begins with two slashes keeps them, although the comment at
  `api/resourcecreator.go:641` wants exactly one: the slash put before makes three, and one
  is taken away.
- An event's version is empty if a deploy names a digest (`api/deploymentevent.go:57`).
- A quantity may be negative in a manifest that passes all validations.
- Every deploy without Fasit is reported as "development" (`api/deploymentevent.go:50`).
- The error page of a failed certificate download is stored as the certificate.
- Host names join application and namespace with a dash, as alert keys do: `a-b` in
  `default` and `a` in `b` share one.

## Proofs

`AlertRulesProofs` proves, for any sets of requests, teams, applications,
namespaces and alerts and any bound on failures:

- `TypeCorrect`: `TypeOK` is inductive.
- `FreshCopies`: `CopiesAreFresh`, from `TypeOK`. It is the heart of the others:
  a copy that the API server would accept has the data that are there now. It
  is inductive because every accepted write raises the version above that of
  every copy.
- `AlertsStay`: if no two specs share a key (`KeysAreDistinct`), alerts stay as deployed until
  a request for the same spec has answered. What is inductive without that assumption is the
  same statement about keys (`AlertsStayUnderTheirKey`), by freshness.
- `DashlessNamesHaveKeys`: names without a dash are enough for that assumption, since the last
  dash of a key can be read back, and then the one before it.
- `OwnEntriesOnly`: an accepted write differs from what is there only at the
  writer's own key, by freshness.
- `RuleBookImplemented`: initial states map to initial states of `RuleBook`, each
  step to one of its steps or to a stutter; the write maps to `Apply`, again by
  freshness.

`AppResourcesProofs` proves `TypeCorrect` (a handler never runs past its list, for any
manifests) and `ScalingsSurvive`: however many deploys and deletes interleave,
replicas change only by scaling. `ReplicasChangeOnlyByScaling` is not about
states, so the invariant behind it is `FreshReplicas`: a copy of the Deployment at
the current version has the current replicas, and no copy is ahead.

`AppOutcomesProofs` goes on from there, for any deploys, deletes, manifests, scalings and
failed calls. Every step is one handler's or the environment's; two lemmas say that it leaves
the other handlers where they are (`Moves`) and that all under way notice what it does to the
cluster (`WhatHappens`). The invariants are about the resources a handler has behind it:

- `FailuresExplained`, that failures have causes: the copy of a request nobody disturbed is
  the object as it is (`Untouched`), so only a fault can have failed it.
- `DeletesComplete`: what a lone delete has behind it is gone or going (`Removed`). It has to
  allow going, because of foreground deletion, and to leave out what the delete skipped.
- `DeploysComplete`: what a deploy has behind it is there and written by the deploy or one it
  overlapped, while nobody deletes (`Settled`). It needs that a copy with the version of the
  object is the object (`FreshCopies`), and what the two lists of resources begin with.
- `PodsProvided`: the deploy whose Deployment is there has come to it in its list (`Reached`),
  what pods need comes earlier in the list, Redis and its service included, and is settled
  (`Settled`): there, or a Deployment that had been marked.

`DeployRequestsProofs` proves all that `deploy_requests` checks, for any requests, jobs,
catalogues, pods, failures and crashes:

- `TypeCorrect` is not inductive alone: that an id is one of Fasit's resources rests on where
  the handler is. `Course` tells that from what the request has done itself.
- `ClassesCorrect`: a request that is to write knows its class, or missed it (`Informed`).
- `RejectionsCorrect` and `FollowingCorrect`: `Heard` tells which systems know of a request,
  from where it is. No event appears or gets lost but by the step that sends it
  (`EventsAreKept`).
- `InstancesCorrect`: ids keep their alias, since Fasit's resources only grow and change in
  place (`Named`).
- `LoneDeploysCorrect`: the last writer of each system is the one request under way
  (`Current`); those before it have ended and write no more (`EarlierEnded`).
- `OrderCorrect`: of two events of one pod the earlier is never behind: it is ahead in the
  channel, being sent, or through with its deliveries (`NotBehind`), which is inductive because
  a handler puts its event into the channel before it answers.

`RolloutsProofs` proves, for any number of clients, versions, pods, deploys and
disturbances:

- `TypeCorrect`, which needs that sets of pods are finite.
- `SuccessCorrect`: neither the status seen nor the generation a client waits for is ahead
  of the specification, and if the status is as new and its counters say so, the
  newest generation has been up (`StatusIsTrue`). The last part is why the
  generation has to be looked at: it holds only of a status that is as new.
- `ServingCorrect`: the promise is at most the replicas asked for, and nothing
  once a deploy recreates (`PromiseIsKept`). With it every step that takes a
  pod away leaves as many ready; lemmas on sizes of sets of pods do the counting.
- `FailureCorrect`: a missed deadline in a status that is as new as a wait for
  versions that were new to the cluster was missed since that wait began
  (`DeadlinesAreTold`). It is inductive because the first report of a new version
  restarts the clock, and no earlier report is as new as the wait.

`PodBuildingProofs` proves, for any situations, words, resources and times:

- `UploadCorrect`: `UploadedManifestIsUsed`, from an invariant that follows an
  uploaded manifest from its place to `raw` while no fetch has failed.
- `TimeCorrect`: `EventTimeIsClose`, for any length of a second and any width, from
  arithmetic on division and remainder, stated as lemmas.

`PodOutcomesProofs` proves the other six invariants of `pod_building`. One inductive invariant
follows a deploy (`DeployIsMade`): its manifest is one the situation has and is valid if the
deploy goes on (`ManifestIsKept`); each of its resources is an outcome of the request at its
position, or the load balancers after the last (`ResourcesAreWanted`); each object is made of
these, and what ended the deploy still holds (`ObjectsAreBuilt`); the event and what `nais env`
printed are of the finished deploy (`ReportsAreOfTheDeploy`); a place was passed over, and the
deploy ended without a manifest or a resource, only for what was there or a failed fetch
(`SearchIsTold`). The rest is about functions:

- `TypeCorrect`, where slashes of paths are the only part that is not about the shape.
- `EndsCorrect`: `EndsHaveCauses`, for each end, also that without a manifest or without
  resources: what ends a deploy is one of its causes, and a deploy that ends well had none. Each check on the way is shown to be equivalent to a
  cause told from the manifest as it was written: quantities through defaults and validations
  (`ValidityIsTold`, `AppQuantities`, `RedisQuantities`, `RedisPanic`), duplicates through the one variable of each
  key (`ClashIsDuplicate`), names of containers and volumes through the sequences
  `AddVaultContainers` appends to (`PodIsRefused`).
- `VariablesCorrect`: the daemon's own names differ, and the check for duplicates covers the rest.
- `SecretCorrect`: without duplicates no two values have the same key in the Secret, so that
  of the maps put over each other only one has a key, and none is lost.
- `DeveloperCorrect`: `nais env` asks for the same resources in the same order; but for secrets
  of which any one may be taken, the two fetches have the same outcome, and a value without a
  percent sign goes through the format unchanged (`PrintedPlainly`).
- `EventCorrect`: the name completed by `Repository` has the pod's image among its spellings
  (`FullName`), and only the rule for the environment `p` has the public host.

The assumptions are those the modules name. Bounds are naturals, manifests are records of the
right shape with any quantities, deploys and deletes are different requests, the environment's actors are not
requests, and the placeholder values are not among the real ones. A situation has manifests
of the right type at each place, and Fasit has at most one resource of an alias and type for
an environment, as its scoped lookup returns one. Hosts are told apart by what they are made of,
and paths have a natural number of slashes. TLC evaluates the assumptions in every run. To be
reasoned about, the entries of the Secret are put together from the last map that has a key
(`Together`), and the load balancers are a set, instead of folds over the resources: what a fold
computes for every sequence would need an induction that this prover does not reach.

Every invariant and every property of steps of the passing runs is proved. Only model-checked
are the properties that something eventually happens, which are out of this prover's reach:
`DeletedDeploymentGoes` and `SecretFollowsDeployment` of AppResources, `ReportsGetOut` of
DeployRequests and `WaitsEnd` of Rollouts. The five violated runs show counterexamples, which
need no proof.

## Plan

1. Fasit's payloads: scopes by zone and the JSON of `buildResourcePayload`.
2. A refinement of the two cluster writes of `DeployRequests` by AppResources, and of
   the unbuildable manifests of AppResources by PodBuilding.
3. A second application in AppResources, for the names that can collide
   (`<app>-redis`, hosts); alert keys are in AlertRules.
4. Proofs: the safety properties of what 1 to 3 add, and the refinements of 2 step by step.

## Not modelled

Contents of objects that no property is about (labels, probes, ports,
annotations, formatting), metrics and logging; the flags, prompts and output
formats of the command line, and its `validate` and `version`, which call what
`Manifests` models on a local file and print a constant; the validation of a
request's fields, which only `nais deploy` calls, before it sends the request: the daemon
takes any request that parses; the generated protobuf type;
`redirectOldServiceToNewApp` and `deleteRoleBinding`, which nothing
calls; the chart and build files, from which the models only take that several
pods run at once.
