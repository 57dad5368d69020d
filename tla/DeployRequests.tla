---------------------------- MODULE DeployRequests ----------------------------
(***************************************************************************)
(* POST /deploy, from the request to the answer (Api.deploy).              *)
(*                                                                         *)
(* The handler checks the request, looks up what the manifest needs in     *)
(* Fasit, writes the Kubernetes resources, registers the application and   *)
(* what it exposes in Fasit, tells Sensu, and hands an event to the Kafka  *)
(* producer of its pod (EventQueue).  Nothing it did is undone when a      *)
(* later step fails.  Requests for the same application run concurrently   *)
(* in several pods, and a pod may die between any two steps.               *)
(*                                                                         *)
(* Of the cluster the model keeps whose workload runs and which hosts the  *)
(* ingress has; AppResources models its writes one by one.  Of a Fasit     *)
(* resource it keeps its alias, its writer, and whether its scope names an *)
(* environment class.                                                      *)
(***************************************************************************)
EXTENDS EventQueue

CONSTANTS Requests,    \* deploy requests for one application
          Jobs,        \* what they may ask for
          Aliases,     \* of Fasit resources
          Defaults,    \* those every application consumes
          Catalogues,  \* the resources Fasit may have from the start, by alias
          NoJob,       \* the job of a request that has not come in
          Earlier,     \* the writer of what was there from the start
          MaxFaults,   \* bound on calls that fail
          MaxCrashes   \* bound on naisd pods that die

ASSUME RequestAssumption == Requests = Events /\ Earlier \notin Requests
ASSUME FaultAssumption == MaxFaults \in Nat /\ MaxCrashes \in Nat
ASSUME CatalogueAssumption == Defaults \subseteq Aliases /\ Catalogues \subseteq Seq(Aliases)
ASSUME JobAssumption ==
    /\ NoJob \notin Jobs
    /\ \A j \in Jobs : /\ j.skipFasit \in BOOLEAN      \* leave Fasit out
                       /\ j.environment \in BOOLEAN    \* names a Fasit environment
                       /\ j.used \subseteq Aliases     \* resources the manifest consumes,
                       /\ j.exposed \in Seq(Aliases)   \* and exposes,
                       /\ j.allZones \in BOOLEAN       \* in every zone
                       /\ j.ingress \in BOOLEAN        \* has an ingress

VARIABLES job,        \* what each request asks for
          pod,        \* the pod that serves it
          pc,         \* the handler's next step, "answered" or "dead"
          answer      \* the status of the response, 0 before there is one

VARIABLES cluster,    \* the application in Kubernetes: whose workload, whose
                      \* ingress, and with the load balancer's hosts or not
          resources,  \* Fasit's resources; the id is the index
          instances,  \* Fasit's application instances, in order of registration
          balanced    \* whether Fasit has a load balancer configuration

VARIABLES class,      \* whether the handler knows the environment class
          hosts,      \* whether it knows the load balancer's hosts
          warned,     \* whether it logged that it does not
          used,       \* ids of the resources it fetched
          exposed,    \* ids of the resources it created or updated so far
          found       \* the id it is about to update

VARIABLES faults, crashes,
          earlier,    \* history: the requests that had ended when this one came
          wrote,      \* history: the systems it has changed
          missed      \* history: its lookups that failed and were passed over

requestVars == <<job, pod, pc, answer>>
worldVars == <<cluster, resources, instances, balanced>>
handlerVars == <<class, hosts, warned, used, exposed, found>>
historyVars == <<earlier, wrote, missed>>
boundVars == <<faults, crashes>>
vars == <<requestVars, worldVars, handlerVars, historyVars, boundVars, eventVars>>

-------------------------------------------------------------------------------
\* Helpers.

Resource == [alias : Aliases, author : Requests \cup {Earlier}, class : BOOLEAN]

\* What the scoped lookup may answer for an alias.
Matching(alias) == {i \in DOMAIN resources : resources[i].alias = alias}

\* FetchFasitResources asks for the default resources and the manifest's.
Consumed(j) == Defaults \cup j.used

hasResources(j) == j.used # {} \/ j.exposed # <<>>

Goto(r, label) == pc' = [pc EXCEPT ![r] = label] /\ UNCHANGED <<job, pod, answer>>

Answer(r, status) == /\ pc' = [pc EXCEPT ![r] = "answered"]
                     /\ answer' = [answer EXCEPT ![r] = status]
                     /\ UNCHANGED <<job, pod>>

Ended(r) == pc[r] \in {"answered", "dead"}

Fault == faults < MaxFaults /\ faults' = faults + 1 /\ UNCHANGED crashes

Wrote(r, system) == /\ wrote' = [wrote EXCEPT ![r] = @ \cup {system}]
                    /\ UNCHANGED <<earlier, missed>>

Missed(r, lookup) == /\ missed' = [missed EXCEPT ![r] = @ \cup {lookup}]
                     /\ UNCHANGED <<earlier, wrote>>

Set(f, r, value) == [f EXCEPT ![r] = value]

-------------------------------------------------------------------------------
\* Initially Fasit knows resources others have registered, and may have an
\* earlier version's.

Init == /\ EventsInit
        /\ job = [r \in Requests |-> NoJob]
        /\ pod \in [Requests -> Pods]
        /\ pc = [r \in Requests |-> "idle"]
        /\ answer = [r \in Requests |-> 0]
        /\ cluster = [workload |-> Earlier, ingress |-> Earlier, hosts |-> FALSE]
        /\ resources \in {[i \in DOMAIN c |-> [alias |-> c[i], author |-> Earlier,
                                             class |-> TRUE]] : c \in Catalogues}
        /\ instances = <<>>
        /\ balanced \in BOOLEAN
        /\ class = [r \in Requests |-> FALSE]
        /\ hosts = [r \in Requests |-> FALSE]
        /\ warned = [r \in Requests |-> FALSE]
        /\ used = [r \in Requests |-> {}]
        /\ exposed = [r \in Requests |-> <<>>]
        /\ found = [r \in Requests |-> 0]
        /\ faults = 0 /\ crashes = 0
        /\ earlier = [r \in Requests |-> {}]
        /\ wrote = [r \in Requests |-> {}]
        /\ missed = [r \in Requests |-> {}]

ComeIn(r, j) == /\ pc[r] = "idle"
                /\ job' = Set(job, r, j)
                /\ pc' = Set(pc, r, "check")
                /\ earlier' = Set(earlier, r, {q \in Requests : Ended(q)})
                /\ UNCHANGED <<pod, answer, worldVars, handlerVars, wrote, missed,
                               boundVars, eventVars>>

-------------------------------------------------------------------------------
\* Before the cluster is touched.

\* 401 or 500: the user is not authenticated; 400: the body does not parse; 500:
\* there is no valid manifest.
Reject(r) == /\ pc[r] = "check"
             /\ \E status \in {400, 401, 500} : Answer(r, status)
             /\ UNCHANGED <<worldVars, handlerVars, historyVars, boundVars, eventVars>>

RejectWithoutEnvironment(r) ==
    /\ pc[r] = "check"
    /\ ~job[r].skipFasit /\ hasResources(job[r]) /\ ~job[r].environment
    /\ Answer(r, 500)
    /\ UNCHANGED <<worldVars, handlerVars, historyVars, boundVars, eventVars>>

Accept(r) == /\ pc[r] = "check"
             /\ \/ job[r].skipFasit /\ Goto(r, "workload")
                \/ /\ ~job[r].skipFasit /\ ~hasResources(job[r])
                   /\ Goto(r, "fetch")
                \/ /\ ~job[r].skipFasit /\ hasResources(job[r]) /\ job[r].environment
                   /\ Goto(r, "requirements")
             /\ UNCHANGED <<worldVars, handlerVars, historyVars, boundVars, eventVars>>

\* validateFasitRequirements: Fasit must know the environment and the application.
MeetRequirements(r) == /\ pc[r] = "requirements"
                       /\ Goto(r, "class")
                       /\ UNCHANGED <<worldVars, handlerVars, historyVars, boundVars,
                                      eventVars>>

FailRequirements(r) == /\ pc[r] = "requirements"
                       /\ Fault
                       /\ Answer(r, 500)
                       /\ UNCHANGED <<worldVars, handlerVars, historyVars, eventVars>>

LookUpClass(r) == /\ pc[r] = "class"
                  /\ class' = Set(class, r, TRUE)
                  /\ Goto(r, "fetch")
                  /\ UNCHANGED <<hosts, warned, used, exposed, found>>
                  /\ UNCHANGED <<worldVars, historyVars, boundVars, eventVars>>

\* The error is overwritten by the one of the next lookup.
MissClass(r) == /\ pc[r] = "class"
                /\ Fault
                /\ Goto(r, "fetch")
                /\ Missed(r, "class")
                /\ UNCHANGED <<worldVars, handlerVars, eventVars>>

Fetch(r) == /\ pc[r] = "fetch"
            /\ \E ids \in [Consumed(job[r]) -> DOMAIN resources] :
                 /\ \A alias \in Consumed(job[r]) : ids[alias] \in Matching(alias)
                 /\ used' = Set(used, r, {ids[alias] : alias \in Consumed(job[r])})
            /\ Goto(r, "balancer")
            /\ UNCHANGED <<class, hosts, warned, exposed, found>>
            /\ UNCHANGED <<worldVars, historyVars, boundVars, eventVars>>

FetchMissing(r) == /\ pc[r] = "fetch"
                   /\ \E alias \in Consumed(job[r]) : Matching(alias) = {}
                   /\ Answer(r, 400)
                   /\ UNCHANGED <<worldVars, handlerVars, historyVars, boundVars, eventVars>>

FetchFails(r) == /\ pc[r] = "fetch"
                 /\ Fault
                 /\ Answer(r, 400)
                 /\ UNCHANGED <<worldVars, handlerVars, historyVars, eventVars>>

LookUpBalancer(r) == /\ pc[r] = "balancer"
                     /\ hosts' = Set(hosts, r, balanced)
                     /\ Goto(r, "workload")
                     /\ UNCHANGED <<class, warned, used, exposed, found>>
                     /\ UNCHANGED <<worldVars, historyVars, boundVars, eventVars>>

\* getLoadBalancerConfig returns the wrong error variable, a nil, when the call
\* fails; only an answer it cannot parse is warned about.
MissBalancer(r) == /\ pc[r] = "balancer"
                   /\ Fault
                   /\ warned' \in {warned, Set(warned, r, TRUE)}
                   /\ Goto(r, "workload")
                   /\ Missed(r, "balancer")
                   /\ UNCHANGED <<class, hosts, used, exposed, found>>
                   /\ UNCHANGED <<worldVars, eventVars>>

-------------------------------------------------------------------------------
\* The cluster (createOrUpdateK8sResources): the workload first, the ingress last.

\* Where a request goes after its last write of the cluster.
AfterCluster(j) == IF j.skipFasit \/ ~hasResources(j) THEN "sensu"
                   ELSE IF j.exposed = <<>> THEN "register" ELSE "expose"

WithWorkload(r) == [cluster EXCEPT !.workload = r]

\* A plausible bug: an ingress that is there is left as it is.
IngressLeftAlone(r) == cluster

WithIngress(r) == [cluster EXCEPT !.ingress = r, !.hosts = hosts[r]]

\* A plausible bug: the ingress is not waited for.
WriteWorkloadOnly(r) == /\ pc[r] = "workload"
                        /\ cluster' = WithWorkload(r)
                        /\ Goto(r, AfterCluster(job[r]))
                        /\ Wrote(r, "workload")
                        /\ UNCHANGED <<resources, instances, balanced>>
                        /\ UNCHANGED <<handlerVars, boundVars, eventVars>>

WriteWorkload(r) == /\ pc[r] = "workload"
                    /\ cluster' = WithWorkload(r)
                    /\ Goto(r, IF job[r].ingress THEN "ingress" ELSE AfterCluster(job[r]))
                    /\ Wrote(r, "workload")
                    /\ UNCHANGED <<resources, instances, balanced>>
                    /\ UNCHANGED <<handlerVars, boundVars, eventVars>>

WriteIngress(r) == /\ pc[r] = "ingress"
                   /\ cluster' = WithIngress(r)
                   /\ Goto(r, AfterCluster(job[r]))
                   /\ Wrote(r, "ingress")
                   /\ UNCHANGED <<resources, instances, balanced>>
                   /\ UNCHANGED <<handlerVars, boundVars, eventVars>>

\* A plausible bug: the wrong status.
WriteEndsAsBadRequest(r) == /\ pc[r] \in {"workload", "ingress"}
                            /\ Answer(r, 400)
                            /\ Wrote(r, pc[r])
                            /\ UNCHANGED <<worldVars, handlerVars, eventVars>>

\* A call fails before or after its effect, and with it the deploy.
WriteEnds(r) == /\ \/ /\ pc[r] = "workload"
                      /\ cluster' \in {cluster, WithWorkload(r)}
                      /\ Wrote(r, "workload")
                   \/ /\ pc[r] = "ingress"
                      /\ cluster' \in {cluster, WithIngress(r)}
                      /\ Wrote(r, "ingress")
                /\ Answer(r, 500)
                /\ UNCHANGED <<resources, instances, balanced>>
                /\ UNCHANGED <<handlerVars, eventVars>>

WriteFails(r) == Fault /\ WriteEnds(r)

\* Another request wrote one of the objects between a Get and an Update.
WriteConflicts(r) == /\ \E q \in Requests \ (earlier[r] \cup {r}) : wrote[q] # {}
                     /\ WriteEnds(r)
                     /\ UNCHANGED boundVars

-------------------------------------------------------------------------------
\* Fasit (updateFasit).

\* The next resource to expose.
Exposing(r) == job[r].exposed[Len(exposed[r]) + 1]

FindExposed(r) == /\ pc[r] = "expose"
                  /\ \E i \in Matching(Exposing(r)) : found' = Set(found, r, i)
                  /\ Goto(r, "update")
                  /\ UNCHANGED <<class, hosts, warned, used, exposed>>
                  /\ UNCHANGED <<worldVars, historyVars, boundVars, eventVars>>

FindNothing(r) == /\ pc[r] = "expose"
                  /\ Matching(Exposing(r)) = {}
                  /\ Goto(r, "create")
                  /\ UNCHANGED <<worldVars, handlerVars, historyVars, boundVars, eventVars>>

FindFails(r) == /\ pc[r] = "expose"
                /\ Fault
                /\ Answer(r, 500)
                /\ UNCHANGED <<worldVars, handlerVars, historyVars, eventVars>>

\* A plausible bug: the ids are collected in the wrong order.
ExposeFirst(r, id) ==
    /\ exposed' = Set(exposed, r, <<id>> \o exposed[r])
    /\ Goto(r, IF Len(exposed[r]) + 1 = Len(job[r].exposed) THEN "register" ELSE "expose")
    /\ UNCHANGED <<class, hosts, warned, used, found>>

\* One more is exposed; on to the next, or to the application instance.
Expose(r, id) ==
    /\ exposed' = Set(exposed, r, Append(exposed[r], id))
    /\ Goto(r, IF Len(exposed[r]) + 1 = Len(job[r].exposed) THEN "register" ELSE "expose")
    /\ UNCHANGED <<class, hosts, warned, used, found>>

\* A new resource gets the class the handler knows, or none.
Created(r) == Append(resources, [alias |-> Exposing(r), author |-> r, class |-> class[r]])

\* A plausible bug: the scope of the existing resource is not looked at.
UpdatedAnew(r) == [resources EXCEPT ![found[r]].author = r,
                                    ![found[r]].class = class[r]]

\* An existing one keeps its scope, unless it is to be in every zone.
Updated(r) == [resources EXCEPT ![found[r]].author = r,
                                ![found[r]].class = IF job[r].allZones THEN class[r] ELSE @]

\* A plausible bug: an id off by one.
CreateNext(r) == /\ pc[r] = "create"
                 /\ resources' = Created(r)
                 /\ Expose(r, Len(resources') + 1)
                 /\ Wrote(r, "fasit")
                 /\ UNCHANGED <<cluster, instances, balanced, boundVars, eventVars>>

Create(r) == /\ pc[r] = "create"
             /\ resources' = Created(r)
             /\ Expose(r, Len(resources'))
             /\ Wrote(r, "fasit")
             /\ UNCHANGED <<cluster, instances, balanced, boundVars, eventVars>>

Update(r) == /\ pc[r] = "update"
             /\ resources' = Updated(r)
             /\ Expose(r, found[r])
             /\ Wrote(r, "fasit")
             /\ UNCHANGED <<cluster, instances, balanced, boundVars, eventVars>>

\* The call fails before or after its effect, or its answer has no id.
ExposeFails(r) == /\ \/ pc[r] = "create" /\ resources' \in {resources, Created(r)}
                     \/ pc[r] = "update" /\ resources' \in {resources, Updated(r)}
                  /\ Fault
                  /\ Answer(r, 500)
                  /\ Wrote(r, "fasit")
                  /\ UNCHANGED <<cluster, instances, balanced, handlerVars, eventVars>>

\* createApplicationInstance: what Fasit shows as running in the environment.
Registered(r) == Append(instances, [request |-> r, used |-> used[r], exposed |-> exposed[r]])

Register(r) == /\ pc[r] = "register"
               /\ instances' = Registered(r)
               /\ Goto(r, "sensu")
               /\ Wrote(r, "fasit")
               /\ UNCHANGED <<cluster, resources, balanced>>
               /\ UNCHANGED <<handlerVars, boundVars, eventVars>>

RegisterFails(r) == /\ pc[r] = "register"
                    /\ Fault
                    /\ instances' \in {instances, Registered(r)}
                    /\ Answer(r, 500)
                    /\ Wrote(r, "fasit")
                    /\ UNCHANGED <<cluster, resources, balanced>>
                    /\ UNCHANGED <<handlerVars, eventVars>>

-------------------------------------------------------------------------------
\* After Fasit.

\* NotifySensuAboutDeploy: its errors are logged and passed over.
Notify(r) == /\ pc[r] = "sensu"
             /\ Goto(r, "event")
             /\ UNCHANGED <<worldVars, handlerVars, historyVars, boundVars, eventVars>>

\* An answer of Sensu that fills the buffer has no end: slicing it panics, and
\* the connection is closed without a response.
NotifyPanics(r) == /\ pc[r] = "sensu"
                   /\ Fault
                   /\ pc' = Set(pc, r, "dead")
                   /\ UNCHANGED <<job, pod, answer>>
                   /\ UNCHANGED <<worldVars, handlerVars, historyVars, eventVars>>

\* The event is in the channel before the client gets its 200.
SendEvent(r) == /\ pc[r] = "event"
                /\ Send(pod[r], r)
                /\ Goto(r, "respond")
                /\ UNCHANGED <<worldVars, handlerVars, historyVars, boundVars>>

Respond(r) == /\ pc[r] = "respond"
              /\ Answer(r, 200)
              /\ UNCHANGED <<worldVars, handlerVars, historyVars, boundVars, eventVars>>

\* The pod dies with its handlers and its channel; another takes its place.
Crash(p) == /\ crashes < MaxCrashes
            /\ crashes' = crashes + 1
            /\ pc' = [r \in Requests |-> IF pod[r] = p /\ pc[r] # "idle" /\ ~Ended(r)
                                           THEN "dead" ELSE pc[r]]
            /\ LoseEvents(p)
            /\ UNCHANGED <<job, pod, answer, faults>>
            /\ UNCHANGED <<worldVars, handlerVars, historyVars>>

Produce(p) == /\ \/ Take(p)
                 \/ Deliver(p)
              /\ UNCHANGED <<requestVars, worldVars, handlerVars, historyVars, boundVars>>

ProduceBadly(p) == /\ Fault
                   /\ \/ DeliverAgain(p)
                      \/ DeliveryFails(p)
                   /\ UNCHANGED <<requestVars, worldVars, handlerVars, historyVars>>

Check(r) == \/ Reject(r) \/ RejectWithoutEnvironment(r) \/ Accept(r)
            \/ MeetRequirements(r) \/ FailRequirements(r)
            \/ LookUpClass(r) \/ MissClass(r)
            \/ Fetch(r) \/ FetchMissing(r) \/ FetchFails(r)
            \/ LookUpBalancer(r) \/ MissBalancer(r)

WriteCluster(r) == \/ WriteWorkload(r) \/ WriteIngress(r)
                   \/ WriteFails(r) \/ WriteConflicts(r)

UpdateFasit(r) == \/ FindExposed(r) \/ FindNothing(r) \/ FindFails(r)
                  \/ Create(r) \/ Update(r) \/ ExposeFails(r)
                  \/ Register(r) \/ RegisterFails(r)

Report(r) == Notify(r) \/ NotifyPanics(r) \/ SendEvent(r) \/ Respond(r)

Step(r) == Check(r) \/ WriteCluster(r) \/ UpdateFasit(r) \/ Report(r)

Next == \/ \E r \in Requests : Step(r) \/ \E j \in Jobs : ComeIn(r, j)
        \/ \E p \in Pods : Produce(p) \/ ProduceBadly(p) \/ Crash(p)

Spec == Init /\ [][Next]_vars

\* A ProducerLoop with something to do does it: sarama gives up after bounded
\* retries.  A handler that can put its event into the channel does.
FairSpec == /\ Spec
            /\ \A p \in Pods : WF_vars(Produce(p))
            /\ \A r \in Requests : WF_vars(SendEvent(r))

-------------------------------------------------------------------------------
\* Properties.

Pcs == {"idle", "check", "requirements", "class", "fetch", "balancer", "workload",
        "ingress", "expose", "create", "update", "register", "sensu", "event",
        "respond", "answered", "dead"}

Instance == [request : Requests, used : SUBSET (DOMAIN resources),
             exposed : Seq(DOMAIN resources)]

\* Every variable stays in its range, and every id is of a resource Fasit has.
TypeOK ==
    /\ EventsTypeOK
    /\ job \in [Requests -> Jobs \cup {NoJob}]
    /\ \A r \in Requests : job[r] = NoJob <=> pc[r] = "idle"
    /\ pod \in [Requests -> Pods]
    /\ pc \in [Requests -> Pcs]
    /\ answer \in [Requests -> {0, 200, 400, 401, 500}]
    /\ cluster \in [workload : Requests \cup {Earlier}, ingress : Requests \cup {Earlier},
                    hosts : BOOLEAN]
    /\ resources \in Seq(Resource)
    /\ instances \in Seq(Instance)
    /\ balanced \in BOOLEAN
    /\ class \in [Requests -> BOOLEAN]
    /\ hosts \in [Requests -> BOOLEAN]
    /\ warned \in [Requests -> BOOLEAN]
    /\ used \in [Requests -> SUBSET (DOMAIN resources)]
    /\ exposed \in [Requests -> Seq(DOMAIN resources)]
    /\ found \in [Requests -> {0} \cup DOMAIN resources]
    /\ faults \in 0 .. MaxFaults /\ crashes \in 0 .. MaxCrashes
    /\ earlier \in [Requests -> SUBSET Requests]
    /\ wrote \in [Requests -> SUBSET {"workload", "ingress", "fasit"}]
    /\ missed \in [Requests -> SUBSET {"class", "balancer"}]

NeedsFasit(r) == ~job[r].skipFasit /\ hasResources(job[r])

RegisteredBy(r) == \E i \in DOMAIN instances : instances[i].request = r

HasEvent(r) == Underway(r) \/ InTopic(r) \/ r \in dropped

\* A client told 400 or 401 may send the request again: it has changed nothing
\* anywhere (the order of the steps of Api.deploy).
RejectedRequestsChangeNothing ==
    \A r \in Requests : answer[r] \in {400, 401} =>
      wrote[r] = {} /\ ~RegisteredBy(r) /\ ~HasEvent(r)

\* No system hears of a deploy that an earlier one has not seen through: Fasit
\* shows only what has been written to the cluster, ingress included, and an
\* event is of a deploy that Fasit knows as well.
EachSystemFollowsTheLast ==
    \A r \in Requests :
      /\ RegisteredBy(r) => /\ "workload" \in wrote[r]
                            /\ job[r].ingress => "ingress" \in wrote[r]
      /\ HasEvent(r) => /\ "workload" \in wrote[r]
                        /\ job[r].ingress => "ingress" \in wrote[r]
                        /\ NeedsFasit(r) => RegisteredBy(r)
      /\ answer[r] = 200 => HasEvent(r)

\* Each application instance names the resources its application consumes and, in
\* the manifest's order, those it exposes, whoever created them and whatever other requests
\* did to Fasit meanwhile (CreateOrUpdateFasitResources).
InstancesNameTheirResources ==
    \A i \in DOMAIN instances :
      LET instance == instances[i]
          j == job[instance.request]
      IN  /\ {resources[id].alias : id \in instance.used} = Consumed(j)
          /\ [n \in DOMAIN instance.exposed |-> resources[instance.exposed[n]].alias] = j.exposed

\* Everything one successful deploy wrote is what is there, as long as no other
\* request came before it had ended: its workload, its ingress with the hosts
\* Fasit has, its instance as the latest and its address in every resource it
\* exposes.  Only a lookup that failed unnoticed may have left hosts out.
LoneDeployIsCurrent ==
    \A r \in Requests :
      (answer[r] = 200 /\ \A q \in Requests \ {r} : pc[q] = "idle" \/ q \in earlier[r]) =>
        /\ cluster.workload = r
        /\ job[r].ingress => /\ cluster.ingress = r
                             /\ cluster.hosts = (balanced /\ ~job[r].skipFasit
                                                  /\ "balancer" \notin missed[r])
        /\ NeedsFasit(r) =>
             /\ instances[Len(instances)].request = r
             /\ \A alias \in {job[r].exposed[n] : n \in DOMAIN job[r].exposed} :
                  \E i \in Matching(alias) : resources[i].author = r

\* A resource of Fasit loses the environment class of its scope only in an update
\* for every zone whose lookup of the class failed and was passed over
\* (generateScope, and the error overwritten in Api.deploy).
ClassesAreLostOnlyToMissedLookups ==
    [][\A i \in DOMAIN resources : resources[i].class /\ ~resources'[i].class =>
         \E r \in Requests : /\ pc[r] = "update" /\ found[r] = i
                             /\ job[r].allZones /\ "class" \in missed[r]]_vars

\* If one deploy was answered before another came in to the same pod, the topic
\* has no event of the later one before one of the earlier.
TopicKeepsOrder ==
    \A i, k \in DOMAIN topic : i < k =>
      ~(/\ topic[k] \in earlier[topic[i]]
        /\ answer[topic[k]] = 200
        /\ pod[topic[k]] = pod[topic[i]])

\* A handler that has come to report its deploy is not held up by a full channel
\* for ever, and its event reaches the topic unless it is dropped with an error or
\* dies with the pod (Client.Send, ProducerLoop).
ReportsGetOut ==
    \A r \in Requests : pc[r] = "event" ~> InTopic(r) \/ r \in dropped \/ pc[r] = "dead"

-------------------------------------------------------------------------------
\* What the code says of itself, and does not do.

\* fasit.go, when getting the load balancer configuration has failed: "failed
\* getting loadbalancer config for application %s in fasitEnvironment %s: %s".
\* The ingress is then written without the hosts Fasit has, and nobody is warned.
MissedBalancersAreWarnedAbout ==
    \A r \in Requests :
      (/\ cluster.ingress = r /\ ~cluster.hosts
       /\ balanced /\ "balancer" \in missed[r]) => warned[r]
===============================================================================
