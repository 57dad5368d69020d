------------------------- MODULE DeployRequestsProofs -------------------------
(***************************************************************************)
(* For any requests, jobs, catalogues, pods, failures and crashes.         *)
(*                                                                         *)
(* The invariant has these parts.  Course tells where a request is from    *)
(* what it has done itself, Informed what it knows of Fasit, Heard which   *)
(* systems know of it, and Named what its ids mean in Fasit; Current says  *)
(* what a request that nobody overlapped has made of each system so far,   *)
(* and InOrder where its event is.  Two lemmas stand before them: a step   *)
(* of one request leaves alone what belongs to the others (Frame), and no  *)
(* event appears or gets lost but by the one step that sends it            *)
(* (EventsAreKept).                                                        *)
(***************************************************************************)
EXTENDS DeployRequests, SequenceTheorems, TLAPS

-------------------------------------------------------------------------------
\* The course of a request.

Looking == {"idle", "check", "requirements", "class", "fetch", "balancer"}
Exposes == {"expose", "create", "update"}
Reporting == {"sensu", "event", "respond"}

WroteCluster(r) == /\ "workload" \in wrote[r]
                   /\ job[r].ingress => "ingress" \in wrote[r]

\* It is at a step after its last lookup, or answered well.
Going(r) == \/ pc[r] \in {"workload", "ingress", "register"} \cup Exposes \cup Reporting
            \/ answer[r] = 200

Exposed(r) == \/ pc[r] \in {"register"} \cup Reporting
              \/ answer[r] = 200

\* What it has done is what its next step comes after.
Course(r) ==
    /\ pc[r] = "answered" <=> answer[r] # 0
    /\ pc[r] \in Looking \cup {"workload"} => wrote[r] = {}
    /\ pc[r] \in Looking \cup {"workload", "ingress"} => exposed[r] = <<>>
    /\ answer[r] \in {400, 401} => wrote[r] = {}
    /\ pc[r] = "ingress" => "workload" \in wrote[r] /\ job[r].ingress
    /\ pc[r] \in Exposes \cup {"register"} \cup Reporting => WroteCluster(r)
    /\ pc[r] \in {"requirements", "class", "register"} \cup Exposes => NeedsFasit(r)
    /\ pc[r] \in {"fetch", "balancer"} => ~job[r].skipFasit
    /\ pc[r] \in Exposes => Len(exposed[r]) < Len(job[r].exposed)
    /\ Exposed(r) /\ NeedsFasit(r) => Len(exposed[r]) = Len(job[r].exposed)
    /\ pc[r] = "update" => found[r] # 0

\* What it knows of the environment is what Fasit told, or was not asked.
Informed(r) ==
    /\ pc[r] \in {"fetch", "balancer", "workload", "ingress"} \cup Exposes /\ NeedsFasit(r)
         => class[r] \/ "class" \in missed[r]
    /\ pc[r] \in Looking => ~hosts[r] /\ "balancer" \notin missed[r]
    /\ Going(r) => hosts[r] = (balanced /\ ~job[r].skipFasit /\ "balancer" \notin missed[r])

\* Which systems know of it.
Heard(r) ==
    /\ RegisteredBy(r) => /\ pc[r] \in Reporting \cup {"answered", "dead"}
                          /\ answer[r] \notin {400, 401}
                          /\ WroteCluster(r)
    /\ pc[r] \in Reporting /\ NeedsFasit(r) => RegisteredBy(r)
    /\ HasEvent(r) => /\ pc[r] \in {"respond", "answered", "dead"}
                      /\ answer[r] \notin {400, 401}
                      /\ WroteCluster(r)
                      /\ NeedsFasit(r) => RegisteredBy(r)
    /\ pc[r] = "respond" \/ answer[r] = 200 => HasEvent(r)

\* What its ids mean.
Named(r) ==
    /\ pc[r] \in {"balancer", "workload", "ingress", "register"} \cup Exposes
         /\ ~job[r].skipFasit
         => {resources[id].alias : id \in used[r]} = Consumed(job[r])
    /\ \A n \in 1 .. Len(exposed[r]) : /\ n <= Len(job[r].exposed)
                                       /\ resources[exposed[r][n]].alias = job[r].exposed[n]
    /\ pc[r] = "update" => resources[found[r]].alias = Exposing(r)

\* Nobody else has come in since r did, but for what had ended by then.
Lone(r) == \A q \in Requests \ {r} : pc[q] = "idle" \/ q \in earlier[r]

EarlierEnded == \A r \in Requests : \A q \in earlier[r] : q # r /\ Ended(q)

\* What is there is r's.
Current(r) ==
    /\ pc[r] \in {"ingress", "register"} \cup Exposes \cup Reporting \/ answer[r] = 200
         => cluster.workload = r
    /\ (pc[r] \in {"register"} \cup Exposes \cup Reporting \/ answer[r] = 200)
         /\ job[r].ingress
         => cluster.ingress = r /\ cluster.hosts = hosts[r]
    /\ (pc[r] \in Reporting \/ answer[r] = 200) /\ NeedsFasit(r)
         => instances # <<>> /\ instances[Len(instances)].request = r
    /\ pc[r] \in {"register"} \cup Exposes \cup Reporting \/ answer[r] = 200
         => \A n \in 1 .. Len(exposed[r]) : resources[exposed[r][n]].author = r

LoneIsCurrent == \A r \in Requests : Lone(r) => Current(r)

\* An event in the hands of a pod is of one of its requests.
OwnEvents == \A p \in Pods : /\ sending[p] # NoEvent => pod[sending[p]] = p
                             /\ \A i \in 1 .. Len(queue[p]) : pod[queue[p][i]] = p

\* f was answered well before e came in, to the same pod.
Precedes(f, e) == f \in earlier[e] /\ answer[f] = 200 /\ pod[f] = pod[e]

\* Then f is not behind e.
NotBehind(f, e) ==
    /\ \A i, k \in 1 .. Len(topic) : i < k => ~(topic[i] = e /\ topic[k] = f)
    /\ InTopic(e) => ~Underway(f)
    /\ \A p \in Pods :
         /\ sending[p] = e => \A k \in 1 .. Len(queue[p]) : queue[p][k] # f
         /\ \A i, k \in 1 .. Len(queue[p]) : i < k => ~(queue[p][i] = e /\ queue[p][k] = f)

InOrder == \A e, f \in Requests : Precedes(f, e) => NotBehind(f, e)

-------------------------------------------------------------------------------
\* Steps.

\* Nothing of r changes.
Rests(r) == /\ pc'[r] = pc[r] /\ answer'[r] = answer[r] /\ job'[r] = job[r]
            /\ wrote'[r] = wrote[r] /\ missed'[r] = missed[r] /\ earlier'[r] = earlier[r]
            /\ class'[r] = class[r] /\ hosts'[r] = hosts[r]
            /\ used'[r] = used[r] /\ exposed'[r] = exposed[r] /\ found'[r] = found[r]

\* r dies with its pod.
Dies(r) == /\ pc[r] \notin {"idle", "answered", "dead"} /\ pc'[r] = "dead"
           /\ UNCHANGED <<job, answer, wrote, missed, earlier, handlerVars>>

RequestsOK == /\ job \in [Requests -> Jobs \cup {NoJob}]
              /\ \A r \in Requests : job[r] = NoJob <=> pc[r] = "idle"
              /\ pod \in [Requests -> Pods]
              /\ pc \in [Requests -> Pcs]
              /\ answer \in [Requests -> {0, 200, 400, 401, 500}]

ClusterOK == cluster \in [workload : Requests \cup {Earlier},
                          ingress : Requests \cup {Earlier}, hosts : BOOLEAN]

KnownOK == /\ balanced \in BOOLEAN
           /\ class \in [Requests -> BOOLEAN]
           /\ hosts \in [Requests -> BOOLEAN]
           /\ warned \in [Requests -> BOOLEAN]

BoundsOK == faults \in 0 .. MaxFaults /\ crashes \in 0 .. MaxCrashes

HistoryOK == /\ earlier \in [Requests -> SUBSET Requests]
             /\ wrote \in [Requests -> SUBSET {"workload", "ingress", "fasit"}]
             /\ missed \in [Requests -> SUBSET {"class", "balancer"}]

ControlOK == RequestsOK /\ ClusterOK /\ KnownOK /\ BoundsOK /\ HistoryOK

FasitOK == resources \in Seq(Resource) /\ instances \in Seq(Instance)

IdsOK == /\ used \in [Requests -> SUBSET (DOMAIN resources)]
         /\ exposed \in [Requests -> Seq(DOMAIN resources)]
         /\ found \in [Requests -> {0} \cup DOMAIN resources]

\* Where the steps of each part of the handler begin.
LEMMA CheckStarts ==
    ASSUME NEW r \in Requests, Check(r)
    PROVE  pc[r] \in Looking \ {"idle"}
  BY ZenonT(30) DEF Looking, Check, Reject, RejectWithoutEnvironment, Accept, MeetRequirements,
              FailRequirements, LookUpClass, MissClass, Fetch, FetchMissing, FetchFails,
              LookUpBalancer, MissBalancer

LEMMA WriteStarts ==
    ASSUME NEW r \in Requests, WriteCluster(r)
    PROVE  pc[r] \in {"workload", "ingress"}
  BY DEF WriteCluster, WriteWorkload, WriteIngress, WriteFails, WriteConflicts, WriteEnds

LEMMA UpdateStarts ==
    ASSUME NEW r \in Requests, UpdateFasit(r)
    PROVE  pc[r] \in {"register"} \cup Exposes
  BY DEF Exposes, UpdateFasit, FindExposed, FindNothing, FindFails, Create, Update, ExposeFails,
         Register, RegisterFails

LEMMA ReportStarts ==
    ASSUME NEW r \in Requests, Report(r)
    PROVE  pc[r] \in Reporting
  BY DEF Reporting, Report, Notify, NotifyPanics, SendEvent, Respond

LEMMA TypeInParts == TypeOK <=> EventsTypeOK /\ ControlOK /\ FasitOK /\ IdsOK
  BY DEF TypeOK, ControlOK, RequestsOK, ClusterOK, KnownOK, BoundsOK, HistoryOK, FasitOK, IdsOK

LEMMA TypeFromPartsAfterwards ==
    EventsTypeOK' /\ ControlOK' /\ FasitOK' /\ IdsOK' => TypeOK'
  BY DEF TypeOK, ControlOK, RequestsOK, ClusterOK, KnownOK, BoundsOK, HistoryOK, FasitOK, IdsOK

\* A step of r leaves alone what belongs to the others.
LEMMA Frame ==
    ASSUME TypeOK, NEW r \in Requests, Step(r), NEW q \in Requests \ {r}
    PROVE  Rests(q)
  <1> USE DEF TypeOK, Rests, Goto, Answer, Wrote, Missed, Set, Fault,
              requestVars, worldVars, handlerVars, historyVars, boundVars
  <1>1. CASE Check(r)
    BY <1>1, SMTT(30) DEF Check, Reject, RejectWithoutEnvironment, Accept, MeetRequirements,
                FailRequirements, LookUpClass, MissClass, Fetch, FetchMissing, FetchFails,
                LookUpBalancer, MissBalancer
  <1>2. CASE WriteCluster(r)
    BY <1>2 DEF WriteCluster, WriteWorkload, WriteIngress, WriteFails, WriteConflicts, WriteEnds
  <1>3. CASE UpdateFasit(r)
    BY <1>3 DEF UpdateFasit, FindExposed, FindNothing, FindFails, Create, Update, Expose,
                ExposeFails, Register, RegisterFails
  <1>4. CASE Report(r)
    BY <1>4 DEF Report, Notify, NotifyPanics, SendEvent, Respond
  <1> QED BY <1>1, <1>2, <1>3, <1>4 DEF Step

LEMMA StepKeeps ==
    ASSUME NEW r \in Requests, Step(r)
    PROVE  UNCHANGED <<job, pod, earlier, balanced, crashes>>
  <1> USE DEF Goto, Answer, Wrote, Missed, Fault,
              requestVars, worldVars, handlerVars, historyVars, boundVars
  <1>1. CASE Check(r)
    BY <1>1, ZenonT(30) DEF Check, Reject, RejectWithoutEnvironment, Accept, MeetRequirements,
                FailRequirements, LookUpClass, MissClass, Fetch, FetchMissing, FetchFails,
                LookUpBalancer, MissBalancer
  <1>2. CASE WriteCluster(r)
    BY <1>2 DEF WriteCluster, WriteWorkload, WriteIngress, WriteFails, WriteConflicts, WriteEnds
  <1>3. CASE UpdateFasit(r)
    BY <1>3 DEF UpdateFasit, FindExposed, FindNothing, FindFails, Create, Update, Expose,
                ExposeFails, Register, RegisterFails
  <1>4. CASE Report(r)
    BY <1>4 DEF Report, Notify, NotifyPanics, SendEvent, Respond
  <1> QED BY <1>1, <1>2, <1>3, <1>4 DEF Step

\* What a step is to one request.
LEMMA WhatHappens ==
    ASSUME TypeOK, [Next]_vars, NEW q \in Requests
    PROVE  Step(q) \/ (\E j \in Jobs : ComeIn(q, j)) \/ Dies(q) \/ Rests(q)
  <1> USE DEF requestVars, worldVars, handlerVars, historyVars, boundVars
  <1>1. ASSUME NEW r \in Requests \ {q}, Step(r)
        PROVE  Rests(q)
    BY <1>1, Frame
  <1>2. ASSUME NEW r \in Requests \ {q}, NEW j \in Jobs, ComeIn(r, j)
        PROVE  Rests(q)
    BY <1>2 DEF ComeIn, Set, Rests, TypeOK
  <1>3. ASSUME NEW p \in Pods, Crash(p)
        PROVE  Dies(q) \/ Rests(q)
    BY <1>3 DEF Crash, Ended, Dies, Rests, TypeOK
  <1>4. ASSUME NEW p \in Pods, Produce(p) \/ ProduceBadly(p)
        PROVE  Rests(q)
    BY <1>4 DEF Produce, ProduceBadly, Rests
  <1>5. CASE UNCHANGED vars
    BY <1>5 DEF vars, Rests
  <1> QED BY <1>1, <1>2, <1>3, <1>4, <1>5 DEF Next

-------------------------------------------------------------------------------
\* Fasit's resources keep their ids and aliases.

Grows == /\ resources' \in Seq(Resource)
         /\ DOMAIN resources \subseteq DOMAIN resources'
         /\ \A i \in DOMAIN resources : resources'[i].alias = resources[i].alias

LEMMA JobsAreJobs ==
    ASSUME TypeOK, NEW r \in Requests, pc[r] # "idle"
    PROVE  /\ job[r] \in Jobs
           /\ job[r].exposed \in Seq(Aliases)
           /\ job[r].skipFasit \in BOOLEAN /\ job[r].ingress \in BOOLEAN
           /\ Consumed(job[r]) \subseteq Aliases
  <1>1. job[r] \in Jobs
    BY DEF TypeOK
  <1> QED BY <1>1, JobAssumption, CatalogueAssumption DEF Consumed

LEMMA ExposingIsAlias ==
    ASSUME TypeOK, NEW r \in Requests, Course(r), pc[r] \in Exposes
    PROVE  /\ Exposing(r) \in Aliases
           /\ exposed[r] \in Seq(DOMAIN resources)
           /\ Len(exposed[r]) \in Nat /\ Len(job[r].exposed) \in Nat
           /\ Len(exposed[r]) + 1 \in 1 .. Len(job[r].exposed)
  <1>1. job[r].exposed \in Seq(Aliases)
    BY JobsAreJobs DEF Exposes
  <1>2. exposed[r] \in Seq(DOMAIN resources)
    BY DEF TypeOK
  <1>3. Len(exposed[r]) \in Nat /\ Len(job[r].exposed) \in Nat
    BY <1>1, <1>2, LenProperties
  <1>4. Len(exposed[r]) + 1 \in 1 .. Len(job[r].exposed)
    BY <1>3 DEF Course
  <1>5. Exposing(r) \in Aliases
    BY <1>1, <1>4, ElementOfSeq DEF Exposing
  <1> QED BY <1>2, <1>3, <1>4, <1>5

LEMMA CreatedGrows ==
    ASSUME TypeOK, NEW r \in Requests, Course(r), pc[r] = "create", resources' = Created(r)
    PROVE  /\ Grows
           /\ Len(resources') = Len(resources) + 1
           /\ Len(resources') \in DOMAIN resources' /\ Len(resources') \notin DOMAIN resources
           /\ resources'[Len(resources')].alias = Exposing(r)
           /\ resources'[Len(resources')].author = r
           /\ \A i \in DOMAIN resources : resources'[i] = resources[i]
  <1>1. /\ resources \in Seq(Resource)
        /\ Len(resources) \in Nat
        /\ DOMAIN resources = 1 .. Len(resources)
    BY LenProperties DEF TypeOK
  <1> DEFINE new == [alias |-> Exposing(r), author |-> r, class |-> class[r]]
  <1>2. new \in Resource
    BY ExposingIsAlias DEF Resource, TypeOK, Exposes
  <1>3. resources' = Append(resources, new)
    BY DEF Created
  <1> HIDE DEF new
  <1>4. /\ resources' \in Seq(Resource)
        /\ Len(resources') = Len(resources) + 1
        /\ \A i \in 1 .. Len(resources) : resources'[i] = resources[i]
        /\ resources'[Len(resources) + 1] = new
    BY <1>1, <1>2, <1>3, AppendProperties
  <1>5. DOMAIN resources' = 1 .. Len(resources) + 1
    BY <1>4, LenProperties
  <1>6. new.alias = Exposing(r) /\ new.author = r
    BY DEF new
  <1> QED BY <1>1, <1>4, <1>5, <1>6 DEF Grows

LEMMA UpdatedGrows ==
    ASSUME TypeOK, NEW r \in Requests, Course(r), pc[r] = "update", resources' = Updated(r)
    PROVE  /\ Grows
           /\ DOMAIN resources' = DOMAIN resources
           /\ found[r] \in DOMAIN resources
           /\ resources'[found[r]].author = r
           /\ \A i \in DOMAIN resources : resources'[i].author \in {resources[i].author, r}
           /\ \A i \in DOMAIN resources :
                resources[i].class /\ ~resources'[i].class =>
                  found[r] = i /\ job[r].allZones /\ ~class[r]
  <1>1. /\ resources \in Seq(Resource)
        /\ DOMAIN resources = 1 .. Len(resources)
        /\ found[r] \in 1 .. Len(resources)
    BY LenProperties DEF TypeOK, Course
  <1> DEFINE old == resources[found[r]]
             new == [old EXCEPT !.author = r,
                                !.class = IF job[r].allZones THEN class[r] ELSE old.class]
  <1>2. old \in Resource
    BY <1>1, ElementOfSeq
  <1>3. /\ new \in Resource /\ new.alias = old.alias /\ new.author = r
        /\ old.class /\ ~new.class => job[r].allZones /\ ~class[r]
    <2>1. class[r] \in BOOLEAN
      BY DEF TypeOK
    <2> QED BY <1>2, <2>1, ZenonT(30) DEF Resource
  <1>4. resources' = [resources EXCEPT ![found[r]] = new]
    BY <1>1, <1>2 DEF Updated, Resource
  <1> HIDE DEF new
  <1>5. /\ resources' \in Seq(Resource)
        /\ Len(resources') = Len(resources)
        /\ \A i \in 1 .. Len(resources) :
             resources'[i] = IF i = found[r] THEN new ELSE resources[i]
    BY <1>1, <1>3, <1>4, ExceptSeq
  <1>6. DOMAIN resources' = DOMAIN resources
    BY <1>1, <1>5, LenProperties
  <1> QED BY <1>1, <1>3, <1>5, <1>6 DEF Grows

\* What a step of r does in Fasit.
LEMMA FasitChanges ==
    ASSUME TypeOK, NEW r \in Requests, Step(r)
    PROVE  /\ \/ UNCHANGED resources
              \/ pc[r] = "create" /\ resources' = Created(r)
              \/ pc[r] = "update" /\ resources' = Updated(r)
           /\ \/ UNCHANGED instances
              \/ pc[r] = "register" /\ instances' = Registered(r)
  <1> USE DEF Wrote, Fault, requestVars, worldVars, handlerVars, historyVars, boundVars
  <1>1. CASE Check(r)
    BY <1>1, ZenonT(30) DEF Check, Reject, RejectWithoutEnvironment, Accept, MeetRequirements,
                FailRequirements, LookUpClass, MissClass, Fetch, FetchMissing, FetchFails,
                LookUpBalancer, MissBalancer
  <1>2. CASE WriteCluster(r)
    BY <1>2 DEF WriteCluster, WriteWorkload, WriteIngress, WriteFails, WriteConflicts, WriteEnds
  <1>3. CASE UpdateFasit(r)
    BY <1>3 DEF UpdateFasit, FindExposed, FindNothing, FindFails, Create, Update, Expose,
                ExposeFails, Register, RegisterFails
  <1>4. CASE Report(r)
    BY <1>4 DEF Report, Notify, NotifyPanics, SendEvent, Respond
  <1> QED BY <1>1, <1>2, <1>3, <1>4 DEF Step

LEMMA OthersLeaveFasit ==
    ASSUME [Next]_vars, \A r \in Requests : ~Step(r)
    PROVE  UNCHANGED worldVars
  <1> QED BY DEF Next, ComeIn, Produce, ProduceBadly, Crash, vars

LEMMA NothingGrows == TypeOK /\ UNCHANGED resources => Grows
  BY DEF TypeOK, Grows

LEMMA FasitGrows ==
    ASSUME TypeOK, \A r \in Requests : Course(r), [Next]_vars
    PROVE  Grows
  <1>1. ASSUME NEW r \in Requests, Step(r)
        PROVE  Grows
    BY <1>1, FasitChanges, CreatedGrows, UpdatedGrows, NothingGrows
  <1>2. CASE \A r \in Requests : ~Step(r)
    BY <1>2, OthersLeaveFasit, NothingGrows DEF worldVars
  <1> QED BY <1>1, <1>2

-------------------------------------------------------------------------------
\* Types.

\* A request goes on, or is answered.
Moves(r) == \/ /\ UNCHANGED answer
               /\ \E label \in Pcs \ {"idle", "answered"} : pc' = [pc EXCEPT ![r] = label]
            \/ /\ \E status \in {200, 400, 401, 500} :
                    answer' = [answer EXCEPT ![r] = status]
               /\ pc' = [pc EXCEPT ![r] = "answered"]

\* It learns something, or not.
Learns(r) == /\ \E known \in BOOLEAN : class' \in {class, [class EXCEPT ![r] = known]}
             /\ \E known \in BOOLEAN : hosts' \in {hosts, [hosts EXCEPT ![r] = known]}
             /\ \E known \in BOOLEAN : warned' \in {warned, [warned EXCEPT ![r] = known]}

\* It writes to a system, or misses a lookup, or neither.
Remembers(r) == /\ \/ UNCHANGED wrote
                   \/ \E system \in {"workload", "ingress", "fasit"} :
                        wrote' = [wrote EXCEPT ![r] = @ \cup {system}]
                /\ \/ UNCHANGED missed
                   \/ \E lookup \in {"class", "balancer"} :
                        missed' = [missed EXCEPT ![r] = @ \cup {lookup}]

LEMMA StepMoves ==
    ASSUME NEW r \in Requests, Step(r)
    PROVE  Moves(r) /\ pc[r] \notin {"idle", "answered", "dead"}
  <1> USE DEF Moves, Goto, Answer, Set, Pcs
  <1>1. CASE Check(r)
    BY <1>1, SMTT(30) DEF Check, Reject, RejectWithoutEnvironment, Accept, MeetRequirements,
                FailRequirements, LookUpClass, MissClass, Fetch, FetchMissing, FetchFails,
                LookUpBalancer, MissBalancer
  <1>2. CASE WriteCluster(r)
    BY <1>2 DEF WriteCluster, WriteWorkload, WriteIngress, WriteFails, WriteConflicts, WriteEnds, AfterCluster
  <1>3. CASE UpdateFasit(r)
    BY <1>3 DEF UpdateFasit, FindExposed, FindNothing, FindFails, Create, Update, Expose,
                ExposeFails, Register, RegisterFails
  <1>4. CASE Report(r)
    BY <1>4 DEF Report, Notify, NotifyPanics, SendEvent, Respond
  <1> QED BY <1>1, <1>2, <1>3, <1>4 DEF Step

LEMMA StepLearns ==
    ASSUME TypeOK, NEW r \in Requests, Step(r)
    PROVE  Learns(r)
  <1> USE DEF Learns, Set, TypeOK, handlerVars
  <1>1. CASE Check(r)
    BY <1>1, ZenonT(30) DEF Check, Reject, RejectWithoutEnvironment, Accept, MeetRequirements,
                FailRequirements, LookUpClass, MissClass, Fetch, FetchMissing, FetchFails,
                LookUpBalancer, MissBalancer
  <1>2. CASE WriteCluster(r)
    BY <1>2 DEF WriteCluster, WriteWorkload, WriteIngress, WriteFails, WriteConflicts, WriteEnds
  <1>3. CASE UpdateFasit(r)
    BY <1>3 DEF UpdateFasit, FindExposed, FindNothing, FindFails, Create, Update, Expose,
                ExposeFails, Register, RegisterFails
  <1>4. CASE Report(r)
    BY <1>4 DEF Report, Notify, NotifyPanics, SendEvent, Respond
  <1> QED BY <1>1, <1>2, <1>3, <1>4 DEF Step

LEMMA StepRemembers ==
    ASSUME NEW r \in Requests, Step(r)
    PROVE  Remembers(r)
  <1> USE DEF Remembers, Wrote, Missed, historyVars
  <1>1. CASE Check(r)
    BY <1>1, ZenonT(30) DEF Check, Reject, RejectWithoutEnvironment, Accept, MeetRequirements,
                FailRequirements, LookUpClass, MissClass, Fetch, FetchMissing, FetchFails,
                LookUpBalancer, MissBalancer
  <1>2. CASE WriteCluster(r)
    BY <1>2 DEF WriteCluster, WriteWorkload, WriteIngress, WriteFails, WriteConflicts, WriteEnds
  <1>3. CASE UpdateFasit(r)
    BY <1>3 DEF UpdateFasit, FindExposed, FindNothing, FindFails, Create, Update, Expose,
                ExposeFails, Register, RegisterFails
  <1>4. CASE Report(r)
    BY <1>4 DEF Report, Notify, NotifyPanics, SendEvent, Respond
  <1> QED BY <1>1, <1>2, <1>3, <1>4 DEF Step

LEMMA StepCounts ==
    ASSUME NEW r \in Requests, Step(r)
    PROVE  UNCHANGED boundVars \/ Fault
  <1> USE DEF boundVars
  <1>1. CASE Check(r)
    BY <1>1, ZenonT(30) DEF Check, Reject, RejectWithoutEnvironment, Accept, MeetRequirements,
                FailRequirements, LookUpClass, MissClass, Fetch, FetchMissing, FetchFails,
                LookUpBalancer, MissBalancer
  <1>2. CASE WriteCluster(r)
    BY <1>2 DEF WriteCluster, WriteWorkload, WriteIngress, WriteFails, WriteConflicts, WriteEnds
  <1>3. CASE UpdateFasit(r)
    BY <1>3 DEF UpdateFasit, FindExposed, FindNothing, FindFails, Create, Update, Expose,
                ExposeFails, Register, RegisterFails
  <1>4. CASE Report(r)
    BY <1>4 DEF Report, Notify, NotifyPanics, SendEvent, Respond
  <1> QED BY <1>1, <1>2, <1>3, <1>4 DEF Step

\* What a step writes to the cluster.
LEMMA ClusterChanges ==
    ASSUME NEW r \in Requests, Step(r)
    PROVE  \/ UNCHANGED cluster
           \/ pc[r] = "workload" /\ cluster' = WithWorkload(r)
           \/ pc[r] = "ingress" /\ cluster' = WithIngress(r)
  <1> USE DEF worldVars
  <1>1. CASE Check(r)
    BY <1>1, ZenonT(30) DEF Check, Reject, RejectWithoutEnvironment, Accept, MeetRequirements,
                FailRequirements, LookUpClass, MissClass, Fetch, FetchMissing, FetchFails,
                LookUpBalancer, MissBalancer
  <1>2. CASE WriteCluster(r)
    BY <1>2 DEF WriteCluster, WriteWorkload, WriteIngress, WriteFails, WriteConflicts, WriteEnds
  <1>3. CASE UpdateFasit(r)
    BY <1>3 DEF UpdateFasit, FindExposed, FindNothing, FindFails, Create, Update, Expose,
                ExposeFails, Register, RegisterFails
  <1>4. CASE Report(r)
    BY <1>4 DEF Report, Notify, NotifyPanics, SendEvent, Respond
  <1> QED BY <1>1, <1>2, <1>3, <1>4 DEF Step

LEMMA StepControlOK ==
    ASSUME TypeOK, NEW r \in Requests, Step(r)
    PROVE  ControlOK'
  <1>1. RequestsOK /\ ClusterOK /\ KnownOK /\ BoundsOK /\ HistoryOK
    BY TypeInParts DEF ControlOK
  <1>2. RequestsOK'
    <2>1. Moves(r) /\ pc[r] # "idle" /\ UNCHANGED <<job, pod>>
      BY StepMoves, StepKeeps
    <2>2. pc' \in [Requests -> Pcs] /\ answer' \in [Requests -> {0, 200, 400, 401, 500}]
      BY <1>1, <2>1 DEF RequestsOK, Moves, Pcs
    <2>3. \A q \in Requests : pc'[q] = "idle" <=> pc[q] = "idle"
      BY <1>1, <2>1 DEF RequestsOK, Moves
    <2> QED BY <1>1, <2>1, <2>2, <2>3 DEF RequestsOK
  <1>3. ClusterOK'
    <2>1. hosts[r] \in BOOLEAN
      BY <1>1 DEF KnownOK
    <2>2. WithWorkload(r) \in [workload : Requests \cup {Earlier},
                               ingress : Requests \cup {Earlier}, hosts : BOOLEAN]
      BY <1>1 DEF ClusterOK, WithWorkload
    <2>3. WithIngress(r) \in [workload : Requests \cup {Earlier},
                              ingress : Requests \cup {Earlier}, hosts : BOOLEAN]
      BY <1>1, <2>1, Zenon DEF ClusterOK, WithIngress
    <2> QED BY <1>1, <2>2, <2>3, ClusterChanges DEF ClusterOK
  <1>4. KnownOK'
    <2>1. Learns(r) /\ UNCHANGED balanced
      BY StepLearns, StepKeeps
    <2> QED BY <1>1, <2>1 DEF KnownOK, Learns
  <1>5. BoundsOK'
    BY <1>1, StepCounts, FaultAssumption DEF BoundsOK, Fault, boundVars
  <1>6. HistoryOK'
    <2>1. Remembers(r) /\ UNCHANGED earlier
      BY StepRemembers, StepKeeps
    <2> QED BY <1>1, <2>1 DEF HistoryOK, Remembers
  <1> QED BY <1>2, <1>3, <1>4, <1>5, <1>6 DEF ControlOK

LEMMA OthersControlOK ==
    ASSUME TypeOK, [Next]_vars, \A r \in Requests : ~Step(r)
    PROVE  ControlOK'
  <1> USE DEF TypeOK, ControlOK, RequestsOK, ClusterOK, KnownOK, BoundsOK, HistoryOK,
              requestVars, worldVars, handlerVars, historyVars, boundVars
  <1>1. ASSUME NEW r \in Requests, NEW j \in Jobs, ComeIn(r, j)
        PROVE  ControlOK'
    BY <1>1, JobAssumption DEF ComeIn, Set, Pcs
  <1>2. ASSUME NEW p \in Pods, Crash(p)
        PROVE  ControlOK'
    BY <1>2, FaultAssumption DEF Crash, Pcs
  <1>3. ASSUME NEW p \in Pods, Produce(p) \/ ProduceBadly(p)
        PROVE  ControlOK'
    BY <1>3, FaultAssumption DEF Produce, ProduceBadly, Fault
  <1>4. CASE UNCHANGED vars
    BY <1>4 DEF vars
  <1> QED BY <1>1, <1>2, <1>3, <1>4 DEF Next

\* An id that is read from Fasit is of a resource it has, or has just got.
LEMMA IdsChange ==
    ASSUME TypeOK, NEW r \in Requests, Course(r), Step(r)
    PROVE  /\ \/ UNCHANGED used
              \/ \E ids \in SUBSET (DOMAIN resources') : used' = [used EXCEPT ![r] = ids]
           /\ \/ UNCHANGED exposed
              \/ \E id \in DOMAIN resources' :
                   exposed' = [exposed EXCEPT ![r] = Append(exposed[r], id)]
           /\ \/ UNCHANGED found
              \/ \E id \in DOMAIN resources' : found' = [found EXCEPT ![r] = id]
  <1> USE DEF Set, Wrote, Fault, requestVars, worldVars, handlerVars
  <1>1. CASE Check(r)
    <2>1. CASE Fetch(r)
      <3>1. PICK ids \in [Consumed(job[r]) -> DOMAIN resources] :
              used' = [used EXCEPT ![r] = {ids[alias] : alias \in Consumed(job[r])}]
        BY <2>1 DEF Fetch
      <3>2. {ids[alias] : alias \in Consumed(job[r])} \in SUBSET (DOMAIN resources')
        BY <2>1 DEF Fetch
      <3> QED BY <2>1, <3>1, <3>2 DEF Fetch
    <2>2. CASE ~Fetch(r)
      BY <1>1, <2>2, ZenonT(30) DEF Check, Reject, RejectWithoutEnvironment, Accept, MeetRequirements,
                FailRequirements, LookUpClass, MissClass, FetchMissing, FetchFails,
                LookUpBalancer, MissBalancer
    <2> QED BY <2>1, <2>2
  <1>2. CASE WriteCluster(r)
    BY <1>2 DEF WriteCluster, WriteWorkload, WriteIngress, WriteFails, WriteConflicts, WriteEnds
  <1>3. CASE UpdateFasit(r)
    <2>1. CASE Create(r)
      BY <2>1, CreatedGrows DEF Create, Expose
    <2>2. CASE Update(r)
      BY <2>2, UpdatedGrows DEF Update, Expose
    <2>3. CASE ~Create(r) /\ ~Update(r)
      BY <1>3, <2>3 DEF UpdateFasit, FindExposed, FindNothing, FindFails, Matching,
                ExposeFails, Register, RegisterFails
    <2> QED BY <2>1, <2>2, <2>3
  <1>4. CASE Report(r)
    BY <1>4 DEF Report, Notify, NotifyPanics, SendEvent, Respond
  <1> QED BY <1>1, <1>2, <1>3, <1>4 DEF Step

LEMMA StepIdsOK ==
    ASSUME TypeOK, \A q \in Requests : Course(q), NEW r \in Requests, Step(r), Grows
    PROVE  IdsOK'
  <1>1. IdsOK
    BY TypeInParts
  <1>2. DOMAIN resources \subseteq DOMAIN resources'
    BY DEF Grows
  <1>3. used' \in [Requests -> SUBSET (DOMAIN resources')]
    BY <1>1, <1>2, IdsChange DEF IdsOK
  <1>4. exposed' \in [Requests -> Seq(DOMAIN resources')]
    <2>1. \A q \in Requests : exposed[q] \in Seq(DOMAIN resources')
      BY <1>1, <1>2, SeqMonotonic DEF IdsOK
    <2>2. \A id \in DOMAIN resources' : Append(exposed[r], id) \in Seq(DOMAIN resources')
      BY <2>1, AppendProperties
    <2>3. exposed \in [Requests -> Seq(DOMAIN resources')]
      BY <1>1, <2>1 DEF IdsOK
    <2>4. \/ UNCHANGED exposed
          \/ \E id \in DOMAIN resources' :
               exposed' = [exposed EXCEPT ![r] = Append(exposed[r], id)]
      BY IdsChange
    <2> DEFINE S == Seq(DOMAIN resources')
    <2> HIDE DEF S
    <2> QED BY <2>2, <2>3, <2>4 DEF S
  <1>5. found' \in [Requests -> {0} \cup DOMAIN resources']
    BY <1>1, <1>2, IdsChange DEF IdsOK
  <1> QED BY <1>3, <1>4, <1>5 DEF IdsOK

LEMMA OthersIdsOK ==
    ASSUME TypeOK, [Next]_vars, \A r \in Requests : ~Step(r)
    PROVE  IdsOK'
  <1>1. UNCHANGED <<worldVars, handlerVars>>
    BY DEF Next, ComeIn, Produce, ProduceBadly, Crash, vars
  <1> QED BY <1>1 DEF TypeOK, IdsOK, worldVars, handlerVars

LEMMA RegisteredIsKnown ==
    ASSUME TypeOK, NEW r \in Requests
    PROVE  [request |-> r, used |-> used[r], exposed |-> exposed[r]] \in Instance
  BY DEF TypeOK, Instance

LEMMA NextFasitOK ==
    ASSUME TypeOK, [Next]_vars, Grows
    PROVE  FasitOK'
  <1>1. Instance \subseteq Instance'
    <2>1. Seq(DOMAIN resources) \subseteq Seq(DOMAIN resources')
      BY SeqMonotonic DEF Grows
    <2>2. SUBSET (DOMAIN resources) \subseteq SUBSET (DOMAIN resources')
      BY DEF Grows
    <2> QED BY <2>1, <2>2 DEF Instance
  <1>2. instances \in Seq(Instance)
    BY DEF TypeOK
  <1>3. instances' \in Seq(Instance)
    <2>1. CASE UNCHANGED instances
      BY <1>2, <2>1
    <2>2. ASSUME NEW r \in Requests, instances' = Registered(r)
          PROVE  instances' \in Seq(Instance)
      BY <1>2, <2>2, RegisteredIsKnown, AppendProperties DEF Registered
    <2> QED BY <2>1, <2>2, FasitChanges, OthersLeaveFasit DEF worldVars
  <1>4. instances' \in Seq(Instance')
    BY <1>1, <1>3, SeqMonotonic
  <1>5. resources' \in Seq(Resource)
    BY DEF Grows
  <1> QED BY <1>4, <1>5 DEF FasitOK, Resource

\* What a step of r does to the events.
LEMMA EventsChange ==
    ASSUME NEW r \in Requests, Step(r)
    PROVE  UNCHANGED eventVars \/ SendEvent(r)
  <1>1. CASE Check(r)
    BY <1>1, ZenonT(30) DEF Check, Reject, RejectWithoutEnvironment, Accept, MeetRequirements,
                FailRequirements, LookUpClass, MissClass, Fetch, FetchMissing, FetchFails,
                LookUpBalancer, MissBalancer
  <1>2. CASE WriteCluster(r)
    BY <1>2 DEF WriteCluster, WriteWorkload, WriteIngress, WriteFails, WriteConflicts, WriteEnds
  <1>3. CASE UpdateFasit(r)
    BY <1>3 DEF UpdateFasit, FindExposed, FindNothing, FindFails, Create, Update, Expose,
                ExposeFails, Register, RegisterFails
  <1>4. CASE Report(r)
    BY <1>4 DEF Report, Notify, NotifyPanics, SendEvent, Respond
  <1> QED BY <1>1, <1>2, <1>3, <1>4 DEF Step

\* What a step does to the events of one pod, and to the topic.
LEMMA NextEvents ==
    ASSUME [Next]_vars
    PROVE  \/ UNCHANGED eventVars
           \/ \E r \in Requests : pc[r] = "event" /\ SendEvent(r)
           \/ \E p \in Pods : \/ Take(p) \/ Deliver(p) \/ DeliverAgain(p)
                              \/ DeliveryFails(p) \/ LoseEvents(p)
  <1>1. ASSUME NEW r \in Requests, NEW j \in Jobs, ComeIn(r, j)
        PROVE  UNCHANGED eventVars
    BY <1>1 DEF ComeIn
  <1> QED BY <1>1, EventsChange DEF Next, SendEvent, Produce, ProduceBadly, Crash, vars

LEMMA EventSentIsEvent ==
    ASSUME TypeOK, NEW p \in Pods, sending[p] # NoEvent
    PROVE  sending[p] \in Events
  BY DEF TypeOK, EventsTypeOK

LEMMA NextEventsOK ==
    ASSUME TypeOK, [Next]_vars
    PROVE  EventsTypeOK'
  <1> USE DEF EventsTypeOK
  <1>0. EventsTypeOK
    BY DEF TypeOK
  <1>1. CASE UNCHANGED eventVars
    BY <1>0, <1>1 DEF eventVars
  <1>2. ASSUME NEW r \in Requests, SendEvent(r)
        PROVE  EventsTypeOK'
    <2>1. r \in Events /\ pod[r] \in Pods /\ Send(pod[r], r)
      BY <1>2, RequestAssumption DEF SendEvent, TypeOK
    <2>2. /\ Append(queue[pod[r]], r) \in Seq(Events)
          /\ Len(Append(queue[pod[r]], r)) = Len(queue[pod[r]]) + 1
          /\ Len(queue[pod[r]]) \in Nat
      BY <1>0, <2>1, AppendProperties, LenProperties
    <2> QED BY <1>0, <2>1, <2>2, CapacityAssumption DEF Send
  <1>3. ASSUME NEW p \in Pods, Take(p)
        PROVE  EventsTypeOK'
    <2>1. queue[p] \in Seq(Events) /\ queue[p] # <<>>
      BY <1>0, <1>3 DEF Take
    <2>2. /\ Head(queue[p]) \in Events /\ Tail(queue[p]) \in Seq(Events)
          /\ Len(Tail(queue[p])) = Len(queue[p]) - 1 /\ Len(queue[p]) \in Nat
      BY <2>1, HeadTailProperties, LenProperties
    <2> QED BY <1>0, <1>3, <2>2, CapacityAssumption DEF Take
  <1>4. ASSUME NEW p \in Pods, Deliver(p) \/ DeliverAgain(p) \/ DeliveryFails(p)
        PROVE  EventsTypeOK'
    <2>1. sending[p] \in Events /\ Append(topic, sending[p]) \in Seq(Events)
      BY <1>0, <1>4, EventSentIsEvent, AppendProperties DEF Deliver, DeliverAgain, DeliveryFails
    <2> QED BY <1>0, <1>4, <2>1 DEF Deliver, DeliverAgain, DeliveryFails
  <1>5. ASSUME NEW p \in Pods, LoseEvents(p)
        PROVE  EventsTypeOK'
    <2>1. {queue[p][i] : i \in DOMAIN queue[p]} \subseteq Events
      BY <1>0, LenProperties, ElementOfSeq
    <2>2. <<>> \in Seq(Events) /\ Len(<<>>) = 0
      BY EmptySeq
    <2> QED BY <1>0, <1>5, <2>1, <2>2, CapacityAssumption DEF LoseEvents
  <1> QED BY <1>1, <1>2, <1>3, <1>4, <1>5, NextEvents

-------------------------------------------------------------------------------
\* The course of a request, step by step.

LEMMA RestsOnCourse ==
    ASSUME NEW r \in Requests, Course(r), Rests(r) \/ Dies(r)
    PROVE  Course(r)'
  <1>1. CASE Rests(r)
    BY <1>1 DEF Rests, Course, Exposed, WroteCluster, NeedsFasit
  <1>2. CASE Dies(r)
    BY <1>2 DEF Dies, Course, Exposed, Exposes, Reporting, Looking, handlerVars
  <1> QED BY <1>1, <1>2

LEMMA ComesInOnCourse ==
    ASSUME TypeOK, NEW r \in Requests, NEW j \in Jobs, Course(r), ComeIn(r, j)
    PROVE  Course(r)'
  BY DEF TypeOK, ComeIn, Set, Course, Exposed, Exposes, Reporting, Looking, handlerVars

LEMMA StepOnCourse ==
    ASSUME TypeOK, NEW r \in Requests, Course(r), Step(r)
    PROVE  Course(r)'
  <1> USE DEF Course, WroteCluster, NeedsFasit, Looking, Exposes, Exposed, Reporting
  <1>0. /\ pc \in [Requests -> Pcs] /\ answer \in [Requests -> {0, 200, 400, 401, 500}]
        /\ wrote \in [Requests -> SUBSET {"workload", "ingress", "fasit"}]
        /\ found \in [Requests -> {0} \cup DOMAIN resources]
        /\ exposed \in [Requests -> Seq(DOMAIN resources)]
    BY DEF TypeOK
  <1>1. CASE Check(r)
    <2> USE DEF Goto, Answer, Set, Fault, Missed,
                requestVars, worldVars, handlerVars, historyVars, boundVars
    <2>1. CASE Reject(r) \/ RejectWithoutEnvironment(r)
      BY <1>0, <2>1 DEF Reject, RejectWithoutEnvironment
    <2>2. CASE Accept(r)
      BY <1>0, <2>2 DEF Accept
    <2>3. CASE MeetRequirements(r) \/ FailRequirements(r)
      BY <1>0, <2>3 DEF MeetRequirements, FailRequirements
    <2>4. CASE LookUpClass(r) \/ MissClass(r)
      BY <1>0, <2>4 DEF LookUpClass, MissClass
    <2>5. CASE Fetch(r) \/ FetchMissing(r) \/ FetchFails(r)
      BY <1>0, <2>5, SMTT(30) DEF Fetch, FetchMissing, FetchFails
    <2>6. CASE LookUpBalancer(r) \/ MissBalancer(r)
      BY <1>0, <2>6 DEF LookUpBalancer, MissBalancer
    <2> QED BY <1>1, <2>1, <2>2, <2>3, <2>4, <2>5, <2>6 DEF Check
  <1>2. CASE WriteCluster(r)
    <2> USE DEF Goto, Answer, Wrote, Fault,
                requestVars, worldVars, handlerVars, historyVars, boundVars
    <2>0. /\ AfterCluster(job[r]) \in {"sensu", "register", "expose"}
          /\ NeedsFasit(r) <=> AfterCluster(job[r]) \in {"register", "expose"}
          /\ AfterCluster(job[r]) = "register" => Len(job[r].exposed) = 0
          /\ AfterCluster(job[r]) = "expose" => 0 < Len(job[r].exposed)
      BY JobsAreJobs, EmptySeq DEF AfterCluster
    <2>1. CASE WriteWorkload(r)
      BY <1>0, <2>0, <2>1, EmptySeq DEF WriteWorkload
    <2>2. CASE WriteIngress(r)
      BY <1>0, <2>0, <2>2, EmptySeq DEF WriteIngress
    <2>3. CASE WriteEnds(r)
      BY <1>0, <2>3 DEF WriteEnds
    <2> QED BY <1>2, <2>1, <2>2, <2>3 DEF WriteCluster, WriteFails, WriteConflicts
  <1>3. CASE UpdateFasit(r)
    <2> USE DEF Goto, Answer, Set, Wrote, Fault,
                requestVars, worldVars, handlerVars, historyVars, boundVars
    <2>1. CASE FindExposed(r) \/ FindNothing(r) \/ FindFails(r)
      <3>1. \A i \in DOMAIN resources : i # 0
        BY LenProperties DEF TypeOK
      <3> QED BY <1>0, <2>1, <3>1, SMTT(30) DEF FindExposed, FindNothing, FindFails, Matching
    <2>2. ASSUME NEW id \in DOMAIN resources', Expose(r, id), Wrote(r, "fasit"),
                 pc[r] \in {"create", "update"}
          PROVE  Course(r)'
      <3>1. /\ exposed'[r] = Append(exposed[r], id)
            /\ Len(exposed'[r]) = Len(exposed[r]) + 1
            /\ Len(exposed[r]) \in Nat /\ Len(job[r].exposed) \in Nat
            /\ Len(exposed[r]) < Len(job[r].exposed)
        BY <1>0, <2>2, ExposingIsAlias, AppendProperties DEF Expose
      <3> QED BY <1>0, <2>2, <3>1 DEF Expose
    <2>3. CASE Create(r)
      BY <2>2, <2>3, CreatedGrows DEF Create
    <2>4. CASE Update(r)
      BY <2>2, <2>4, UpdatedGrows DEF Update
    <2>5. CASE ExposeFails(r) \/ RegisterFails(r)
      BY <1>0, <2>5 DEF ExposeFails, RegisterFails
    <2>6. CASE Register(r)
      BY <1>0, <2>6 DEF Register
    <2> QED BY <1>3, <2>1, <2>3, <2>4, <2>5, <2>6 DEF UpdateFasit
  <1>4. CASE Report(r)
    <2> USE DEF Goto, Answer, Set, Fault, worldVars, handlerVars, historyVars
    <2> QED BY <1>0, <1>4 DEF Report, Notify, NotifyPanics, SendEvent, Respond
  <1> QED BY <1>1, <1>2, <1>3, <1>4 DEF Step

-------------------------------------------------------------------------------
\* Type correctness.

OnCourse == \A r \in Requests : Course(r)

LEMMA FunctionIsSeq ==
    ASSUME NEW S, NEW n \in Nat, NEW f \in [1 .. n -> S]
    PROVE  f \in Seq(S)
  <1>1. [i \in 1 .. n |-> f[i]] \in Seq(S)
    OBVIOUS
  <1>2. f = [i \in 1 .. n |-> f[i]]
    OBVIOUS
  <1> QED BY <1>1, <1>2, Zenon

LEMMA InitTyped == Init => TypeOK
  <1> SUFFICES ASSUME Init PROVE TypeOK
    OBVIOUS
  <1> USE DEF Init
  <1>1. EventsTypeOK
    BY EmptySeq, CapacityAssumption DEF EventsInit, EventsTypeOK
  <1>2. RequestsOK /\ KnownOK /\ BoundsOK /\ HistoryOK
    BY JobAssumption, FaultAssumption DEF RequestsOK, KnownOK, BoundsOK, HistoryOK, Pcs
  <1>3. ClusterOK
    BY DEF ClusterOK
  <1>4. FasitOK
    <2>1. PICK c \in Catalogues :
            resources = [i \in DOMAIN c |-> [alias |-> c[i], author |-> Earlier, class |-> TRUE]]
      OBVIOUS
    <2>2. /\ c \in Seq(Aliases) /\ Len(c) \in Nat /\ DOMAIN c = 1 .. Len(c)
          /\ \A i \in 1 .. Len(c) : c[i] \in Aliases
      BY CatalogueAssumption, LenProperties, ElementOfSeq
    <2>3. resources \in [1 .. Len(c) -> Resource]
      BY <2>1, <2>2 DEF Resource
    <2>4. resources \in Seq(Resource)
      BY <2>2, <2>3, FunctionIsSeq
    <2> QED BY <2>4, EmptySeq DEF FasitOK
  <1>5. IdsOK
    BY EmptySeq DEF IdsOK
  <1> QED BY <1>1, <1>2, <1>3, <1>4, <1>5, TypeInParts DEF ControlOK

LEMMA InitOnCourse == Init => OnCourse
  BY EmptySeq DEF Init, OnCourse, Course, Looking, Exposes, Exposed, Reporting

LEMMA NextTyped == TypeOK /\ OnCourse /\ [Next]_vars => TypeOK'
  <1> SUFFICES ASSUME TypeOK, OnCourse, [Next]_vars PROVE TypeOK'
    OBVIOUS
  <1>1. Grows
    BY FasitGrows DEF OnCourse
  <1>2. ControlOK'
    BY StepControlOK, OthersControlOK
  <1>3. IdsOK'
    BY <1>1, StepIdsOK, OthersIdsOK DEF OnCourse
  <1> QED BY <1>1, <1>2, <1>3, NextFasitOK, NextEventsOK, TypeFromPartsAfterwards

LEMMA NextOnCourse == TypeOK /\ OnCourse /\ [Next]_vars => OnCourse'
  <1> SUFFICES ASSUME TypeOK, OnCourse, [Next]_vars, NEW r \in Requests PROVE Course(r)'
    BY DEF OnCourse
  <1> QED BY WhatHappens, RestsOnCourse, ComesInOnCourse, StepOnCourse DEF OnCourse

\* Every variable stays in its range and every id, in a handler or an application
\* instance, is of a resource Fasit has: an id is only used after the lookup or the
\* call that gave it, and Fasit forgets none.
THEOREM TypeCorrect == Spec => []TypeOK
  <1>1. Init => TypeOK /\ OnCourse
    BY InitTyped, InitOnCourse
  <1>2. TypeOK /\ OnCourse /\ [Next]_vars => TypeOK' /\ OnCourse'
    BY NextTyped, NextOnCourse
  <1> QED BY <1>1, <1>2, PTL DEF Spec

LEMMA CourseCorrect == Spec => []OnCourse
  <1>1. Init => TypeOK /\ OnCourse
    BY InitTyped, InitOnCourse
  <1>2. TypeOK /\ OnCourse /\ [Next]_vars => TypeOK' /\ OnCourse'
    BY NextTyped, NextOnCourse
  <1> QED BY <1>1, <1>2, PTL DEF Spec

-------------------------------------------------------------------------------
\* What a handler knows.

AllInformed == \A r \in Requests : Informed(r)

LEMMA InitInformed == Init => AllInformed
  BY DEF Init, AllInformed, Informed, Looking, Going, Exposes, Reporting

LEMMA RestsInformed ==
    ASSUME [Next]_vars, NEW r \in Requests, Course(r), Informed(r), Rests(r) \/ Dies(r)
    PROVE  Informed(r)'
  <1>0. UNCHANGED balanced
    BY StepKeeps, OthersLeaveFasit DEF worldVars
  <1>1. CASE Rests(r)
    BY <1>0, <1>1 DEF Rests, Informed, Going, NeedsFasit
  <1>2. CASE Dies(r)
    BY <1>0, <1>2 DEF Dies, Informed, Going, Course, Exposes, Reporting, Looking, handlerVars
  <1> QED BY <1>1, <1>2

LEMMA ComesInInformed ==
    ASSUME TypeOK, NEW r \in Requests, NEW j \in Jobs, Course(r), Informed(r), ComeIn(r, j)
    PROVE  Informed(r)'
  BY DEF TypeOK, ComeIn, Set, Course, Informed, Going, Exposes, Reporting, Looking,
         handlerVars, worldVars

LEMMA StepInformed ==
    ASSUME TypeOK, NEW r \in Requests, Course(r), Informed(r), Step(r)
    PROVE  Informed(r)'
  <1> USE DEF Informed, NeedsFasit, Looking, Exposes, Going, Reporting
  <1>0. /\ pc \in [Requests -> Pcs] /\ answer \in [Requests -> {0, 200, 400, 401, 500}]
        /\ missed \in [Requests -> SUBSET {"class", "balancer"}]
        /\ class \in [Requests -> BOOLEAN] /\ hosts \in [Requests -> BOOLEAN]
        /\ balanced \in BOOLEAN
        /\ job[r].skipFasit \in BOOLEAN
    BY JobsAreJobs, StepMoves DEF TypeOK
  <1>1. answer[r] = 0
    BY <1>0, StepMoves DEF Course
  <1>2. CASE Check(r)
    <2> USE DEF Goto, Answer, Set, Fault, Missed,
                requestVars, worldVars, handlerVars, historyVars, boundVars
    <2>1. CASE Reject(r) \/ RejectWithoutEnvironment(r)
      BY <1>0, <2>1 DEF Reject, RejectWithoutEnvironment
    <2>2. CASE Accept(r)
      BY <1>0, <2>2 DEF Accept
    <2>3. CASE MeetRequirements(r) \/ FailRequirements(r)
      BY <1>0, <2>3 DEF MeetRequirements, FailRequirements
    <2>4. CASE LookUpClass(r) \/ MissClass(r)
      BY <1>0, <2>4 DEF LookUpClass, MissClass
    <2>5. CASE Fetch(r) \/ FetchMissing(r) \/ FetchFails(r)
      BY <1>0, <2>5 DEF Fetch, FetchMissing, FetchFails
    <2>6. CASE LookUpBalancer(r) \/ MissBalancer(r)
      BY <1>0, <2>6 DEF LookUpBalancer, MissBalancer, Course
    <2> QED BY <1>2, <2>1, <2>2, <2>3, <2>4, <2>5, <2>6 DEF Check
  <1>3. CASE WriteCluster(r)
    <2> USE DEF Goto, Answer, Wrote, Fault, AfterCluster,
                requestVars, worldVars, handlerVars, historyVars, boundVars
    <2>1. CASE WriteWorkload(r)
      BY <1>0, <2>1 DEF WriteWorkload
    <2>2. CASE WriteIngress(r)
      BY <1>0, <2>2 DEF WriteIngress
    <2>3. CASE WriteEnds(r)
      BY <1>0, <1>1, <2>3 DEF WriteEnds
    <2> QED BY <1>3, <2>1, <2>2, <2>3 DEF WriteCluster, WriteFails, WriteConflicts
  <1>4. CASE UpdateFasit(r)
    <2> USE DEF Goto, Answer, Set, Wrote, Fault,
                requestVars, worldVars, handlerVars, historyVars, boundVars
    <2>1. CASE FindExposed(r) \/ FindNothing(r) \/ FindFails(r)
      BY <1>0, <2>1 DEF FindExposed, FindNothing, FindFails
    <2>2. CASE Create(r) \/ Update(r)
      BY <1>0, <2>2 DEF Create, Update, Expose
    <2>3. CASE Register(r) \/ ExposeFails(r) \/ RegisterFails(r)
      BY <1>0, <2>3 DEF Register, ExposeFails, RegisterFails
    <2> QED BY <1>4, <2>1, <2>2, <2>3 DEF UpdateFasit
  <1>5. CASE Report(r)
    BY <1>0, <1>5 DEF Report, Notify, NotifyPanics, SendEvent, Respond, Goto, Answer, Set, Fault,
                      worldVars, handlerVars, historyVars
  <1> QED BY <1>2, <1>3, <1>4, <1>5 DEF Step

LEMMA NextInformed == TypeOK /\ OnCourse /\ AllInformed /\ [Next]_vars => AllInformed'
  <1> SUFFICES ASSUME TypeOK, OnCourse, AllInformed, [Next]_vars, NEW r \in Requests
               PROVE  Informed(r)'
    BY DEF AllInformed
  <1> QED BY WhatHappens, RestsInformed, ComesInInformed, StepInformed DEF OnCourse, AllInformed

LEMMA InformedCorrect == Spec => []AllInformed
  <1> QED BY InitInformed, NextInformed, TypeCorrect, CourseCorrect, PTL DEF Spec

\* A resource of Fasit loses its environment class only where an update for every
\* zone follows a missed lookup of the class: no other call of the handler writes
\* the scope of a resource that is there, whoever else works on it (generateScope).
THEOREM ClassesCorrect == Spec => ClassesAreLostOnlyToMissedLookups
  <1> DEFINE Kept == \A i \in DOMAIN resources : resources[i].class /\ ~resources'[i].class =>
                       \E r \in Requests : /\ pc[r] = "update" /\ found[r] = i
                                           /\ job[r].allZones /\ "class" \in missed[r]
  <1>1. TypeOK /\ OnCourse /\ AllInformed /\ [Next]_vars => [Kept]_vars
    <2> SUFFICES ASSUME TypeOK, OnCourse, AllInformed, [Next]_vars PROVE Kept
      OBVIOUS
    <2>1. CASE UNCHANGED resources
      BY <2>1
    <2>2. ASSUME NEW r \in Requests, pc[r] = "create", resources' = Created(r)
          PROVE  Kept
      BY <2>2, CreatedGrows DEF OnCourse
    <2>3. ASSUME NEW r \in Requests, pc[r] = "update", resources' = Updated(r)
          PROVE  Kept
      <3>1. class[r] \/ "class" \in missed[r]
        BY <2>3 DEF AllInformed, Informed, OnCourse, Course, Exposes
      <3> QED BY <2>3, <3>1, UpdatedGrows DEF OnCourse
    <2> QED BY <2>1, <2>2, <2>3, FasitChanges, OthersLeaveFasit DEF worldVars
  <1> QED BY <1>1, TypeCorrect, CourseCorrect, InformedCorrect, PTL
          DEF Spec, ClassesAreLostOnlyToMissedLookups

-------------------------------------------------------------------------------
\* No event is lost, but dropped, and none comes from nowhere.

LEMMA Queues ==
    ASSUME TypeOK, NEW p \in Pods
    PROVE  /\ queue[p] \in Seq(Events)
           /\ Len(queue[p]) \in Nat
           /\ DOMAIN queue[p] = 1 .. Len(queue[p])
  BY LenProperties DEF TypeOK, EventsTypeOK

\* What is in the channel of p's after a step.
LEMMA TakeMoves ==
    ASSUME TypeOK, NEW p \in Pods, Take(p)
    PROVE  /\ sending[p] = NoEvent /\ sending'[p] = queue[p][1] /\ 1 \in DOMAIN queue[p]
           /\ DOMAIN queue'[p] = 1 .. Len(queue[p]) - 1
           /\ Len(queue'[p]) = Len(queue[p]) - 1
           /\ \A i \in DOMAIN queue'[p] : queue'[p][i] = queue[p][i + 1]
           /\ \A o \in Pods \ {p} : queue'[o] = queue[o] /\ sending'[o] = sending[o]
           /\ UNCHANGED <<topic, dropped>>
  <1>1. queue[p] # <<>> /\ queue'[p] = Tail(queue[p]) /\ sending'[p] = Head(queue[p])
    BY DEF Take, TypeOK, EventsTypeOK
  <1>2. /\ Len(queue[p]) \in Nat \ {0}
        /\ DOMAIN queue[p] = 1 .. Len(queue[p])
    BY <1>1, Queues, EmptySeq
  <1>3. /\ Tail(queue[p]) \in Seq(Events) /\ Len(Tail(queue[p])) = Len(queue[p]) - 1
        /\ \A i \in 1 .. Len(queue[p]) - 1 : Tail(queue[p])[i] = queue[p][i + 1]
    BY <1>1, Queues, HeadTailProperties
  <1>4. DOMAIN Tail(queue[p]) = 1 .. Len(queue[p]) - 1
    BY <1>3, LenProperties
  <1>5. Head(queue[p]) = queue[p][1]
    BY <1>1, Queues
  <1> QED BY <1>1, <1>2, <1>3, <1>4, <1>5 DEF Take, TypeOK, EventsTypeOK

LEMMA SendMoves ==
    ASSUME TypeOK, NEW p \in Pods, NEW e \in Events, Send(p, e)
    PROVE  /\ Len(queue'[p]) = Len(queue[p]) + 1
           /\ DOMAIN queue'[p] = 1 .. Len(queue[p]) + 1
           /\ queue'[p][Len(queue[p]) + 1] = e
           /\ \A i \in 1 .. Len(queue[p]) : queue'[p][i] = queue[p][i]
           /\ \A o \in Pods \ {p} : queue'[o] = queue[o]
           /\ UNCHANGED <<sending, topic, dropped>>
  <1>1. queue'[p] = Append(queue[p], e)
    BY DEF Send, TypeOK, EventsTypeOK
  <1>2. /\ Append(queue[p], e) \in Seq(Events)
        /\ Len(Append(queue[p], e)) = Len(queue[p]) + 1
        /\ \A i \in 1 .. Len(queue[p]) : Append(queue[p], e)[i] = queue[p][i]
        /\ Append(queue[p], e)[Len(queue[p]) + 1] = e
    BY Queues, AppendProperties
  <1>3. DOMAIN Append(queue[p], e) = 1 .. Len(queue[p]) + 1
    BY <1>2, LenProperties
  <1> QED BY <1>1, <1>2, <1>3 DEF Send, TypeOK, EventsTypeOK

\* The topic after it has got one more.
LEMMA TopicGrows ==
    ASSUME TypeOK, NEW e \in Events, topic' = Append(topic, e)
    PROVE  /\ Len(topic) \in Nat /\ DOMAIN topic = 1 .. Len(topic)
           /\ Len(topic') = Len(topic) + 1
           /\ DOMAIN topic' = 1 .. Len(topic) + 1
           /\ topic'[Len(topic) + 1] = e
           /\ \A i \in 1 .. Len(topic) : topic'[i] = topic[i]
  <1>1. topic \in Seq(Events)
    BY DEF TypeOK, EventsTypeOK
  <1>2. /\ Len(topic) \in Nat /\ DOMAIN topic = 1 .. Len(topic)
        /\ topic' \in Seq(Events)
        /\ Len(topic') = Len(topic) + 1
        /\ \A i \in 1 .. Len(topic) : topic'[i] = topic[i]
        /\ topic'[Len(topic) + 1] = e
    BY <1>1, AppendProperties, LenProperties
  <1> QED BY <1>2, LenProperties

LEMMA TakenWereUnderway ==
    ASSUME TypeOK, NEW p \in Pods, Take(p), NEW f \in Requests, Underway(f)'
    PROVE  Underway(f)
  <1> USE DEF Underway
  <1>1. PICK o \in Pods : sending'[o] = f \/ \E i \in DOMAIN queue'[o] : queue'[o][i] = f
    OBVIOUS
  <1>2. CASE o # p
    BY <1>1, <1>2, TakeMoves
  <1>3. CASE o = p /\ sending'[p] = f
    BY <1>3, TakeMoves
  <1>4. ASSUME o = p, NEW i \in DOMAIN queue'[p], queue'[p][i] = f
        PROVE  Underway(f)
    <2>1. i + 1 \in DOMAIN queue[p] /\ queue[p][i + 1] = f
      BY <1>4, TakeMoves, Queues
    <2> QED BY <2>1
  <1> QED BY <1>1, <1>2, <1>3, <1>4

LEMMA SentIsUnderway ==
    ASSUME TypeOK, NEW p \in Pods, NEW e \in Events, Send(p, e),
           NEW f \in Requests \ {e}, Underway(f)'
    PROVE  Underway(f)
  <1> USE DEF Underway
  <1>1. PICK o \in Pods : sending'[o] = f \/ \E i \in DOMAIN queue'[o] : queue'[o][i] = f
    OBVIOUS
  <1>2. CASE o # p
    BY <1>1, <1>2, SendMoves
  <1>3. CASE o = p /\ sending'[p] = f
    BY <1>3, SendMoves
  <1>4. ASSUME o = p, NEW i \in DOMAIN queue'[p], queue'[p][i] = f
        PROVE  Underway(f)
    <2>1. i \in 1 .. Len(queue[p])
      BY <1>4, SendMoves, Queues
    <2> QED BY <1>4, <2>1, SendMoves, Queues
  <1> QED BY <1>1, <1>2, <1>3, <1>4

LEMMA EventsAreKept ==
    ASSUME TypeOK, [Next]_vars, NEW e \in Requests
    PROVE  /\ HasEvent(e) => HasEvent(e)'
           /\ HasEvent(e)' => HasEvent(e) \/ (pc[e] = "event" /\ SendEvent(e))
  <1> USE DEF HasEvent, Underway, InTopic
  <1>1. CASE UNCHANGED eventVars
    BY <1>1 DEF eventVars
  <1>2. ASSUME NEW r \in Requests, pc[r] = "event", SendEvent(r)
        PROVE  /\ HasEvent(e) => HasEvent(e)'
               /\ HasEvent(e)' => HasEvent(e) \/ (pc[e] = "event" /\ SendEvent(e))
    <2>1. pod[r] \in Pods /\ r \in Events /\ Send(pod[r], r)
      BY <1>2, RequestAssumption DEF SendEvent, TypeOK
    <2>2. CASE e = r
      BY <1>2, <2>1, <2>2, SendMoves, Queues
    <2>3. CASE e # r
      <3>1. Underway(e) => Underway(e)'
        BY <2>1, SendMoves, Queues
      <3>2. Underway(e)' => Underway(e)
        BY <2>1, <2>3, SentIsUnderway
      <3> QED BY <2>1, <3>1, <3>2, SendMoves
    <2> QED BY <2>2, <2>3
  <1>3. ASSUME NEW p \in Pods, Take(p)
        PROVE  HasEvent(e)' <=> HasEvent(e)
    <2>1. Underway(e)' => Underway(e)
      BY <1>3, TakenWereUnderway
    <2>2. ASSUME Underway(e)
          PROVE  Underway(e)'
      <3>1. CASE \E o \in Pods \ {p} : sending[o] = e \/ \E i \in DOMAIN queue[o] : queue[o][i] = e
        BY <1>3, <3>1, TakeMoves
      <3>2. ASSUME NEW i \in DOMAIN queue[p], queue[p][i] = e
            PROVE  Underway(e)'
        <4>1. CASE i = 1
          BY <1>3, <3>2, <4>1, TakeMoves
        <4>2. CASE i # 1
          <5>1. i - 1 \in DOMAIN queue'[p] /\ (i - 1) + 1 = i
            BY <1>3, <3>2, <4>2, TakeMoves, Queues
          <5>2. queue'[p][i - 1] = e
            BY <1>3, <3>2, <5>1, TakeMoves
          <5> QED BY <5>1, <5>2
        <4> QED BY <4>1, <4>2
      <3>3. sending[p] # e
        BY <1>3, TakeMoves, NoEventAssumption, RequestAssumption
      <3> QED BY <2>2, <3>1, <3>2, <3>3
    <2> QED BY <1>3, <2>1, <2>2, TakeMoves
  <1>4. ASSUME NEW p \in Pods, Deliver(p) \/ DeliverAgain(p) \/ DeliveryFails(p)
        PROVE  HasEvent(e)' <=> HasEvent(e)
    <2>1. sending[p] \in Events
      BY <1>4, EventSentIsEvent DEF Deliver, DeliverAgain, DeliveryFails
    <2>2. sending \in [Pods -> Events \cup {NoEvent}] /\ e # NoEvent
      BY NoEventAssumption, RequestAssumption DEF TypeOK, EventsTypeOK
    <2>3. CASE Deliver(p)
      BY <2>1, <2>2, <2>3, TopicGrows DEF Deliver
    <2>4. CASE DeliverAgain(p)
      BY <2>1, <2>2, <2>4, TopicGrows DEF DeliverAgain
    <2>5. CASE DeliveryFails(p)
      BY <2>1, <2>2, <2>5 DEF DeliveryFails
    <2> QED BY <1>4, <2>3, <2>4, <2>5
  <1>5. ASSUME NEW p \in Pods, LoseEvents(p)
        PROVE  HasEvent(e)' <=> HasEvent(e)
    <2>1. /\ sending \in [Pods -> Events \cup {NoEvent}] /\ e # NoEvent
          /\ queue \in [Pods -> Seq(Events)] /\ DOMAIN <<>> = {}
      BY NoEventAssumption, RequestAssumption, EmptySeq DEF TypeOK, EventsTypeOK
    <2> QED BY <1>5, <2>1 DEF LoseEvents
  <1> QED BY <1>1, <1>2, <1>3, <1>4, <1>5, NextEvents

-------------------------------------------------------------------------------
\* Which systems know of a request.

AllHeard == \A r \in Requests : Heard(r)

LEMMA RegisteredIsThere ==
    ASSUME TypeOK, NEW r \in Requests, instances' = Registered(r)
    PROVE  /\ Len(instances') = Len(instances) + 1
           /\ DOMAIN instances' = 1 .. Len(instances) + 1
           /\ \A i \in 1 .. Len(instances) : instances'[i] = instances[i]
           /\ instances'[Len(instances) + 1] =
                [request |-> r, used |-> used[r], exposed |-> exposed[r]]
           /\ instances'[Len(instances) + 1].request = r
           /\ Len(instances) + 1 \in DOMAIN instances'
  <1> DEFINE new == [request |-> r, used |-> used[r], exposed |-> exposed[r]]
  <1>1. new \in Instance /\ instances' = Append(instances, new) /\ new.request = r
    BY RegisteredIsKnown DEF Registered
  <1> HIDE DEF new
  <1>2. /\ instances \in Seq(Instance) /\ Len(instances) \in Nat
        /\ instances' \in Seq(Instance)
        /\ Len(instances') = Len(instances) + 1
        /\ \A i \in 1 .. Len(instances) : instances'[i] = instances[i]
        /\ instances'[Len(instances) + 1] = new
    BY <1>1, AppendProperties, LenProperties DEF TypeOK
  <1>3. DOMAIN instances' = 1 .. Len(instances) + 1
    BY <1>2, LenProperties
  <1>4. new = [request |-> r, used |-> used[r], exposed |-> exposed[r]]
    BY DEF new
  <1>5. Len(instances) + 1 \in DOMAIN instances' /\ instances'[Len(instances) + 1].request = r
    BY <1>1, <1>2, <1>3
  <1> QED BY <1>2, <1>3, <1>4, <1>5

LEMMA RegisteredIsKnownOf ==
    ASSUME TypeOK, NEW r \in Requests, instances' = Registered(r)
    PROVE  RegisteredBy(r)'
  <1>1. /\ Len(instances) + 1 \in DOMAIN instances'
        /\ instances'[Len(instances) + 1].request = r
    BY RegisteredIsThere
  <1> QED BY <1>1 DEF RegisteredBy

LEMMA InstancesGrow ==
    ASSUME TypeOK, [Next]_vars
    PROVE  /\ Len(instances) \in Nat /\ DOMAIN instances = 1 .. Len(instances)
           /\ \/ UNCHANGED instances
              \/ \E r \in Requests :
                   /\ Step(r) /\ pc[r] = "register"
                   /\ Len(instances') = Len(instances) + 1
                   /\ DOMAIN instances' = 1 .. Len(instances) + 1
                   /\ \A i \in 1 .. Len(instances) : instances'[i] = instances[i]
                   /\ instances'[Len(instances) + 1] =
                        [request |-> r, used |-> used[r], exposed |-> exposed[r]]
  <1>1. /\ instances \in Seq(Instance)
        /\ Len(instances) \in Nat /\ DOMAIN instances = 1 .. Len(instances)
    BY LenProperties DEF TypeOK
  <1> QED BY <1>1, RegisteredIsThere, FasitChanges, OthersLeaveFasit DEF worldVars

\* A request comes to be registered by its own step only.
LEMMA RegisteredOnce ==
    ASSUME TypeOK, [Next]_vars, NEW r \in Requests
    PROVE  /\ RegisteredBy(r) => RegisteredBy(r)'
           /\ RegisteredBy(r)' => RegisteredBy(r) \/ (Step(r) /\ pc[r] = "register")
  <1>1. CASE UNCHANGED instances
    BY <1>1 DEF RegisteredBy
  <1>2. ASSUME NEW q \in Requests, Step(q), pc[q] = "register",
               DOMAIN instances' = 1 .. Len(instances) + 1,
               \A i \in 1 .. Len(instances) : instances'[i] = instances[i],
               instances'[Len(instances) + 1] =
                 [request |-> q, used |-> used[q], exposed |-> exposed[q]]
        PROVE  /\ RegisteredBy(r) => RegisteredBy(r)'
               /\ RegisteredBy(r)' => RegisteredBy(r) \/ (Step(r) /\ pc[r] = "register")
    BY <1>2, InstancesGrow DEF RegisteredBy
  <1> QED BY <1>1, <1>2, InstancesGrow

LEMMA RegisteringMovesOn ==
    ASSUME TypeOK, NEW r \in Requests, Step(r), pc[r] = "register"
    PROVE  /\ pc'[r] \in {"sensu", "answered"}
           /\ pc'[r] = "answered" => answer'[r] = 500
           /\ UNCHANGED eventVars
           /\ pc'[r] = "sensu" => instances' = Registered(r) /\ answer'[r] = answer[r]
  <1> USE DEF TypeOK, Goto, Answer
  <1>1. CASE Check(r)
    BY <1>1, ZenonT(30) DEF Check, Reject, RejectWithoutEnvironment, Accept, MeetRequirements,
                FailRequirements, LookUpClass, MissClass, Fetch, FetchMissing, FetchFails,
                LookUpBalancer, MissBalancer
  <1>2. CASE WriteCluster(r)
    BY <1>2 DEF WriteCluster, WriteWorkload, WriteIngress, WriteFails, WriteConflicts, WriteEnds
  <1>3. CASE UpdateFasit(r)
    BY <1>3 DEF UpdateFasit, FindExposed, FindNothing, FindFails, Create, Update,
                ExposeFails, Register, RegisterFails
  <1>4. CASE Report(r)
    BY <1>4 DEF Report, Notify, NotifyPanics, SendEvent, Respond
  <1> QED BY <1>1, <1>2, <1>3, <1>4 DEF Step

LEMMA SendingMovesOn ==
    ASSUME TypeOK, NEW r \in Requests, SendEvent(r)
    PROVE  pc'[r] = "respond" /\ answer'[r] = answer[r] /\ HasEvent(r)'
  <1>1. pod[r] \in Pods /\ r \in Events /\ Send(pod[r], r)
    BY RequestAssumption DEF SendEvent, TypeOK
  <1>2. Underway(r)'
    BY <1>1, SendMoves, Queues DEF Underway
  <1> QED BY <1>2 DEF SendEvent, Goto, TypeOK, HasEvent

LEMMA WroteStays ==
    ASSUME TypeOK, NEW r \in Requests, Step(r)
    PROVE  wrote[r] \subseteq wrote'[r]
  <1>1. wrote \in [Requests -> SUBSET {"workload", "ingress", "fasit"}]
    BY DEF TypeOK
  <1> QED BY <1>1, StepRemembers DEF Remembers

LEMMA InitHeard == Init => AllHeard
  <1> SUFFICES ASSUME Init, NEW r \in Requests PROVE Heard(r)
    BY DEF AllHeard
  <1>1. ~RegisteredBy(r)
    BY EmptySeq DEF Init, RegisteredBy
  <1>2. ~HasEvent(r)
    BY EmptySeq, NoEventAssumption, RequestAssumption
       DEF Init, EventsInit, HasEvent, Underway, InTopic
  <1> QED BY <1>1, <1>2 DEF Init, Heard, Reporting

\* While it does nothing, nobody hears anything of it.
LEMMA RestsHeard ==
    ASSUME TypeOK, [Next]_vars, NEW r \in Requests, Heard(r), Course(r),
           Rests(r) \/ Dies(r) \/ (\E j \in Jobs : ComeIn(r, j))
    PROVE  Heard(r)'
  <1>1. ~(Step(r) /\ pc[r] = "register") /\ ~(pc[r] = "event" /\ SendEvent(r))
    BY RegisteringMovesOn, SendingMovesOn DEF Rests, Dies, ComeIn
  <1>2. /\ RegisteredBy(r)' <=> RegisteredBy(r)
        /\ HasEvent(r)' <=> HasEvent(r)
    BY <1>1, RegisteredOnce, EventsAreKept
  <1>3. CASE Rests(r)
    BY <1>2, <1>3 DEF Rests, Heard, WroteCluster, NeedsFasit
  <1>4. CASE Dies(r)
    BY <1>2, <1>4 DEF Dies, Heard, WroteCluster, NeedsFasit, Course, Reporting
  <1>5. ASSUME NEW j \in Jobs, ComeIn(r, j)
        PROVE  Heard(r)'
    BY <1>2, <1>5 DEF TypeOK, ComeIn, Set, Heard, Reporting, Course
  <1> QED BY <1>3, <1>4, <1>5

LEMMA StepHeard ==
    ASSUME TypeOK, [Next]_vars, NEW r \in Requests, Heard(r), Course(r), Course(r)', Step(r)
    PROVE  Heard(r)'
  <1> USE DEF Heard, Reporting
  <1>0. /\ pc \in [Requests -> Pcs] /\ answer \in [Requests -> {0, 200, 400, 401, 500}]
        /\ answer[r] = 0 /\ UNCHANGED job
    BY StepMoves, StepKeeps DEF TypeOK, Course
  <1>1. CASE pc[r] = "register"
    <2>1. /\ WroteCluster(r) /\ WroteCluster(r)'
          /\ pc'[r] = "sensu" => RegisteredBy(r)'
      <3>1. WroteCluster(r)
        BY <1>1 DEF Course
      <3>2. WroteCluster(r)'
        BY <3>1, <1>0, WroteStays DEF WroteCluster
      <3>3. ASSUME pc'[r] = "sensu"
            PROVE  RegisteredBy(r)'
        <4>1. instances' = Registered(r)
          BY <1>1, <3>3, RegisteringMovesOn
        <4> QED BY <4>1, RegisteredIsKnownOf
      <3> QED BY <3>1, <3>2, <3>3
    <2>2. HasEvent(r)' <=> HasEvent(r)
      BY <1>1, RegisteringMovesOn DEF eventVars, HasEvent, Underway, InTopic
    <2> QED BY <1>0, <1>1, <2>1, <2>2, RegisteringMovesOn
  <1>2. CASE pc[r] # "register" /\ pc[r] \notin Reporting
    <2>1. ~RegisteredBy(r)' /\ ~HasEvent(r)'
      BY <1>0, <1>2, RegisteredOnce, EventsAreKept, StepMoves
    <2>2. pc'[r] # "respond" /\ answer'[r] # 200
          /\ (pc'[r] \in Reporting => ~NeedsFasit(r))
      <3> USE DEF Goto, Answer, Set, NeedsFasit
      <3>1. CASE Check(r)
        BY <1>0, <3>1, SMTT(30) DEF Check, Reject, RejectWithoutEnvironment, Accept, MeetRequirements,
                    FailRequirements, LookUpClass, MissClass, Fetch, FetchMissing, FetchFails,
                    LookUpBalancer, MissBalancer
      <3>2. CASE WriteCluster(r)
        BY <1>0, <3>2 DEF WriteCluster, WriteWorkload, WriteIngress, WriteFails, WriteConflicts,
                    WriteEnds, AfterCluster
      <3>3. CASE UpdateFasit(r)
        BY <1>0, <1>2, <3>3 DEF UpdateFasit, FindExposed, FindNothing, FindFails, Create, Update,
                    Expose, ExposeFails, Register, RegisterFails
      <3>4. CASE Report(r)
        BY <1>2, <3>4 DEF Report, Notify, NotifyPanics, SendEvent, Respond
      <3> QED BY <3>1, <3>2, <3>3, <3>4 DEF Step
    <2> QED BY <1>0, <2>1, <2>2 DEF NeedsFasit
  <1>3. CASE pc[r] \in Reporting
    <2>1. Report(r)
      <3>1. ~Check(r) /\ ~WriteCluster(r) /\ ~UpdateFasit(r)
        BY <1>3, CheckStarts, WriteStarts, UpdateStarts DEF Exposes, Looking
      <3> QED BY <3>1 DEF Step
    <2>2. /\ RegisteredBy(r)' <=> RegisteredBy(r)
          /\ WroteCluster(r) /\ WroteCluster(r)' /\ NeedsFasit(r)' = NeedsFasit(r)
      <3>1. UNCHANGED wrote /\ UNCHANGED instances
        BY <2>1 DEF Report, Notify, NotifyPanics, SendEvent, Respond, worldVars, historyVars
      <3>2. WroteCluster(r)
        BY <1>3 DEF Course
      <3> QED BY <1>0, <3>1, <3>2 DEF WroteCluster, NeedsFasit, RegisteredBy
    <2>3. CASE SendEvent(r)
      BY <1>0, <2>2, <2>3, SendingMovesOn DEF SendEvent
    <2>4. CASE Notify(r) \/ NotifyPanics(r) \/ Respond(r)
      <3>1. HasEvent(r)' <=> HasEvent(r)
        BY <2>4 DEF Notify, NotifyPanics, Respond, eventVars, HasEvent, Underway, InTopic
      <3> QED BY <1>0, <2>2, <2>4, <3>1 DEF Notify, NotifyPanics, Respond, Goto, Answer, Set
    <2> QED BY <2>1, <2>3, <2>4 DEF Report
  <1> QED BY <1>1, <1>2, <1>3

LEMMA NextHeard == TypeOK /\ OnCourse /\ AllHeard /\ [Next]_vars => AllHeard'
  <1> SUFFICES ASSUME TypeOK, OnCourse, AllHeard, [Next]_vars, NEW r \in Requests
               PROVE  Heard(r)'
    BY DEF AllHeard
  <1> QED BY WhatHappens, RestsHeard, StepHeard, StepOnCourse DEF OnCourse, AllHeard

LEMMA HeardCorrect == Spec => []AllHeard
  <1> QED BY InitHeard, NextHeard, TypeCorrect, CourseCorrect, PTL DEF Spec

\* A client told 400 or 401 may send the request again: in whatever order requests
\* overlap, pods die and calls fail, it has changed nothing anywhere (the order of the
\* steps of Api.deploy).
THEOREM RejectionsCorrect == Spec => []RejectedRequestsChangeNothing
  <1>1. OnCourse /\ AllHeard => RejectedRequestsChangeNothing
    BY DEF OnCourse, AllHeard, Course, Heard, RejectedRequestsChangeNothing
  <1> QED BY <1>1, CourseCorrect, HeardCorrect, PTL

\* Fasit shows only what is written to the cluster, an event is of a deploy that the
\* cluster and Fasit have got, and a client told 200 has an event on its way, in the
\* topic, or dropped with an error.
THEOREM FollowingCorrect == Spec => []EachSystemFollowsTheLast
  <1>1. AllHeard => EachSystemFollowsTheLast
    BY DEF AllHeard, Heard, WroteCluster, EachSystemFollowsTheLast
  <1> QED BY <1>1, HeardCorrect, PTL

-------------------------------------------------------------------------------
\* What the ids mean.

AllNamed == \A r \in Requests : Named(r)

LEMMA InitNamed == Init => AllNamed
  BY EmptySeq DEF Init, AllNamed, Named, Exposes

\* The aliases of a request's ids stay what they are.
LEMMA NamesStay ==
    ASSUME TypeOK, Grows, NEW r \in Requests
    PROVE  /\ {resources'[id].alias : id \in used[r]} = {resources[id].alias : id \in used[r]}
           /\ \A n \in 1 .. Len(exposed[r]) :
                resources'[exposed[r][n]].alias = resources[exposed[r][n]].alias
           /\ found[r] # 0 => resources'[found[r]].alias = resources[found[r]].alias
  <1>1. /\ used[r] \subseteq DOMAIN resources
        /\ exposed[r] \in Seq(DOMAIN resources)
        /\ found[r] \in {0} \cup DOMAIN resources
    BY DEF TypeOK
  <1>2. \A n \in 1 .. Len(exposed[r]) : exposed[r][n] \in DOMAIN resources
    BY <1>1, ElementOfSeq
  <1> QED BY <1>1, <1>2 DEF Grows

LEMMA RestsNamed ==
    ASSUME TypeOK, Grows, NEW r \in Requests, Course(r), Named(r),
           Rests(r) \/ Dies(r) \/ (\E j \in Jobs : ComeIn(r, j))
    PROVE  Named(r)'
  <1>1. CASE Rests(r)
    <2> USE <1>1 DEF Rests
    <2>1. used'[r] = used[r] /\ exposed'[r] = exposed[r] /\ found'[r] = found[r]
      OBVIOUS
    <2>2. {resources'[id].alias : id \in used'[r]} = {resources[id].alias : id \in used[r]}
      BY <2>1, NamesStay
    <2>3. \A n \in 1 .. Len(exposed'[r]) :
            resources'[exposed'[r][n]].alias = resources[exposed[r][n]].alias
      BY <2>1, NamesStay
    <2>4. pc[r] = "update" => resources'[found'[r]].alias = resources[found[r]].alias
      BY <2>1, NamesStay DEF Course
    <2>5. Exposing(r)' = Exposing(r)
      BY <2>1 DEF Exposing
    <2> QED BY <2>2, <2>3, <2>4, <2>5 DEF Named
  <1>2. CASE Dies(r)
    BY <1>2, NamesStay DEF Dies, Named, Exposes, handlerVars
  <1>3. ASSUME NEW j \in Jobs, ComeIn(r, j)
        PROVE  Named(r)'
    <2>1. exposed'[r] = <<>> /\ pc'[r] = "check"
      BY <1>3 DEF ComeIn, Set, TypeOK, Course, Looking, handlerVars
    <2> QED BY <2>1, EmptySeq DEF Named, Exposes
  <1> QED BY <1>1, <1>2, <1>3

LEMMA StepNamed ==
    ASSUME TypeOK, Grows, NEW r \in Requests, Course(r), Named(r), Step(r)
    PROVE  Named(r)'
  <1>0. /\ pc \in [Requests -> Pcs] /\ UNCHANGED job
        /\ used \in [Requests -> SUBSET (DOMAIN resources)]
        /\ exposed \in [Requests -> Seq(DOMAIN resources)]
        /\ found \in [Requests -> {0} \cup DOMAIN resources]
    BY StepKeeps DEF TypeOK
  <1>1. ASSUME UNCHANGED <<used, exposed, found>>, pc'[r] \notin {"balancer", "update"},
               pc'[r] \in {"workload", "ingress", "register"} \cup Exposes
                 => \/ pc[r] \in {"balancer", "workload", "ingress", "register"} \cup Exposes
                    \/ job[r].skipFasit
        PROVE  Named(r)'
    <2>1. {resources'[id].alias : id \in used'[r]} = {resources[id].alias : id \in used[r]}
      BY <1>1, NamesStay
    <2>2. \A n \in 1 .. Len(exposed'[r]) :
            resources'[exposed'[r][n]].alias = resources[exposed[r][n]].alias
      BY <1>1, NamesStay
    <2> QED BY <1>0, <1>1, <2>1, <2>2 DEF Named
  <1>2. CASE Check(r)
    <2> USE DEF Goto, Answer, Set, Fault, Missed,
                requestVars, worldVars, handlerVars, historyVars, boundVars
    <2>1. CASE Fetch(r)
      <3>1. PICK ids \in [Consumed(job[r]) -> DOMAIN resources] :
              /\ \A alias \in Consumed(job[r]) : ids[alias] \in Matching(alias)
              /\ used' = [used EXCEPT ![r] = {ids[alias] : alias \in Consumed(job[r])}]
        BY <2>1 DEF Fetch
      <3>2. \A alias \in Consumed(job[r]) : resources'[ids[alias]].alias = alias
        BY <2>1, <3>1 DEF Fetch, Matching
      <3>3. used'[r] = {ids[alias] : alias \in Consumed(job[r])}
        BY <1>0, <3>1
      <3>4. {resources'[id].alias : id \in used'[r]} = Consumed(job[r])
        BY <3>2, <3>3
      <3>5. pc'[r] = "balancer" /\ UNCHANGED <<exposed, found, resources>>
        BY <1>0, <2>1 DEF Fetch
      <3> QED BY <1>0, <3>4, <3>5 DEF Named, Consumed
    <2>2. CASE ~Fetch(r)
      <3>1. UNCHANGED <<used, exposed, found>> /\ pc'[r] \notin {"balancer", "update"}
        BY <1>0, <1>2, <2>2, SMTT(30) DEF Check, Reject, RejectWithoutEnvironment, Accept, MeetRequirements,
                FailRequirements, LookUpClass, MissClass, FetchMissing, FetchFails,
                LookUpBalancer, MissBalancer
      <3>2. pc'[r] \in {"workload", "ingress", "register"} \cup Exposes
              => pc[r] = "balancer" \/ job[r].skipFasit
        BY <1>0, <1>2, <2>2, SMTT(30) DEF Check, Reject, RejectWithoutEnvironment, Accept, MeetRequirements,
                FailRequirements, LookUpClass, MissClass, FetchMissing, FetchFails,
                LookUpBalancer, MissBalancer, Exposes
      <3> QED BY <1>1, <3>1, <3>2
    <2> QED BY <2>1, <2>2
  <1>3. CASE WriteCluster(r)
    <2>1. /\ UNCHANGED <<used, exposed, found>> /\ pc'[r] \notin {"balancer", "update"}
          /\ pc[r] \in {"workload", "ingress"}
      BY <1>0, <1>3 DEF WriteCluster, WriteWorkload, WriteIngress, WriteFails, WriteConflicts,
                        WriteEnds, AfterCluster, Goto, Answer, handlerVars
    <2> QED BY <1>1, <2>1
  <1>4. CASE UpdateFasit(r)
    <2> USE DEF Goto, Answer, Set, Wrote, Fault, handlerVars
    <2>1. CASE FindExposed(r)
      <3>1. /\ UNCHANGED <<used, exposed, resources>>
            /\ pc[r] = "expose" /\ pc'[r] = "update"
            /\ resources[found'[r]].alias = Exposing(r)
        BY <1>0, <2>1 DEF FindExposed, Matching, worldVars
      <3> QED BY <1>0, <3>1 DEF Named, Exposing, Exposes
    <2>2. ASSUME NEW id \in DOMAIN resources', Expose(r, id), pc[r] \in {"create", "update"},
                 resources'[id].alias = Exposing(r)
          PROVE  Named(r)'
      <3>1. /\ exposed'[r] = Append(exposed[r], id) /\ UNCHANGED <<used, found>>
            /\ pc'[r] \in {"expose", "register"}
        BY <1>0, <2>2 DEF Expose
      <3>2. exposed[r] \in Seq(DOMAIN resources')
        BY <1>0, SeqMonotonic DEF Grows
      <3>3. /\ Len(exposed'[r]) = Len(exposed[r]) + 1
            /\ \A n \in 1 .. Len(exposed[r]) : exposed'[r][n] = exposed[r][n]
            /\ exposed'[r][Len(exposed[r]) + 1] = id
        BY <3>1, <3>2, AppendProperties
      <3>4. /\ Len(exposed[r]) \in Nat /\ Len(job[r].exposed) \in Nat
            /\ Len(exposed[r]) + 1 <= Len(job[r].exposed)
        BY <2>2, ExposingIsAlias DEF Exposes
      <3>5. \A n \in 1 .. Len(exposed[r]) :
              /\ n <= Len(job[r].exposed)
              /\ resources'[exposed'[r][n]].alias = job[r].exposed[n]
        BY <3>3, NamesStay DEF Named
      <3>6. resources'[exposed'[r][Len(exposed[r]) + 1]].alias = job[r].exposed[Len(exposed[r]) + 1]
        BY <2>2, <3>3 DEF Exposing
      <3>7. \A n \in 1 .. Len(exposed'[r]) :
              /\ n <= Len(job[r].exposed)
              /\ resources'[exposed'[r][n]].alias = job[r].exposed[n]
        <4> SUFFICES ASSUME NEW n \in 1 .. Len(exposed[r]) + 1
                     PROVE  /\ n <= Len(job[r].exposed)
                            /\ resources'[exposed'[r][n]].alias = job[r].exposed[n]
          BY <3>3
        <4>1. CASE n = Len(exposed[r]) + 1
          BY <3>4, <3>6, <4>1
        <4>2. CASE n # Len(exposed[r]) + 1
          <5>1. n \in 1 .. Len(exposed[r])
            BY <3>4, <4>2
          <5> QED BY <3>5, <5>1
        <4> QED BY <4>1, <4>2
      <3>8. {resources'[id2].alias : id2 \in used'[r]} = {resources[id2].alias : id2 \in used[r]}
        BY <3>1, NamesStay
      <3>9. ~job[r].skipFasit => {resources[id2].alias : id2 \in used[r]} = Consumed(job[r])
        BY <2>2 DEF Named, Exposes
      <3> QED BY <1>0, <3>1, <3>7, <3>8, <3>9 DEF Named
    <2>3. CASE Create(r)
      BY <2>2, <2>3, CreatedGrows DEF Create
    <2>4. CASE Update(r)
      <3>1. resources'[found[r]].alias = Exposing(r)
        BY <2>4, NamesStay DEF Update, Course, Named
      <3> QED BY <2>2, <2>4, <3>1, UpdatedGrows DEF Update
    <2>5. CASE ~FindExposed(r) /\ ~Create(r) /\ ~Update(r)
      <3>1. /\ UNCHANGED <<used, exposed, found>> /\ pc'[r] \notin {"balancer", "update"}
            /\ pc[r] \in {"register"} \cup Exposes
        BY <1>0, <1>4, <2>5 DEF UpdateFasit, FindNothing, FindFails, ExposeFails, Register,
                          RegisterFails, Exposes
      <3> QED BY <1>1, <3>1
    <2> QED BY <2>1, <2>3, <2>4, <2>5
  <1>5. CASE Report(r)
    <2>1. /\ UNCHANGED <<used, exposed, found>>
          /\ pc'[r] \in {"event", "dead", "respond", "answered"}
      BY <1>0, <1>5 DEF Report, Notify, NotifyPanics, SendEvent, Respond, Goto, Answer, Set,
                        handlerVars
    <2> QED BY <1>1, <2>1 DEF Exposes
  <1> QED BY <1>2, <1>3, <1>4, <1>5 DEF Step

LEMMA NextNamed == TypeOK /\ OnCourse /\ AllNamed /\ [Next]_vars => AllNamed'
  <1> SUFFICES ASSUME TypeOK, OnCourse, AllNamed, [Next]_vars, NEW r \in Requests
               PROVE  Named(r)'
    BY DEF AllNamed
  <1>1. Grows
    BY FasitGrows DEF OnCourse
  <1> QED BY <1>1, WhatHappens, RestsNamed, StepNamed DEF OnCourse, AllNamed

LEMMA NamedCorrect == Spec => []AllNamed
  <1> QED BY InitNamed, NextNamed, TypeCorrect, CourseCorrect, PTL DEF Spec

LEMMA JobsStay ==
    ASSUME TypeOK, [Next]_vars, NEW r \in Requests, pc[r] # "idle"
    PROVE  job'[r] = job[r]
  BY WhatHappens, StepKeeps DEF ComeIn, Dies, Rests

LEMMA InstancesStayNamed ==
    ASSUME TypeOK, OnCourse, AllNamed, AllHeard, InstancesNameTheirResources, [Next]_vars
    PROVE  InstancesNameTheirResources'
  <1>1. Grows
    BY FasitGrows DEF OnCourse
  <1>2. ASSUME NEW i \in DOMAIN instances, instances'[i] = instances[i]
        PROVE  LET instance == instances'[i]
                   j == job'[instance.request]
               IN  /\ {resources'[id].alias : id \in instance.used} = Consumed(j)
                   /\ [n \in DOMAIN instance.exposed |-> resources'[instance.exposed[n]].alias]
                        = j.exposed
    <2> DEFINE instance == instances[i]
    <2>1. instance \in Instance
      BY ElementOfSeq, LenProperties DEF TypeOK
    <2>2. /\ instance.request \in Requests
          /\ instance.used \subseteq DOMAIN resources
          /\ instance.exposed \in Seq(DOMAIN resources)
      BY <2>1 DEF Instance
    <2>3. \A n \in DOMAIN instance.exposed : instance.exposed[n] \in DOMAIN resources
      BY <2>2, ElementOfSeq, LenProperties
    <2>4. job'[instance.request] = job[instance.request]
      <3>1. RegisteredBy(instance.request)
        BY DEF RegisteredBy
      <3>2. pc[instance.request] # "idle"
        BY <2>2, <3>1 DEF AllHeard, Heard, Reporting
      <3> QED BY <2>2, <3>2, JobsStay
    <2>5. /\ {resources[id].alias : id \in instance.used} = Consumed(job[instance.request])
          /\ [n \in DOMAIN instance.exposed |-> resources[instance.exposed[n]].alias]
               = job[instance.request].exposed
      BY DEF InstancesNameTheirResources
    <2>6. {resources'[id].alias : id \in instance.used}
            = {resources[id].alias : id \in instance.used}
      BY <1>1, <2>2 DEF Grows
    <2>7. [n \in DOMAIN instance.exposed |-> resources'[instance.exposed[n]].alias]
            = [n \in DOMAIN instance.exposed |-> resources[instance.exposed[n]].alias]
      BY <1>1, <2>3 DEF Grows
    <2> QED BY <1>2, <2>4, <2>5, <2>6, <2>7
  <1>3. CASE UNCHANGED instances
    BY <1>2, <1>3 DEF InstancesNameTheirResources
  <1>4. ASSUME NEW r \in Requests, Step(r), pc[r] = "register",
               DOMAIN instances' = 1 .. Len(instances) + 1,
               \A i \in 1 .. Len(instances) : instances'[i] = instances[i],
               instances'[Len(instances) + 1] =
                 [request |-> r, used |-> used[r], exposed |-> exposed[r]]
        PROVE  InstancesNameTheirResources'
    <2>1. Len(instances) \in Nat /\ DOMAIN instances = 1 .. Len(instances)
      BY InstancesGrow
    <2>2. job'[r] = job[r] /\ UNCHANGED resources
      BY <1>4, StepKeeps, FasitChanges
    <2>3. {resources'[id].alias : id \in used[r]} = Consumed(job'[r])
      <3>1. ~job[r].skipFasit
        BY <1>4 DEF OnCourse, Course, NeedsFasit
      <3> QED BY <1>4, <2>2, <3>1 DEF AllNamed, Named
    <2>4. [n \in DOMAIN exposed[r] |-> resources'[exposed[r][n]].alias] = job'[r].exposed
      <3>1. /\ exposed[r] \in Seq(DOMAIN resources) /\ job[r].exposed \in Seq(Aliases)
            /\ Len(exposed[r]) = Len(job[r].exposed)
        BY <1>4, JobsAreJobs DEF OnCourse, Course, Exposed, TypeOK
      <3>2. /\ DOMAIN exposed[r] = 1 .. Len(job[r].exposed)
            /\ job[r].exposed \in [1 .. Len(job[r].exposed) -> Aliases]
        BY <3>1, LenProperties
      <3>3. \A n \in 1 .. Len(job[r].exposed) :
              resources[exposed[r][n]].alias = job[r].exposed[n]
        BY <3>1 DEF AllNamed, Named
      <3> QED BY <2>2, <3>2, <3>3
    <2>5. ASSUME NEW i \in DOMAIN instances'
          PROVE  LET instance == instances'[i]
                     j == job'[instance.request]
                 IN  /\ {resources'[id].alias : id \in instance.used} = Consumed(j)
                     /\ [n \in DOMAIN instance.exposed |-> resources'[instance.exposed[n]].alias]
                          = j.exposed
      <3>1. CASE i = Len(instances) + 1
        BY <1>4, <2>3, <2>4, <3>1
      <3>2. CASE i # Len(instances) + 1
        <4>1. i \in DOMAIN instances /\ instances'[i] = instances[i]
          BY <1>4, <2>1, <3>2
        <4> QED BY <1>2, <4>1
      <3> QED BY <3>1, <3>2
    <2> QED BY <2>5 DEF InstancesNameTheirResources, Consumed
  <1> QED BY <1>3, <1>4, InstancesGrow

\* Each application instance names, by id, the resources its application consumes and,
\* in the manifest's order, those it exposes, for any number of requests that work on
\* Fasit at once (CreateOrUpdateFasitResources).
THEOREM InstancesCorrect == Spec => []InstancesNameTheirResources
  <1>1. Init => InstancesNameTheirResources
    BY EmptySeq DEF Init, InstancesNameTheirResources
  <1>2. TypeOK /\ OnCourse /\ AllNamed /\ AllHeard /\ InstancesNameTheirResources /\ [Next]_vars
          => InstancesNameTheirResources'
    BY InstancesStayNamed
  <1> QED BY <1>1, <1>2, TypeCorrect, CourseCorrect, NamedCorrect, HeardCorrect, PTL DEF Spec

-------------------------------------------------------------------------------
\* A request that nobody else comes in after.

LEMMA EndedStays ==
    ASSUME TypeOK, [Next]_vars, NEW q \in Requests
    PROVE  /\ Ended(q) => pc'[q] = pc[q] /\ answer'[q] = answer[q]
           /\ pc[q] # "idle" => pc'[q] # "idle"
  <1>1. ASSUME Step(q)
        PROVE  pc[q] \notin {"idle", "answered", "dead"} /\ pc'[q] # "idle"
    <2>1. pc \in [Requests -> Pcs]
      BY DEF TypeOK
    <2> QED BY <1>1, <2>1, StepMoves DEF Moves
  <1> QED BY <1>1, WhatHappens DEF Ended, ComeIn, Dies, Rests

LEMMA EarlierStays ==
    ASSUME TypeOK, [Next]_vars, NEW r \in Requests
    PROVE  \/ earlier'[r] = earlier[r]
           \/ pc[r] = "idle" /\ pc'[r] = "check" /\ answer'[r] = answer[r]
              /\ earlier'[r] = {q \in Requests : Ended(q)}
  <1>1. ASSUME NEW j \in Jobs, ComeIn(r, j)
        PROVE  /\ pc[r] = "idle" /\ pc'[r] = "check" /\ answer'[r] = answer[r]
               /\ earlier'[r] = {q \in Requests : Ended(q)}
    BY <1>1 DEF ComeIn, Set, TypeOK
  <1>2. CASE Step(r) \/ Dies(r) \/ Rests(r)
    BY <1>2, StepKeeps DEF Dies, Rests
  <1> QED BY <1>1, <1>2, WhatHappens

LEMMA NextEarlierEnded == TypeOK /\ EarlierEnded /\ [Next]_vars => EarlierEnded'
  <1> SUFFICES ASSUME TypeOK, EarlierEnded, [Next]_vars,
                      NEW r \in Requests, NEW q \in earlier'[r]
               PROVE  q # r /\ Ended(q)'
    BY DEF EarlierEnded
  <1>1. q \in Requests /\ q # r /\ Ended(q)
    <2>1. earlier[r] \subseteq Requests
      BY DEF TypeOK
    <2>2. CASE earlier'[r] = earlier[r]
      BY <2>1, <2>2 DEF EarlierEnded
    <2>3. CASE pc[r] = "idle" /\ earlier'[r] = {o \in Requests : Ended(o)}
      BY <2>3 DEF Ended
    <2> QED BY <2>2, <2>3, EarlierStays
  <1> QED BY <1>1, EndedStays DEF Ended

LEMMA RestsCurrent ==
    ASSUME NEW r \in Requests, Current(r), Course(r), Rests(r) \/ Dies(r), UNCHANGED worldVars
    PROVE  Current(r)'
  <1>1. CASE Rests(r)
    BY <1>1 DEF Rests, Current, NeedsFasit, worldVars
  <1>2. CASE Dies(r)
    BY <1>2 DEF Dies, Current, Course, Exposes, Reporting
  <1> QED BY <1>1, <1>2

\* What the steps of r leave in the cluster is r's.
LEMMA StepClusterCurrent ==
    ASSUME TypeOK, NEW r \in Requests, Current(r), Course(r), Step(r)
    PROVE  /\ pc'[r] \in {"ingress", "register"} \cup Exposes \cup Reporting \/ answer'[r] = 200
                => cluster'.workload = r
           /\ (pc'[r] \in {"register"} \cup Exposes \cup Reporting \/ answer'[r] = 200)
                /\ job'[r].ingress
                => cluster'.ingress = r /\ cluster'.hosts = hosts'[r]
  <1> USE DEF Current, Exposes, Reporting, Goto, Answer, Set
  <1>0. /\ pc \in [Requests -> Pcs] /\ answer \in [Requests -> {0, 200, 400, 401, 500}]
        /\ hosts \in [Requests -> BOOLEAN] /\ UNCHANGED job /\ answer[r] = 0
        /\ cluster \in [workload : Requests \cup {Earlier},
                        ingress : Requests \cup {Earlier}, hosts : BOOLEAN]
    BY StepKeeps, StepMoves DEF TypeOK, Course
  <1>1. CASE Check(r)
    BY <1>0, <1>1, SMTT(30) DEF Check, Reject, RejectWithoutEnvironment, Accept, MeetRequirements,
                FailRequirements, LookUpClass, MissClass, Fetch, FetchMissing, FetchFails,
                LookUpBalancer, MissBalancer
  <1>2. CASE WriteCluster(r)
    <2>0. AfterCluster(job[r]) \notin {"workload", "ingress"} /\ hosts' = hosts
      BY <1>2 DEF AfterCluster, WriteCluster, WriteWorkload, WriteIngress, WriteFails,
                  WriteConflicts, WriteEnds, handlerVars
    <2>1. CASE WriteWorkload(r)
      <3>1. WithWorkload(r).workload = r
        BY <1>0 DEF WithWorkload
      <3> QED BY <1>0, <2>0, <2>1, <3>1 DEF WriteWorkload
    <2>2. CASE WriteIngress(r)
      <3>1. /\ WithIngress(r).workload = cluster.workload
            /\ WithIngress(r).ingress = r /\ WithIngress(r).hosts = hosts[r]
        BY <1>0, ZenonT(30) DEF WithIngress
      <3> QED BY <1>0, <2>0, <2>2, <3>1 DEF WriteIngress
    <2>3. CASE WriteEnds(r)
      BY <1>0, <2>3 DEF WriteEnds
    <2> QED BY <1>2, <2>1, <2>2, <2>3 DEF WriteCluster, WriteFails, WriteConflicts
  <1>3. CASE UpdateFasit(r)
    BY <1>0, <1>3 DEF UpdateFasit, FindExposed, FindNothing, FindFails, Create, Update, Expose,
                ExposeFails, Register, RegisterFails, handlerVars, worldVars
  <1>4. CASE Report(r)
    BY <1>0, <1>4 DEF Report, Notify, NotifyPanics, SendEvent, Respond, handlerVars, worldVars
  <1> QED BY <1>1, <1>2, <1>3, <1>4 DEF Step

LEMMA StepInstanceCurrent ==
    ASSUME TypeOK, NEW r \in Requests, Current(r), Course(r), Course(r)', Step(r)
    PROVE  (pc'[r] \in Reporting \/ answer'[r] = 200) /\ NeedsFasit(r)'
             => instances' # <<>> /\ instances'[Len(instances')].request = r
  <1>0. /\ pc \in [Requests -> Pcs] /\ answer \in [Requests -> {0, 200, 400, 401, 500}]
        /\ UNCHANGED job /\ answer[r] = 0 /\ NeedsFasit(r)' = NeedsFasit(r)
    BY StepKeeps, StepMoves DEF TypeOK, Course, NeedsFasit
  <1>1. CASE pc[r] = "register"
    <2>1. CASE instances' = Registered(r)
      <3>1. /\ instances'[Len(instances')].request = r /\ Len(instances') = Len(instances) + 1
            /\ Len(instances) \in Nat
        BY <2>1, RegisteredIsThere, LenProperties DEF TypeOK
      <3>2. instances' # <<>>
        BY <3>1, EmptySeq
      <3> QED BY <3>1, <3>2
    <2>2. CASE instances' # Registered(r)
      BY <1>0, <1>1, <2>2, RegisteringMovesOn DEF Reporting, Course
    <2> QED BY <2>1, <2>2
  <1>2. CASE pc[r] # "register"
    <2>1. UNCHANGED instances
      BY <1>2, FasitChanges
    <2>2. (pc'[r] \in Reporting \/ answer'[r] = 200) /\ NeedsFasit(r)
            => pc[r] \in Reporting
      <3> USE DEF Reporting, Goto, Answer, Set, NeedsFasit
      <3>1. CASE Check(r)
        BY <1>0, <3>1, SMTT(30) DEF Check, Reject, RejectWithoutEnvironment, Accept, MeetRequirements,
                    FailRequirements, LookUpClass, MissClass, Fetch, FetchMissing, FetchFails,
                    LookUpBalancer, MissBalancer
      <3>2. CASE WriteCluster(r)
        BY <1>0, <3>2 DEF WriteCluster, WriteWorkload, WriteIngress, WriteFails, WriteConflicts,
                    WriteEnds, AfterCluster
      <3>3. CASE UpdateFasit(r)
        BY <1>0, <1>2, <3>3 DEF UpdateFasit, FindExposed, FindNothing, FindFails, Create, Update,
                    Expose, ExposeFails, Register, RegisterFails, Course, Exposes
      <3>4. CASE Report(r)
        BY <1>2, <3>4 DEF Report, Notify, NotifyPanics, SendEvent, Respond
      <3> QED BY <3>1, <3>2, <3>3, <3>4 DEF Step
    <2> QED BY <1>0, <2>1, <2>2 DEF Current
  <1> QED BY <1>1, <1>2

LEMMA StepResourcesCurrent ==
    ASSUME TypeOK, NEW r \in Requests, Current(r), Course(r), Step(r)
    PROVE  pc'[r] \in {"register"} \cup Exposes \cup Reporting \/ answer'[r] = 200
             => \A n \in 1 .. Len(exposed'[r]) : resources'[exposed'[r][n]].author = r
  <1>0. /\ pc \in [Requests -> Pcs] /\ answer \in [Requests -> {0, 200, 400, 401, 500}]
        /\ exposed \in [Requests -> Seq(DOMAIN resources)]
        /\ answer[r] = 0
    BY StepMoves DEF TypeOK, Course
  <1>1. CASE Create(r) \/ Update(r)
    <2>1. PICK id \in DOMAIN resources' :
            /\ Expose(r, id) /\ resources'[id].author = r
            /\ \A i \in DOMAIN resources : resources'[i].author \in {resources[i].author, r}
      BY <1>1, CreatedGrows, UpdatedGrows DEF Create, Update
    <2>2. Grows /\ pc[r] \in Exposes
      BY <1>1, CreatedGrows, UpdatedGrows DEF Create, Update, Exposes
    <2>3. exposed'[r] = Append(exposed[r], id) /\ exposed[r] \in Seq(DOMAIN resources')
      BY <1>0, <2>1, <2>2, SeqMonotonic DEF Expose, Set, Grows
    <2>4. /\ Len(exposed'[r]) = Len(exposed[r]) + 1 /\ Len(exposed[r]) \in Nat
          /\ \A n \in 1 .. Len(exposed[r]) : exposed'[r][n] = exposed[r][n]
          /\ exposed'[r][Len(exposed[r]) + 1] = id
      BY <2>3, AppendProperties, LenProperties
    <2>5. \A n \in 1 .. Len(exposed[r]) : resources'[exposed[r][n]].author = r
      <3>1. \A n \in 1 .. Len(exposed[r]) :
              exposed[r][n] \in DOMAIN resources /\ resources[exposed[r][n]].author = r
        <4>1. exposed[r] \in Seq(DOMAIN resources)
          BY <1>0
        <4>2. \A n \in 1 .. Len(exposed[r]) : exposed[r][n] \in DOMAIN resources
          BY <4>1, ElementOfSeq
        <4> QED BY <2>2, <4>2 DEF Current
      <3> QED BY <2>1, <3>1
    <2>6. ASSUME NEW n \in 1 .. Len(exposed'[r])
          PROVE  resources'[exposed'[r][n]].author = r
      <3>1. CASE n = Len(exposed[r]) + 1
        BY <2>1, <2>4, <3>1
      <3>2. CASE n # Len(exposed[r]) + 1
        <4>1. n \in 1 .. Len(exposed[r])
          BY <2>4, <3>2
        <4> QED BY <2>4, <2>5, <4>1
      <3> QED BY <3>1, <3>2
    <2> QED BY <2>6
  <1>2. CASE ~Create(r) /\ ~Update(r)
    <2>1. UNCHANGED exposed
      <3> USE DEF handlerVars
      <3>1. CASE Check(r)
        BY <3>1, ZenonT(30) DEF Check, Reject, RejectWithoutEnvironment, Accept, MeetRequirements,
                    FailRequirements, LookUpClass, MissClass, Fetch, FetchMissing, FetchFails,
                    LookUpBalancer, MissBalancer
      <3>2. CASE WriteCluster(r)
        BY <3>2 DEF WriteCluster, WriteWorkload, WriteIngress, WriteFails, WriteConflicts,
                    WriteEnds
      <3>3. CASE UpdateFasit(r)
        BY <1>2, <3>3 DEF UpdateFasit, FindExposed, FindNothing, FindFails,
                    ExposeFails, Register, RegisterFails
      <3>4. CASE Report(r)
        BY <3>4 DEF Report, Notify, NotifyPanics, SendEvent, Respond
      <3> QED BY <3>1, <3>2, <3>3, <3>4 DEF Step
    <2>2. CASE pc[r] \in Looking \cup {"workload", "ingress"}
      BY <2>1, <2>2, EmptySeq DEF Course
    <2>3. CASE pc[r] \notin Looking \cup {"workload", "ingress"}
      <3>1. pc[r] \in {"register"} \cup Exposes \cup Reporting
        BY <1>0, <2>3, StepMoves DEF Looking, Pcs, Exposes, Reporting
      <3>2. \A n \in 1 .. Len(exposed[r]) : resources[exposed[r][n]].author = r
        BY <3>1 DEF Current
      <3>3. CASE UNCHANGED resources
        BY <2>1, <3>2, <3>3
      <3>4. CASE resources' # resources
        <4>1. ExposeFails(r)
          <5>1. pc[r] \in {"create", "update"}
            BY <3>4, FasitChanges
          <5>2. ~Check(r) /\ ~WriteCluster(r) /\ ~Report(r)
            BY <5>1, CheckStarts, WriteStarts, ReportStarts DEF Looking, Reporting
          <5> QED BY <1>2, <5>1, <5>2 DEF Step, UpdateFasit, FindExposed, FindNothing, FindFails,
                                          Register, RegisterFails
        <4>2. pc'[r] = "answered" /\ answer'[r] = 500
          BY <1>0, <4>1 DEF ExposeFails, Answer
        <4> QED BY <4>2 DEF Exposes, Reporting
      <3> QED BY <3>3, <3>4
    <2> QED BY <2>2, <2>3
  <1> QED BY <1>1, <1>2

LEMMA StepCurrent ==
    ASSUME TypeOK, NEW r \in Requests, Current(r), Course(r), Course(r)', Step(r)
    PROVE  Current(r)'
  <1>1. /\ pc'[r] \in {"ingress", "register"} \cup Exposes \cup Reporting \/ answer'[r] = 200
             => cluster'.workload = r
        /\ (pc'[r] \in {"register"} \cup Exposes \cup Reporting \/ answer'[r] = 200)
             /\ job'[r].ingress
             => cluster'.ingress = r /\ cluster'.hosts = hosts'[r]
    BY StepClusterCurrent
  <1>2. (pc'[r] \in Reporting \/ answer'[r] = 200) /\ NeedsFasit(r)'
          => instances' # <<>> /\ instances'[Len(instances')].request = r
    BY StepInstanceCurrent
  <1>3. pc'[r] \in {"register"} \cup Exposes \cup Reporting \/ answer'[r] = 200
          => \A n \in 1 .. Len(exposed'[r]) : resources'[exposed'[r][n]].author = r
    BY StepResourcesCurrent
  <1> QED BY <1>1, <1>2, <1>3, Zenon DEF Current

LEMMA NextLone ==
    TypeOK /\ OnCourse /\ EarlierEnded /\ LoneIsCurrent /\ [Next]_vars => LoneIsCurrent'
  <1> SUFFICES ASSUME TypeOK, OnCourse, EarlierEnded, LoneIsCurrent, [Next]_vars,
                      NEW r \in Requests, Lone(r)'
               PROVE  Current(r)'
    BY DEF LoneIsCurrent
  <1>1. CASE earlier'[r] # earlier[r]
    <2>1. pc'[r] = "check" /\ answer'[r] = 0
      BY <1>1, EarlierStays DEF OnCourse, Course
    <2> QED BY <2>1 DEF Current, Exposes, Reporting
  <1>2. CASE earlier'[r] = earlier[r]
    <2>1. Lone(r)
      BY <1>2, EndedStays DEF Lone
    <2>2. Current(r) /\ Course(r) /\ Course(r)'
      BY <2>1, NextOnCourse DEF LoneIsCurrent, OnCourse
    <2>3. CASE Step(r)
      BY <2>2, <2>3, StepCurrent
    <2>4. CASE ~Step(r)
      <3>1. \A q \in Requests : ~Step(q)
        BY <2>1, <2>4, StepMoves DEF Lone, EarlierEnded, Ended
      <3>2. UNCHANGED worldVars
        BY <3>1, OthersLeaveFasit
      <3>3. CASE Rests(r) \/ Dies(r)
        BY <2>2, <3>2, <3>3, RestsCurrent
      <3>4. ASSUME NEW j \in Jobs, ComeIn(r, j)
            PROVE  Current(r)'
        <4>1. pc'[r] = "check" /\ answer'[r] = 0
          BY <2>2, <3>4 DEF ComeIn, Set, TypeOK, Course
        <4> QED BY <4>1 DEF Current, Exposes, Reporting
      <3> QED BY <2>4, <3>3, <3>4, WhatHappens
    <2> QED BY <2>3, <2>4
  <1> QED BY <1>1, <1>2

LEMMA LoneCorrect == Spec => [](EarlierEnded /\ LoneIsCurrent)
  <1>1. Init => EarlierEnded /\ LoneIsCurrent
    BY DEF Init, EarlierEnded, LoneIsCurrent, Current, Exposes, Reporting
  <1> QED BY <1>1, NextEarlierEnded, NextLone, TypeCorrect, CourseCorrect, PTL DEF Spec

\* A successful deploy that nobody overlapped left everything as its manifest and the
\* environment said: its workload, its ingress with the hosts Fasit has, its instance
\* as the latest, its address in every resource it exposes.  Whatever came before it,
\* and however much of that had failed half-way, makes no difference.
THEOREM LoneDeploysCorrect == Spec => []LoneDeployIsCurrent
  <1>1. TypeOK /\ OnCourse /\ AllInformed /\ AllNamed /\ LoneIsCurrent => LoneDeployIsCurrent
    <2> SUFFICES ASSUME TypeOK, OnCourse, AllInformed, AllNamed, LoneIsCurrent,
                        NEW r \in Requests, answer[r] = 200,
                        \A q \in Requests \ {r} : pc[q] = "idle" \/ q \in earlier[r]
                 PROVE  /\ cluster.workload = r
                        /\ job[r].ingress =>
                             /\ cluster.ingress = r
                             /\ cluster.hosts = (balanced /\ ~job[r].skipFasit
                                                  /\ "balancer" \notin missed[r])
                        /\ NeedsFasit(r) =>
                             /\ instances[Len(instances)].request = r
                             /\ \A alias \in {job[r].exposed[n] : n \in DOMAIN job[r].exposed} :
                                  \E i \in Matching(alias) : resources[i].author = r
      BY DEF LoneDeployIsCurrent
    <2>1. Current(r)
      BY DEF LoneIsCurrent, Lone
    <2>2. /\ cluster.workload = r
          /\ job[r].ingress => cluster.ingress = r /\ cluster.hosts = hosts[r]
          /\ NeedsFasit(r) => instances[Len(instances)].request = r
          /\ \A n \in 1 .. Len(exposed[r]) : resources[exposed[r][n]].author = r
      BY <2>1 DEF Current
    <2>3. hosts[r] = (balanced /\ ~job[r].skipFasit /\ "balancer" \notin missed[r])
      BY DEF AllInformed, Informed, Going
    <2>4. ASSUME NeedsFasit(r), NEW n \in DOMAIN job[r].exposed
          PROVE  \E i \in Matching(job[r].exposed[n]) : resources[i].author = r
      <3>1. pc[r] # "idle" /\ Len(exposed[r]) = Len(job[r].exposed)
        BY <2>4 DEF OnCourse, Course, Exposed
      <3>2. n \in 1 .. Len(exposed[r]) /\ exposed[r] \in Seq(DOMAIN resources)
        BY <2>4, <3>1, JobsAreJobs, LenProperties DEF TypeOK
      <3>3. /\ exposed[r][n] \in DOMAIN resources
            /\ resources[exposed[r][n]].alias = job[r].exposed[n]
            /\ resources[exposed[r][n]].author = r
        BY <2>2, <3>2, ElementOfSeq DEF AllNamed, Named
      <3> QED BY <3>3 DEF Matching
    <2> QED BY <2>2, <2>3, <2>4
  <1> QED BY <1>1, TypeCorrect, CourseCorrect, InformedCorrect, NamedCorrect, LoneCorrect, PTL

-------------------------------------------------------------------------------
\* The order of events.

LEMMA PodsStay == [Next]_vars => UNCHANGED pod
  BY StepKeeps DEF Next, ComeIn, Produce, ProduceBadly, Crash, requestVars, vars

LEMMA NextOwnEvents == TypeOK /\ OwnEvents /\ [Next]_vars => OwnEvents'
  <1> SUFFICES ASSUME TypeOK, OwnEvents, [Next]_vars PROVE OwnEvents'
    OBVIOUS
  <1>0. UNCHANGED pod
    BY PodsStay
  <1>1. CASE UNCHANGED eventVars
    BY <1>0, <1>1 DEF OwnEvents, eventVars
  <1>2. ASSUME NEW r \in Requests, SendEvent(r)
        PROVE  OwnEvents'
    <2>1. pod[r] \in Pods /\ r \in Events /\ Send(pod[r], r)
      BY <1>2, RequestAssumption DEF SendEvent, TypeOK
    <2>2. \A i \in 1 .. Len(queue'[pod[r]]) : pod[queue'[pod[r]][i]] = pod[r]
      <3> SUFFICES ASSUME NEW i \in 1 .. Len(queue[pod[r]]) + 1
                   PROVE  pod[queue'[pod[r]][i]] = pod[r]
        BY <2>1, SendMoves
      <3>1. CASE i = Len(queue[pod[r]]) + 1
        BY <2>1, <3>1, SendMoves
      <3>2. CASE i # Len(queue[pod[r]]) + 1
        <4>1. i \in 1 .. Len(queue[pod[r]])
          BY <2>1, <3>2, Queues
        <4> QED BY <2>1, <4>1, SendMoves DEF OwnEvents
      <3> QED BY <3>1, <3>2
    <2> QED BY <1>0, <2>1, <2>2, SendMoves DEF OwnEvents
  <1>3. ASSUME NEW p \in Pods, Take(p)
        PROVE  OwnEvents'
    <2>1. \A i \in 1 .. Len(queue'[p]) : pod[queue'[p][i]] = p
      <3>1. \A i \in 1 .. Len(queue'[p]) :
              i + 1 \in 1 .. Len(queue[p]) /\ queue'[p][i] = queue[p][i + 1]
        BY <1>3, TakeMoves, Queues
      <3> QED BY <3>1 DEF OwnEvents
    <2>2. pod[sending'[p]] = p
      BY <1>3, TakeMoves, Queues DEF OwnEvents
    <2> QED BY <1>0, <1>3, <2>1, <2>2, TakeMoves DEF OwnEvents
  <1>4. ASSUME NEW p \in Pods, Deliver(p) \/ DeliverAgain(p) \/ DeliveryFails(p)
        PROVE  OwnEvents'
    <2>1. sending \in [Pods -> Events \cup {NoEvent}]
      BY DEF TypeOK, EventsTypeOK
    <2> QED BY <1>0, <1>4, <2>1 DEF Deliver, DeliverAgain, DeliveryFails, OwnEvents
  <1>5. ASSUME NEW p \in Pods, LoseEvents(p)
        PROVE  OwnEvents'
    <2>1. /\ sending \in [Pods -> Events \cup {NoEvent}] /\ queue \in [Pods -> Seq(Events)]
          /\ Len(<<>>) = 0
      BY EmptySeq DEF TypeOK, EventsTypeOK
    <2> QED BY <1>0, <1>5, <2>1 DEF LoseEvents, OwnEvents
  <1> QED BY <1>1, <1>2, <1>3, <1>4, <1>5, NextEvents

LEMMA OwnEventsCorrect == Spec => []OwnEvents
  <1>1. Init => OwnEvents
    <2>1. Len(<<>>) = 0
      BY EmptySeq
    <2>2. ASSUME EventsInit, NEW p \in Pods
          PROVE  sending[p] = NoEvent /\ 1 .. Len(queue[p]) = {}
      <3>1. sending[p] = NoEvent /\ queue[p] = <<>>
        BY <2>2 DEF EventsInit
      <3> QED BY <2>1, <3>1
    <2>3. EventsInit => OwnEvents
      BY <2>2, Zenon DEF OwnEvents
    <2> QED BY <2>3 DEF Init
  <1> QED BY <1>1, NextOwnEvents, TypeCorrect, PTL DEF Spec

\* An event that does not exist is in front of nothing.
LEMMA NothingIsBehind ==
    ASSUME TypeOK', NEW e \in Requests, NEW f \in Requests, ~HasEvent(e)'
    PROVE  NotBehind(f, e)'
  <1>1. DOMAIN topic' = 1 .. Len(topic')
    BY LenProperties DEF TypeOK, EventsTypeOK
  <1>2. \A p \in Pods : DOMAIN queue'[p] = 1 .. Len(queue'[p])
    BY LenProperties DEF TypeOK, EventsTypeOK
  <1> QED BY <1>1, <1>2 DEF NotBehind, HasEvent, InTopic, Underway

\* A request that has ended sends no more events.
LEMMA NotBehindStays ==
    ASSUME TypeOK, OwnEvents, [Next]_vars, NEW e \in Requests, NEW f \in Requests,
           f # e, Ended(f), pod[f] = pod[e], NotBehind(f, e)
    PROVE  NotBehind(f, e)'
  <1> USE DEF NotBehind, InTopic, Underway
  <1>1. CASE UNCHANGED eventVars
    BY <1>1 DEF eventVars
  <1>2. ASSUME NEW r \in Requests, pc[r] = "event", SendEvent(r)
        PROVE  NotBehind(f, e)'
    <2>1. pod[r] \in Pods /\ r \in Events /\ Send(pod[r], r) /\ r # f
      BY <1>2, RequestAssumption DEF SendEvent, TypeOK, Ended
    <2> DEFINE p == pod[r]
    <2>2. \A k \in 1 .. Len(queue'[p]) :
            queue'[p][k] = f => k \in 1 .. Len(queue[p]) /\ queue'[p][k] = queue[p][k]
      BY <2>1, SendMoves, Queues
    <2>3. Underway(f)' => Underway(f)
      BY <2>1, SentIsUnderway
    <2>4. \A i, k \in 1 .. Len(queue'[p]) :
            i < k => ~(queue'[p][i] = e /\ queue'[p][k] = f)
      <3> SUFFICES ASSUME NEW i \in 1 .. Len(queue'[p]), NEW k \in 1 .. Len(queue'[p]),
                          i < k, queue'[p][i] = e, queue'[p][k] = f
                   PROVE  FALSE
        OBVIOUS
      <3>1. k \in 1 .. Len(queue[p]) /\ queue[p][k] = f
        BY <2>2
      <3>2. i \in 1 .. Len(queue[p]) /\ queue[p][i] = e
        BY <2>1, <3>1, SendMoves, Queues
      <3> QED BY <2>1, <3>1, <3>2
    <2>5. sending[p] = e => \A k \in 1 .. Len(queue'[p]) : queue'[p][k] # f
      BY <2>1, <2>2
    <2> QED BY <2>1, <2>3, <2>4, <2>5, SendMoves
  <1>3. ASSUME NEW p \in Pods, Take(p)
        PROVE  NotBehind(f, e)'
    <2>1. \A k \in 1 .. Len(queue'[p]) :
            k + 1 \in 1 .. Len(queue[p]) /\ queue'[p][k] = queue[p][k + 1]
      BY <1>3, TakeMoves, Queues
    <2>2. 1 \in 1 .. Len(queue[p]) /\ sending'[p] = queue[p][1]
      BY <1>3, TakeMoves, Queues
    <2>3. Underway(f)' => Underway(f)
      BY <1>3, TakenWereUnderway
    <2>4. sending'[p] = e => \A k \in 1 .. Len(queue'[p]) : queue'[p][k] # f
      <3> SUFFICES ASSUME queue[p][1] = e, NEW k \in 1 .. Len(queue'[p]), queue[p][k + 1] = f
                   PROVE  FALSE
        BY <2>1, <2>2
      <3>1. 1 < k + 1
        BY <2>1
      <3> QED BY <2>1, <2>2, <3>1
    <2>5. \A i, k \in 1 .. Len(queue'[p]) :
            i < k => ~(queue'[p][i] = e /\ queue'[p][k] = f)
      <3> SUFFICES ASSUME NEW i \in 1 .. Len(queue'[p]), NEW k \in 1 .. Len(queue'[p]), i < k,
                          queue[p][i + 1] = e, queue[p][k + 1] = f
                   PROVE  FALSE
        BY <2>1
      <3>1. i + 1 < k + 1
        BY <2>1
      <3> QED BY <2>1, <3>1
    <2>6. /\ UNCHANGED topic
          /\ \A o \in Pods \ {p} : queue'[o] = queue[o] /\ sending'[o] = sending[o]
      BY <1>3, TakeMoves
    <2> HIDE DEF Underway
    <2>7. InTopic(e)' => ~Underway(f)'
      BY <2>3, <2>6
    <2>8. \A o \in Pods : /\ sending'[o] = e => \A k \in 1 .. Len(queue'[o]) : queue'[o][k] # f
                          /\ \A i, k \in 1 .. Len(queue'[o]) :
                               i < k => ~(queue'[o][i] = e /\ queue'[o][k] = f)
      BY <2>4, <2>5, <2>6
    <2> QED BY <2>6, <2>7, <2>8
  <1>4. ASSUME NEW p \in Pods, Deliver(p) \/ DeliverAgain(p) \/ DeliveryFails(p)
        PROVE  NotBehind(f, e)'
    <2>1. /\ UNCHANGED queue /\ sending[p] \in Events /\ sending[p] # NoEvent
          /\ \A o \in Pods : sending'[o] \in {sending[o], NoEvent}
          /\ f # NoEvent /\ e # NoEvent
      <3>1. UNCHANGED queue /\ sending[p] # NoEvent /\ sending[p] \in Events
        BY <1>4, EventSentIsEvent DEF Deliver, DeliverAgain, DeliveryFails
      <3>2. sending \in [Pods -> Events \cup {NoEvent}] /\ f # NoEvent /\ e # NoEvent
        BY NoEventAssumption, RequestAssumption DEF TypeOK, EventsTypeOK
      <3> QED BY <1>4, <3>1, <3>2 DEF Deliver, DeliverAgain, DeliveryFails
    <2>2. \A o \in Pods : /\ sending'[o] = e => \A k \in 1 .. Len(queue'[o]) : queue'[o][k] # f
                          /\ \A i, k \in 1 .. Len(queue'[o]) :
                               i < k => ~(queue'[o][i] = e /\ queue'[o][k] = f)
      BY <2>1
    <2>3. Underway(f)' => Underway(f)
      BY <2>1
    <2>4. CASE UNCHANGED topic
      BY <2>2, <2>3, <2>4
    <2>5. CASE topic' = Append(topic, sending[p])
      <3>1. \A i, k \in 1 .. Len(topic') : i < k => ~(topic'[i] = e /\ topic'[k] = f)
        <4> SUFFICES ASSUME NEW i \in 1 .. Len(topic'), NEW k \in 1 .. Len(topic'), i < k,
                            topic'[i] = e, topic'[k] = f
                     PROVE  FALSE
          OBVIOUS
        <4>1. Len(topic) \in Nat /\ Len(topic') = Len(topic) + 1
          BY <2>1, <2>5, TopicGrows
        <4>2. i \in 1 .. Len(topic)
          BY <4>1
        <4>3. topic[i] = e /\ InTopic(e)
          BY <2>1, <2>5, <4>2, TopicGrows
        <4>4. CASE k = Len(topic) + 1
          BY <2>1, <2>5, <4>3, <4>4, TopicGrows
        <4>5. CASE k # Len(topic) + 1
          <5>1. k \in 1 .. Len(topic)
            BY <4>1, <4>5
          <5> QED BY <2>1, <2>5, <4>2, <4>3, <5>1, TopicGrows
        <4> QED BY <4>4, <4>5
      <3>2. CASE sending[p] = e
        <4>1. \A o \in Pods \ {p} : sending'[o] # f /\ \A k \in DOMAIN queue'[o] : queue'[o][k] # f
          BY <2>1, <3>2, Queues DEF OwnEvents
        <4>2. \A k \in DOMAIN queue'[p] : queue'[p][k] # f
          BY <2>1, <3>2, Queues
        <4>3. sending'[p] # f
          BY <2>1, <3>2
        <4> QED BY <2>2, <3>1, <4>1, <4>2, <4>3
      <3>3. CASE sending[p] # e
        <4>1. InTopic(e)' => InTopic(e)
          BY <2>1, <2>5, <3>3, TopicGrows
        <4> QED BY <2>2, <2>3, <3>1, <4>1
      <3> QED BY <3>2, <3>3
    <2> QED BY <1>4, <2>4, <2>5 DEF Deliver, DeliverAgain, DeliveryFails
  <1>5. ASSUME NEW p \in Pods, LoseEvents(p)
        PROVE  NotBehind(f, e)'
    <2>1. /\ sending \in [Pods -> Events \cup {NoEvent}] /\ queue \in [Pods -> Seq(Events)]
          /\ Len(<<>>) = 0 /\ DOMAIN <<>> = {} /\ f # NoEvent /\ e # NoEvent
      BY EmptySeq, NoEventAssumption, RequestAssumption DEF TypeOK, EventsTypeOK
    <2> QED BY <1>5, <2>1 DEF LoseEvents
  <1> QED BY <1>1, <1>2, <1>3, <1>4, <1>5, NextEvents

LEMMA NextInOrder ==
    TypeOK /\ TypeOK' /\ EarlierEnded /\ AllHeard /\ OwnEvents /\ InOrder /\ [Next]_vars => InOrder'
  <1> SUFFICES ASSUME TypeOK, TypeOK', EarlierEnded, AllHeard, OwnEvents, InOrder, [Next]_vars,
                      NEW e \in Requests, NEW f \in Requests, Precedes(f, e)'
               PROVE  NotBehind(f, e)'
    BY DEF InOrder
  <1>1. CASE ~HasEvent(e)'
    BY <1>1, NothingIsBehind
  <1>2. CASE HasEvent(e)'
    <2>1. pc[e] # "idle"
      BY <1>2, EventsAreKept DEF AllHeard, Heard
    <2>2. earlier'[e] = earlier[e]
      BY <2>1, EarlierStays
    <2>3. f # e /\ Ended(f)
      BY <2>2 DEF Precedes, EarlierEnded
    <2>4. Precedes(f, e)
      BY <2>2, <2>3, EndedStays, PodsStay DEF Precedes
    <2> QED BY <2>3, <2>4, NotBehindStays DEF InOrder, Precedes
  <1> QED BY <1>1, <1>2

\* Events of deploys that one pod served one after the other are in the topic in that
\* order, although a delivery may be repeated and events may be dropped in between: the
\* channel is first in first out and there is one producer to a pod.
THEOREM OrderCorrect == Spec => []TopicKeepsOrder
  <1>1. Init => InOrder
    BY DEF Init, InOrder, Precedes
  <1>2. TypeOK /\ InOrder => TopicKeepsOrder
    <2> SUFFICES ASSUME TypeOK, InOrder, NEW i \in DOMAIN topic, NEW k \in DOMAIN topic, i < k,
                        topic[k] \in earlier[topic[i]], answer[topic[k]] = 200,
                        pod[topic[k]] = pod[topic[i]]
                 PROVE  FALSE
      BY DEF TopicKeepsOrder
    <2>1. /\ topic[i] \in Requests /\ topic[k] \in Requests
          /\ i \in 1 .. Len(topic) /\ k \in 1 .. Len(topic)
      <3>1. topic \in Seq(Events) /\ DOMAIN topic = 1 .. Len(topic)
        BY LenProperties DEF TypeOK, EventsTypeOK
      <3> QED BY <3>1, RequestAssumption, ElementOfSeq
    <2>2. NotBehind(topic[k], topic[i])
      BY <2>1 DEF InOrder, Precedes
    <2> QED BY <2>1, <2>2 DEF NotBehind
  <1> QED BY <1>1, <1>2, NextInOrder, TypeCorrect, HeardCorrect, LoneCorrect, OwnEventsCorrect, PTL
          DEF Spec

===============================================================================
