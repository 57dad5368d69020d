------------------------------ MODULE AlertRules ------------------------------
(***************************************************************************)
(* The ConfigMap app-rules, shared by every application naisd deploys.     *)
(*                                                                         *)
(* Deploys of several applications add their alert group to the ConfigMap  *)
(* (createOrUpdateAlertRules) and deletes take one out again               *)
(* (deleteConfigMapRules).  Each is a Get, a change to the copy, and a     *)
(* Create or Update of the whole object; requests are served by            *)
(* concurrent goroutines in several naisd pods, so any two may interleave  *)
(* between the Get and the write.  What keeps them apart is the            *)
(* resourceVersion carried by the copy, checked by the API server.         *)
(*                                                                         *)
(* The other resources of a deploy are in AppResources.  Nothing in naisd  *)
(* deletes the ConfigMap.                                                  *)
(***************************************************************************)
EXTENDS Naturals, Sequences

CONSTANTS Requests,     \* calls of the two handlers, each made once
          Teams,        \* manifest teams, as sequences of name parts; <<>> is none
          Apps,         \* application names, as sequences of name parts
          Namespaces,   \* namespaces, as sequences of name parts
          AlertSets,    \* the alerts a manifest may have, {} among them
          NoGroup,      \* the content of a key that is not in Data
          NoJob,        \* the job of a request that has not been made
          MaxFaults     \* bound on API calls that fail

ASSUME FaultAssumption == MaxFaults \in Nat

VARIABLES configMap,    \* app-rules in the cluster
          job,          \* what each request was called with
          pc,           \* where each handler is, or how it ended
          seen,         \* each handler's copy of app-rules
          faults        \* API calls that failed so far

vars == <<configMap, job, pc, seen, faults>>

-------------------------------------------------------------------------------
\* Names and contents.

Specs == [team : Teams \cup {<<>>}, application : Apps, namespace : Namespaces]

\* The names are joined by a dash, which they may also contain.
createDeploymentPrefix(spec) ==
    spec.team \o <<"-">> \o spec.application \o <<"-">> \o spec.namespace

Keys == {createDeploymentPrefix(spec) : spec \in Specs}

DeployJobs == [op : {"deploy"}, spec : Specs, alerts : AlertSets]

\* The delete handler knows the application and namespace, and no team.
DeleteJobs == [op : {"delete"}, spec : {s \in Specs : s.team = <<>>},
               alerts : {{}}]

Jobs == DeployJobs \cup DeleteJobs

\* A rendered group: its alert names carry the prefix, its labels the team
\* and its expressions the namespace.
Rendered(j) == [prefix |-> createDeploymentPrefix(j.spec), team |-> j.spec.team,
                namespace |-> j.spec.namespace, alerts |-> j.alerts]

Groups == {Rendered(j) : j \in DeployJobs}

ASSUME NoJobAssumption == NoJob \notin Jobs

NoData == [key \in Keys |-> NoGroup]

ConfigMaps == [exists : BOOLEAN, resourceVersion : Nat,
               data : [Keys -> Groups \cup {NoGroup}]]

\* A plausible bug: the Data of a new ConfigMap is left nil.
NewConfigMapWithoutData == [exists |-> FALSE, resourceVersion |-> 0, data |-> <<>>]

\* The object a deploy makes when it found none: no resourceVersion, no data.
NewConfigMap == [exists |-> FALSE, resourceVersion |-> 0, data |-> NoData]

\* A plausible bug: the team is left out of the key, but not of the group's name.
KeyWithoutTeam(r) == createDeploymentPrefix([job[r].spec EXCEPT !.team = <<>>])

KeyOf(r) == createDeploymentPrefix(job[r].spec)

\* A plausible bug: Data is made anew whether or not it is nil.
AddRulesToNewData(r, data) == [NoData EXCEPT ![KeyOf(r)] = Rendered(job[r])]

addRulesToConfigMap(r, data) == [data EXCEPT ![KeyOf(r)] = Rendered(job[r])]

removeRulesFromConfigMap(r, data) == [data EXCEPT ![KeyOf(r)] = NoGroup]

Edited(r) == IF job[r].op = "deploy" THEN addRulesToConfigMap(r, seen[r].data)
                                     ELSE removeRulesFromConfigMap(r, seen[r].data)

-------------------------------------------------------------------------------
\* The API server: a Create needs the name to be free, an Update the version
\* it was computed from.  createOrUpdateConfigMapResource picks between them by
\* the copy's resourceVersion.

\* A plausible bug: the object is written without its resourceVersion, which
\* makes the update unconditional.
AcceptsAnyVersion(r) == (seen[r].resourceVersion = 0) = ~configMap.exists

Accepts(r) == IF seen[r].resourceVersion = 0
                THEN ~configMap.exists
                ELSE configMap.exists /\ configMap.resourceVersion = seen[r].resourceVersion

Stored(data) == [exists |-> TRUE, resourceVersion |-> configMap.resourceVersion + 1,
                 data |-> data]

-------------------------------------------------------------------------------
\* The handlers.

Init == /\ configMap \in {NewConfigMap,
                          [exists |-> TRUE, resourceVersion |-> 1, data |-> NoData]}
        /\ job = [r \in Requests |-> NoJob]
        /\ pc = [r \in Requests |-> "idle"]
        /\ seen = [r \in Requests |-> NewConfigMap]
        /\ faults = 0

Goto(r, label) == pc' = [pc EXCEPT ![r] = label]

Start(r, j) == /\ pc[r] = "idle"
               /\ job' = [job EXCEPT ![r] = j]
               /\ Goto(r, "get")
               /\ UNCHANGED <<configMap, seen, faults>>

\* A deploy without alerts leaves app-rules alone, an older group included.
NothingToAdd(r) == job[r].op = "deploy" /\ job[r].alerts = {}

NoAlerts(r) == /\ pc[r] = "get"
               /\ NothingToAdd(r)
               /\ Goto(r, "ok")
               /\ UNCHANGED <<configMap, job, seen, faults>>

Getting(r) == pc[r] = "get" /\ ~NothingToAdd(r)

\* A plausible bug: the object is built anew and only its metadata is taken
\* from the existing one.
GetFoundMetadata(r) == /\ Getting(r)
                       /\ configMap.exists
                       /\ seen' = [seen EXCEPT ![r] = [configMap EXCEPT !.data = NoData]]
                       /\ Goto(r, "write")
                       /\ UNCHANGED <<configMap, job, faults>>

GetFound(r) == /\ Getting(r)
               /\ configMap.exists
               /\ seen' = [seen EXCEPT ![r] = configMap]
               /\ Goto(r, "write")
               /\ UNCHANGED <<configMap, job, faults>>

\* A deploy makes a new ConfigMap; a delete goes on with a nil one, whose Data
\* it reads.
GetNotFound(r) == /\ Getting(r)
                  /\ ~configMap.exists
                  /\ seen' = [seen EXCEPT ![r] = NewConfigMap]
                  /\ Goto(r, IF job[r].op = "deploy" THEN "write" ELSE "panicked")
                  /\ UNCHANGED <<configMap, job, faults>>

Fault == faults < MaxFaults /\ faults' = faults + 1

GetFails(r) == /\ Getting(r)
               /\ Fault
               /\ Goto(r, "failed")
               /\ UNCHANGED <<configMap, job, seen>>

Write(r) == /\ pc[r] = "write"
            /\ Accepts(r)
            /\ configMap' = Stored(Edited(r))
            /\ Goto(r, "ok")
            /\ UNCHANGED <<job, seen, faults>>

\* A plausible bug: a conflict is taken for a write already made.
ConflictIsFine(r) == /\ pc[r] = "write"
                     /\ ~Accepts(r)
                     /\ Goto(r, "ok")
                     /\ UNCHANGED <<configMap, job, seen, faults>>

\* Conflict or AlreadyExists: the handler fails, nobody retries.
WriteRejected(r) == /\ pc[r] = "write"
                    /\ ~Accepts(r)
                    /\ Goto(r, "failed")
                    /\ UNCHANGED <<configMap, job, seen, faults>>

\* The call returns an error: before it reached the store, or after.
WriteFails(r) == /\ pc[r] = "write"
                 /\ Fault
                 /\ \/ UNCHANGED configMap
                    \/ Accepts(r) /\ configMap' = Stored(Edited(r))
                 /\ Goto(r, "failed")
                 /\ UNCHANGED <<job, seen>>

Step(r) == \/ NoAlerts(r)
           \/ GetFound(r)
           \/ GetNotFound(r)
           \/ GetFails(r)
           \/ Write(r)
           \/ WriteRejected(r)
           \/ WriteFails(r)

Next == \E r \in Requests : \/ \E j \in Jobs : Start(r, j)
                            \/ Step(r)

Spec == Init /\ [][Next]_vars

-------------------------------------------------------------------------------
\* Properties.

\* Every variable stays in its range: a versioned object, requests with a job
\* once they have started.
TypeOK == /\ configMap \in ConfigMaps
          /\ job \in [Requests -> Jobs \cup {NoJob}]
          /\ pc \in [Requests -> {"idle", "get", "write", "ok", "failed", "panicked"}]
          /\ seen \in [Requests -> ConfigMaps]
          /\ faults \in 0 .. MaxFaults
          /\ \A r \in Requests : job[r] = NoJob <=> pc[r] = "idle"

\* A copy whose resourceVersion is the cluster's is the cluster's object: what
\* an accepted write puts back for the other applications is never stale
\* (getExistingConfigMap, createOrUpdateConfigMapResource).
CopiesAreFresh ==
    /\ configMap.exists <=> configMap.resourceVersion # 0
    /\ ~configMap.exists => configMap.data = NoData
    /\ \A r \in Requests : pc[r] = "write" =>
         /\ seen[r].exists <=> seen[r].resourceVersion # 0
         /\ seen[r].resourceVersion <= configMap.resourceVersion
         /\ ~seen[r].exists => seen[r].data = NoData
         /\ seen[r].exists /\ seen[r].resourceVersion = configMap.resourceVersion
              => seen[r].data = configMap.data

\* The alerts of a deploy answered with success stay in app-rules as they were
\* deployed until a request for the very same team, application and namespace
\* has answered: no other handler drops or replaces them, whatever it had read
\* before and whatever call failed.  It needs specs to have keys of their own,
\* which a dash inside a name can break (createDeploymentPrefix).
Deployed(r) == pc[r] = "ok" /\ job[r].op = "deploy" /\ ~NothingToAdd(r)

AnsweredForTheSame(r) == {q \in Requests \ {r} : /\ pc[q] \in {"ok", "failed"}
                                                /\ job[q].spec = job[r].spec}

AlertsStayAsDeployed ==
    \A r \in Requests : Deployed(r) /\ AnsweredForTheSame(r) = {} =>
                           configMap.data[KeyOf(r)] = Rendered(job[r])

\* An entry of app-rules changes only in a write of a request for that very
\* entry: no deploy or delete of another application can drop, overwrite or
\* resurrect it, however the handlers interleave and whatever calls fail.
EntriesChangeOnlyByTheirOwn ==
    [][\A key \in Keys : configMap'.data[key] # configMap.data[key] =>
         \E r \in Requests : /\ pc[r] = "write"
                             /\ pc'[r] \in {"ok", "failed"}
                             /\ KeyOf(r) = key]_vars

\* The handlers implement RuleBook: a call answered with success has changed
\* its own entry of the latest book and nothing else, one that failed has
\* changed its own entry or nothing.
OrderOf(j) ==
    CASE j = NoJob -> [want |-> "unasked"]
      [] j \in DeployJobs /\ j.alerts = {} -> [want |-> "nothing"]
      [] OTHER -> [want |-> "change", key |-> createDeploymentPrefix(j.spec),
                   entry |-> IF j.op = "deploy" THEN Rendered(j) ELSE NoGroup]

AnswerOf(r) == CASE pc[r] = "ok" -> "ok"
                 [] pc[r] \in {"failed", "panicked"} -> "failed"
                 [] OTHER -> "unanswered"

Book == INSTANCE RuleBook
          WITH Entries <- Groups, NoEntry <- NoGroup,
               book <- configMap.data,
               order <- [r \in Requests |-> OrderOf(job[r])],
               answer <- [r \in Requests |-> AnswerOf(r)]

ImplementsRuleBook == Book!Spec
===============================================================================
