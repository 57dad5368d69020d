------------------------------ MODULE PodBuilding ------------------------------
(***************************************************************************)
(* One deploy, from the manifest in the repository to what runs in the     *)
(* cluster: the download, the defaults, the validations, the resources of  *)
(* Fasit, and the objects built from all of these.  Beside it `nais        *)
(* upload` puts the manifest where the daemon looks for it, and `nais env` *)
(* shows a developer the variables the pods get.                           *)
(*                                                                         *)
(* Where AppResources knows of a manifest only whether it builds, this     *)
(* module says which manifests do, and what is built.  Nobody else writes  *)
(* the application's objects here.                                         *)
(***************************************************************************)
EXTENDS PodSpecs, DeploymentEvents

CONSTANTS Situations,  \* what a deploy may meet
          Times,       \* when an event may be sent
          MaxFaults    \* bound on fetches that fail or answer with an error page

\* What decides how a manifest is treated has its type.
IsManifest(m) ==
    /\ DOMAIN m = DOMAIN EmptyManifest
    /\ DOMAIN m.image = DOMAIN NoImage /\ m.image.tagged \in BOOLEAN
    /\ m.image.path \in Seq(InRange(m.image.path)) /\ {m.min, m.max, m.cpuThreshold} \subseteq Int
    /\ {m.limits, m.requests} \subseteq Lists
    /\ m.redis \in [enabled : BOOLEAN, limits : Lists, requests : Lists]
    /\ m.vault \in [enabled : BOOLEAN, sidecar : BOOLEAN]
    /\ m.used \in Seq(InRange(m.used))
    /\ {m.leaderElection, m.webproxy, m.secrets, m.ingressDisabled} \subseteq BOOLEAN

VaultSettings == {"addr", "image", "auth path", "kv path"}

\* Fasit has at most one resource of an alias and type for an environment.
ASSUME SituationAssumption ==
    \A s \in Situations :
      /\ DOMAIN s.store = {"raw", "nexus", "named", "url"}
      /\ \A place \in DOMAIN s.store : IsManifest(s.store[place].manifest)
      /\ IsManifest(s.uploads.manifest) /\ s.nexusUrlIsSet \in BOOLEAN
      /\ s.request.skipFasit \in BOOLEAN
      /\ s.daemon.vaultEnabled \in BOOLEAN /\ s.daemon.vaultSettings \subseteq VaultSettings
      /\ \A f, g \in s.found : f.alias = g.alias /\ f.type = g.type => f = g
      /\ \A config \in InRange(s.balancers) : \A path \in InRange(config.paths) :
            path.slashes \in Nat

ASSUME SendingAssumption == Times \subseteq Int /\ MaxFaults \in Nat

VARIABLES situation,  \* the request, the daemon's configuration, Fasit's resources
          store,      \* the manifest at each place the daemon looks for one
          uploaded,   \* history: how the upload ended, and whether before the deploy began
          pc,         \* where the deploy is, or how it ended
          sources,    \* the places not yet looked at
          raw,        \* the manifest that was fetched
          manifest,   \* the same with its defaults
          resources,  \* those of Fasit, as far as they are fetched
          cluster,    \* the objects made: at most one of each kind, as a sequence
          event,      \* the deployment event and when it was sent, if it was
          printed,    \* what `nais env` printed, if it did
          faults

vars == <<situation, store, uploaded, pc, sources, raw, manifest, resources, cluster,
          event, printed, faults>>

request == situation.request
daemon == situation.daemon

Fault == faults < MaxFaults /\ faults' = faults + 1

\* A place with a manifest, with a file that is no manifest, or without either.
Readable(file) == file.there /\ file.parses
File(m) == [there |-> TRUE, parses |-> TRUE, manifest |-> m]
NoFile == [there |-> FALSE, parses |-> FALSE, manifest |-> EmptyManifest]

Kinds == {"service", "redis", "pod", "secret", "autoscaler", "ingress"}
NoObjects == [kind \in Kinds |-> <<>>]

Init == /\ situation \in Situations
        /\ store = situation.store
        /\ uploaded = [ended |-> "not", before |-> FALSE]
        /\ pc = "idle"
        /\ sources = <<>>
        /\ raw = EmptyManifest /\ manifest = EmptyManifest
        /\ resources = <<>>
        /\ cluster = NoObjects
        /\ event = <<>> /\ printed = <<>>
        /\ faults = 0

-------------------------------------------------------------------------------
\* `nais upload`: the file, whatever is in it, goes to the first place the daemon looks
\* at, or to the server that NEXUS_URL names.

Uploaded == IF situation.nexusUrlIsSet THEN store
            ELSE [store EXCEPT !["raw"] = situation.uploads]
UploadEnds(how) == uploaded' = [ended |-> how, before |-> pc = "idle"]

Upload == /\ uploaded.ended = "not"
          /\ store' = Uploaded
          /\ UploadEnds("ok")
          /\ UNCHANGED <<situation, pc, sources, raw, manifest, resources, cluster, event,
                         printed, faults>>

\* The request or its answer is lost.
UploadFails == /\ uploaded.ended = "not"
               /\ Fault
               /\ store' \in {store, Uploaded}
               /\ UploadEnds("failed")
               /\ UNCHANGED <<situation, pc, sources, raw, manifest, resources, cluster,
                              event, printed>>

-------------------------------------------------------------------------------
\* The manifest (GenerateManifest).

\* A plausible bug: the newest place is looked at last.
createManifestUrlNewestLast == <<"nexus", "named", "raw">>

createManifestUrl == <<"raw", "nexus", "named">>

Start == /\ pc = "idle"
         /\ pc' = "download"
         /\ sources' = IF request.hasManifestUrl THEN <<"url">> ELSE createManifestUrl
         /\ UNCHANGED <<situation, store, uploaded, raw, manifest, resources, cluster, event,
                        printed, faults>>

Downloading == pc = "download" /\ sources # <<>>

\* The first place with a manifest counts.
FetchManifest ==
    /\ Downloading
    /\ LET file == store[Head(sources)]
       IN IF Readable(file)
          THEN raw' = file.manifest /\ pc' = "check" /\ UNCHANGED sources
          ELSE sources' = Tail(sources) /\ UNCHANGED <<raw, pc>>
    /\ UNCHANGED <<situation, store, uploaded, manifest, resources, cluster, event, printed,
                   faults>>

\* A place that cannot be reached is like one without a manifest.
FetchFails == /\ Downloading
              /\ Fault
              /\ sources' = Tail(sources)
              /\ UNCHANGED <<situation, store, uploaded, pc, raw, manifest, resources,
                             cluster, event, printed>>

NoManifest == /\ pc = "download" /\ sources = <<>>
              /\ pc' = "no manifest"
              /\ UNCHANGED <<situation, store, uploaded, sources, raw, manifest, resources,
                             cluster, event, printed, faults>>

Check == /\ pc = "check"
         /\ manifest' = AddDefaultManifestValues(raw, request.application)
         /\ pc' = IF ~ValidateManifest(manifest') THEN "rejected"
                  ELSE IF request.skipFasit THEN "service" ELSE "fasit"
         /\ UNCHANGED <<situation, store, uploaded, sources, raw, resources, cluster, event,
                        printed, faults>>
-------------------------------------------------------------------------------
\* The resources of Fasit (FetchFasitResources).

\* What Fasit has for a resource request, and what may come of each of the requests:
\* with a fault, a file may be an error page.
Found(r) == {g \in situation.found : g.alias = r.alias /\ g.type = r.type}
Outcomes(r, page) == UNION {mapToNaisResource(f, r.propertyMap, page) : f \in Found(r)}

Fetching == pc = "fasit" /\ Len(resources) < Len(ResourceRequests(manifest.used))
NextRequest == ResourceRequests(manifest.used)[Len(resources) + 1]

FetchResource == /\ Fetching
                 /\ \E r \in Outcomes(NextRequest, "") : resources' = Append(resources, r)
                 /\ UNCHANGED <<situation, store, uploaded, pc, sources, raw, manifest,
                                cluster, event, printed, faults>>

FetchErrorPage ==
    /\ Fetching
    /\ NextRequest.type = "certificate"
    /\ Fault
    /\ \E r \in Outcomes(NextRequest, "error page") : resources' = Append(resources, r)
    /\ UNCHANGED <<situation, store, uploaded, pc, sources, raw, manifest, cluster, event,
                   printed>>

\* There is no such resource, or a call fails: the deploy ends.
FetchResourceFails == /\ Fetching
                      /\ \/ Found(NextRequest) = {} /\ UNCHANGED faults
                         \/ Fault
                      /\ pc' = "no resources"
                      /\ UNCHANGED <<situation, store, uploaded, sources, raw, manifest,
                                     resources, cluster, event, printed>>

\* Without an answer the deploy goes on as if there were none.
FetchLoadBalancers ==
    /\ pc = "fasit" /\ Len(resources) = Len(ResourceRequests(manifest.used))
    /\ \/ resources' = resources \o LoadBalancers(situation.balancers) /\ UNCHANGED faults
       \/ Fault /\ UNCHANGED resources
    /\ pc' = "service"
    /\ UNCHANGED <<situation, store, uploaded, sources, raw, manifest, cluster, event, printed>>

-------------------------------------------------------------------------------
\* The objects (createOrUpdateK8sResources).

Make(kind, object, next) == cluster' = [cluster EXCEPT ![kind] = <<object>>] /\ pc' = next
End(how) == pc' = how /\ UNCHANGED cluster

Object(kind) == /\ pc = kind
                /\ UNCHANGED <<situation, store, uploaded, sources, raw, manifest, resources,
                               event, printed, faults>>

\* The service account, the role binding and the service depend on nothing.
MakeService == Object("service") /\ Make("service", request.application, "redis")

MakeRedis ==
    /\ Object("redis")
    /\ IF ~manifest.redis.enabled THEN End("pod")
       ELSE IF createRedisPodSpec(manifest.redis) = "panic" THEN End("panicked")
       ELSE LET redis == updateDefaultRedisValues(manifest.redis)
            IN IF AdmitsResources(redis.requests, redis.limits)
               THEN Make("redis", redis, "pod") ELSE End("refused")

MakePod ==
    /\ Object("pod")
    /\ IF createPodSpecFails(request, manifest, resources, daemon) THEN End("not built")
       ELSE LET pod == createPodSpec(request, manifest, resources, daemon)
            IN IF AdmitsPod(pod) THEN Make("pod", pod, "secret") ELSE End("refused")

MakeSecret == /\ Object("secret")
              /\ IF createSecretData(resources) = NoEntries THEN End("autoscaler")
                 ELSE Make("secret", createSecretData(resources), "autoscaler")

MakeAutoscaler ==
    /\ Object("autoscaler")
    /\ IF AdmitsAutoscaler(manifest)
       THEN Make("autoscaler", [min |-> manifest.min, max |-> manifest.max], "ingress")
       ELSE End("refused")

MakeIngress ==
    /\ Object("ingress")
    /\ IF manifest.ingressDisabled THEN End("publish")
       ELSE Make("ingress", createIngressRules(request, daemon, resources), "publish")

Publish == /\ pc = "publish"
           /\ \E now \in Times :
                event' = <<[sent |-> now, says |-> NewDeploymentEvent(request, manifest, now)]>>
           /\ pc' = "deployed"
           /\ UNCHANGED <<situation, store, uploaded, sources, raw, manifest, resources,
                          cluster, printed, faults>>

-------------------------------------------------------------------------------
\* `nais env`, with the manifest that was deployed, after the deploy.

\* The text that is printed is the format string of fmt.Printf, which has no arguments: it
\* prints another text for one that has a percent sign, half of a pair or what it says is
\* missing.
Printf(value) == IF "%" \in value.signs THEN [value EXCEPT !.formatted = TRUE] ELSE value

\* A plausible bug: files are printed by the name they have in Fasit.
PrintedWithFileNames(r) ==
    {<<ToEnvironmentVariable(r, key), Text(Printf(r.secret[key]))>> : key \in DOMAIN r.secret}
    \cup {<<ToEnvironmentVariable(r, key), Text(Printf(r.properties[key]))>>
            : key \in DOMAIN r.properties}
    \cup {<<ToEnvironmentVariable(r, key), <<"/var/run/secrets/naisd.io/", key>> >>
            : key \in DOMAIN r.certificates}

\* Each line is a name and a value in quotes; no value is escaped.
Printed(r) ==
    {<<ToEnvironmentVariable(r, key), Text(Printf(r.secret[key]))>> : key \in DOMAIN r.secret}
    \cup {<<ToEnvironmentVariable(r, key), Text(Printf(r.properties[key]))>>
            : key \in DOMAIN r.properties}
    \cup {<<ToEnvironmentVariable(r, key), MountPoint(r, key)>> : key \in DOMAIN r.certificates}

\* It fetches everything anew, does not look for duplicates, and knows of no variables
\* but those of Fasit.  If a resource is not found it prints nothing.
ShowVariables ==
    /\ pc = "deployed" /\ printed = <<>>
    /\ LET wanted == ResourceRequests(raw.used)
       IN \E fetched \in [DOMAIN wanted -> UNION {Outcomes(r, "") : r \in InRange(wanted)}] :
             /\ \A i \in DOMAIN wanted : fetched[i] \in Outcomes(wanted[i], "")
             /\ printed' = <<UNION {Printed(fetched[i]) : i \in DOMAIN fetched}>>
    /\ UNCHANGED <<situation, store, uploaded, pc, sources, raw, manifest, resources, cluster,
                   event, faults>>

-------------------------------------------------------------------------------
Developer == Upload \/ UploadFails \/ ShowVariables
Daemon == \/ Start \/ FetchManifest \/ FetchFails \/ NoManifest \/ Check
          \/ FetchResource \/ FetchErrorPage \/ FetchResourceFails \/ FetchLoadBalancers
          \/ MakeService \/ MakeRedis \/ MakePod \/ MakeSecret \/ MakeAutoscaler
          \/ MakeIngress \/ Publish
Next == Developer \/ Daemon
Spec == Init /\ [][Next]_vars
-------------------------------------------------------------------------------
Ends == {"no manifest", "rejected", "no resources", "panicked", "not built", "refused",
         "deployed"}

\* Every variable has its type; each path of an ingress begins with a slash, without
\* which the API server has no use for it (createIngressRule).
TypeOK ==
    /\ uploaded \in [ended : {"not", "ok", "failed"}, before : BOOLEAN]
    /\ pc \in {"idle", "download", "check", "fasit", "publish"} \cup Kinds \cup Ends
    /\ DOMAIN cluster = Kinds /\ \A kind \in Kinds : Len(cluster[kind]) <= 1
    /\ \A rules \in InRange(cluster["ingress"]) : \A rule \in rules : rule.slashes >= 1
    /\ Len(event) <= 1 /\ Len(printed) <= 1
    /\ faults \in 0 .. MaxFaults

\* A manifest uploaded before a deploy begins is the one that is deployed, whatever
\* older ones are elsewhere, unless it cannot be read, a fetch failed, or the upload or
\* the request names another place (downloadManifest, createManifestUrl, and the URL of
\* cli/cmd/upload.go).
UploadedManifestIsUsed ==
    /\ uploaded = [ended |-> "ok", before |-> TRUE] /\ Readable(situation.uploads)
    /\ ~situation.nexusUrlIsSet /\ ~request.hasManifestUrl /\ faults = 0
    /\ pc \notin {"idle", "download"}
    => pc # "no manifest" /\ raw = situation.uploads.manifest

-------------------------------------------------------------------------------
\* What may be wrong with what a deploy is given, told from the request and Fasit and
\* from the manifest as it was written.

\* Nothing to read was ever at one of the places.
Places == IF request.hasManifestUrl THEN {"url"} ELSE InRange(createManifestUrl)
Was(place) == {situation.store[place]}
                \cup IF place = "raw" /\ uploaded.ended # "not" /\ ~situation.nexusUrlIsSet
                     THEN {situation.uploads} ELSE {}
NothingToRead == \A place \in Places : \A file \in Was(place) : ~Readable(file)
SomethingUnreadable == \A place \in Places : \E file \in Was(place) : ~Readable(file)

\* The manifest breaks a rule; a number that is 0 counts as not written, and nonsense for
\* Redis is overlooked beside an empty list.
IsNonsense(quantity) == quantity.kind = "nonsense"
Invalid ==
    \/ raw.image.tagged
    \/ raw.strategy \notin {"", "RollingUpdate", "Recreate"}
    \/ (IF raw.min = 0 THEN 2 ELSE raw.min) > (IF raw.max = 0 THEN 4 ELSE raw.max)
    \/ raw.cpuThreshold \notin {0} \cup 10 .. 90
    \/ \E list \in {raw.limits, raw.requests} : IsNonsense(list.cpu) \/ IsNonsense(list.memory)
    \/ \E r \in InRange(raw.exposed) \cup InRange(raw.used) : r.type = "" \/ r.alias = <<>>
    \/ \E alert \in InRange(raw.alerts) : alert # "complete"
    \/ IsNonsense(raw.redis.limits.cpu) \/ IsNonsense(raw.redis.requests.memory)
    \/ IsNonsense(raw.redis.limits.memory) /\ ~IsEmpty(raw.redis.requests)
    \/ IsNonsense(raw.redis.requests.cpu) /\ ~IsEmpty(raw.redis.limits)

\* Fasit does not have what is asked for.
ResourceIsMissing ==
    ~request.skipFasit /\ \E r \in InRange(ResourceRequests(raw.used)) : Found(r) = {}

\* The nonsense that is overlooked.
RedisPanics ==
    /\ raw.redis.enabled
    /\ \/ IsNonsense(raw.redis.limits.memory) /\ IsEmpty(raw.redis.requests)
       \/ IsNonsense(raw.redis.requests.cpu) /\ IsEmpty(raw.redis.limits)

\* A negative amount, or a limit below the request, each of which may be a default.
Given(quantity, default) == IF quantity.kind = "unset" THEN default ELSE quantity.amount
AmountsAreBad(requests, limits, request0, limit0) ==
    \E kind \in {"cpu", "memory"} :
        LET requested == Given(requests[kind], request0[kind])
            limit == Given(limits[kind], limit0[kind])
        IN requested < 0 \/ limit < 0 \/ requested > limit
BadAmounts == AmountsAreBad(raw.requests, raw.limits, [cpu |-> 200, memory |-> 256],
                                                      [cpu |-> 500, memory |-> 512])
RedisBadAmounts ==
    LET default == [cpu |-> 100, memory |-> 128]
    IN raw.redis.enabled /\ AmountsAreBad(raw.redis.requests, raw.redis.limits, default, default)

\* The application is called like something else in its pod.
NameTaken ==
    request.application \in
      (IF raw.leaderElection THEN {"elector"} ELSE {})
      \cup (IF UsesVault(raw, daemon) THEN {"vks-init"} ELSE {})
      \cup (IF UsesVault(raw, daemon) /\ raw.vault.sidecar THEN {"vks-sidecar"} ELSE {})
      \cup (IF UsesVault(raw, daemon) /\ hasCertificate(resources) THEN {"vault-secrets"} ELSE {})

\* The keys of a resource, and the names that are given twice or to a default.
KeysOf(r) == {<<"property", key>> : key \in DOMAIN r.properties}
             \cup {<<"secret", key>> : key \in DOMAIN r.secret}
             \cup {<<"file", key>> : key \in DOMAIN r.certificates}
Givers(name) == {x \in UNION {{<<i, key>> : key \in KeysOf(resources[i])} : i \in DOMAIN resources} :
                    ToEnvironmentVariable(resources[x[1]], x[2][2]) = name}
OwnNames == {v.name : v \in createDefaultEnvironmentVariables(request)
                             \cup RedisVariables(request, raw)}
NamesClash ==
    \/ \E name \in OwnNames : Givers(name) # {}
    \/ \E i \in DOMAIN resources : \E key \in KeysOf(resources[i]) :
          \E other \in Givers(ToEnvironmentVariable(resources[i], key[2])) : other # <<i, key>>

DaemonIsMisconfigured ==
    \/ raw.webproxy /\ daemon.proxyURL \notin {"", "host:port"}
    \/ UsesVault(raw, daemon) /\ \E setting \in VaultSettings : setting \notin daemon.vaultSettings

\* Wherever a deploy ends, the reason was in what it was given, or a fetch failed, and one
\* that deploys was given none of the reasons; without a valid manifest and resources it
\* makes nothing, and every other reason is found only between its writes
\* (GenerateManifest and FetchFasitResources, then createResourceLimits, createPodSpec and
\* the API server).
EndsHaveCauses ==
    /\ pc = "no manifest" => faults > 0 \/ SomethingUnreadable
    /\ pc = "rejected" => Invalid
    /\ pc = "no resources" => faults > 0 \/ ResourceIsMissing
    /\ pc \in {"no manifest", "rejected", "no resources"} => cluster = NoObjects
    /\ pc = "panicked" => RedisPanics
    /\ pc = "not built" => NamesClash \/ DaemonIsMisconfigured
    /\ pc = "refused" => BadAmounts \/ RedisBadAmounts \/ NameTaken \/ raw.min < 0
    /\ pc = "deployed" => ~(\/ NothingToRead \/ Invalid \/ ResourceIsMissing
                            \/ RedisPanics \/ NamesClash \/ DaemonIsMisconfigured
                            \/ BadAmounts \/ RedisBadAmounts \/ NameTaken \/ raw.min < 0)

-------------------------------------------------------------------------------
\* What the application sees.

Pod == cluster["pod"][1]
SecretData == IF cluster["secret"] = <<>> THEN NoEntries ELSE cluster["secret"][1]

\* Of the variables with a name the last one counts.
Winner(name) == CHOOSE v \in Pod.containers[1].env :
                    /\ v.name = name
                    /\ \A w \in Pod.containers[1].env : w.name = name => w.stage <= v.stage
Sees(name) == IF Winner(name).value[1] = "secret" THEN Text(SecretData[Winner(name).value[2]])
              ELSE Winner(name).value

\* Names the daemon adds after it looked for duplicates.
AddedUnchecked == {v.name : v \in {w \in Pod.containers[1].env : w.stage > 2}}

\* No two variables have the same name, so that each means what the resource or the
\* daemon that gave it meant; those of the web proxy and the elector are not compared
\* with the others, and win (checkForDuplicates, createProxyEnvironmentVariables).
VariablesMeanOneThing ==
    cluster["pod"] # <<>> =>
      \A v, w \in Pod.containers[1].env :
          v # w /\ v.name = w.name => v.name \in AddedUnchecked

\* Once the Secret is there, it has under each key that a variable or a volume of the
\* pod refers to the value the resource has (createEnvironmentVariables,
\* createCertificateVolume and createSecretData name the keys, each for itself).
SecretHoldsWhatPodsRead ==
    cluster["pod"] # <<>> /\ pc # "secret" =>
      \A i \in DOMAIN resources :
        LET r == resources[i]
        IN /\ \A key \in DOMAIN r.secret :
                 ToEnvironmentVariable(r, key) \notin AddedUnchecked =>
                   /\ ToResourceVariable(r, key) \in DOMAIN SecretData
                   /\ Sees(ToEnvironmentVariable(r, key)) = Text(r.secret[key])
           /\ \A file \in DOMAIN r.certificates :
                 \E volume \in InRange(Pod.volumes) : \E item \in volume.items :
                    /\ MountPoint(r, file) = <<"/var/run/secrets/naisd.io/", item>>
                    /\ item \in DOMAIN SecretData /\ SecretData[item] = r.certificates[file]

\* Names of variables that are the same for the developer and the pods: those not added
\* unchecked, and not of resources with several secrets, of which each fetch takes any one.
Random == {ToEnvironmentVariable(r, Password)
             : r \in {q \in InRange(resources) :
                        \E f \in situation.found :
                           f.alias = q.name /\ \E k, l \in DOMAIN f.secrets : k # l}}
Plain(name) == name \notin AddedUnchecked \cup Random

\* Signs a value has.
Signs(value) == IF value[1] = "text" THEN value[2].signs ELSE {}

\* A developer is shown the names of the variables of Fasit that the pods have, no more and
\* no less, and their values but for those with a percent sign or a quote (`nais env`:
\* "fetch the same environment variables from fasit that naisd would give a pod").
DeveloperSeesWhatPodsSee ==
    printed # <<>> /\ ~request.skipFasit =>
      LET given == {v \in Pod.containers[1].env : v.stage = 2}
          Shown(name) == Plain(name) /\ Signs(Sees(name)) = {}
      IN /\ {line[1] : line \in printed[1]} = {v.name : v \in given}
         /\ \A line \in printed[1] : Shown(line[1]) => Sees(line[1]) = line[2]
         /\ \A v \in given : Shown(v.name) => <<v.name, Sees(v.name)>> \in printed[1]

-------------------------------------------------------------------------------
\* What others are told.

\* A reader of an event finds a time less than half the width and a second from when it
\* was sent, although the second part is cut (convertTimestamp, GetTimestampAsTime): 3.2
\* seconds in the code.
EventTimeIsClose ==
    event # <<>> =>
      LET read == GetTimestampAsTime(event[1].says.timestamp)
          off == read - event[1].sent
      IN -(Width \div 2) - Second <= off /\ off <= Width \div 2 + Second

PublicHost == <<"tjenester.nav.no">>
FasitHasPublicHost ==
    \E r \in InRange(resources) : \E ingress \in r.ingresses : ingress.host = PublicHost

\* How the name of a repository may be written: that of one on Docker Hub without its
\* registry, and there that of one in the library without the library.
Spellings(full) ==
    LET paths == {full.path} \cup IF full.path[1] = "library" /\ Len(full.path) = 2
                                  THEN {Tail(full.path)} ELSE {}
    IN IF full.registry = "docker.io" THEN [registry : {"", "docker.io"}, path : paths]
       ELSE {full}

\* An event has the full name of the repository of the image that runs, however the
\* manifest spells it, and its version, if Docker can parse them, and calls production the
\* environment whose ingress has the public host, unless it has that from a load balancer
\* of Fasit (NewDeploymentEvent, createPodSpec, createSBSPublicHostname).
EventTellsWhatRuns ==
    event # <<>> =>
      LET says == event[1].says
          runs == Pod.image
      IN /\ cluster["pod"] # <<>> /\ cluster["autoscaler"] # <<>>
         /\ request.version.tag # "unparsable" =>
              /\ says.image.name.registry # ""
              /\ [registry |-> runs.name.registry, path |-> runs.name.path]
                    \in Spellings(says.image.name)
              /\ IF runs.version.digest = "" THEN says.version = runs.version.tag
                 ELSE says.image.hash = runs.version.digest
         /\ request.zone = "sbs" /\ ~manifest.ingressDisabled /\ ~FasitHasPublicHost =>
              ((says.environment = "production") <=>
                 \E rule \in cluster["ingress"][1] : rule.host = PublicHost)
===============================================================================
