--------------------------- MODULE PodOutcomesProofs ---------------------------
(***************************************************************************)
(* For any situations, words, resources and times: what a deploy ends      *)
(* with, and that the pod, its Secret, `nais env` and the event agree.     *)
(*                                                                         *)
(* One inductive invariant follows a deploy (DeployIsMade): its manifest   *)
(* is one the situation has, its resources are outcomes of the requests,   *)
(* and each object is made of these.  The rest is about the functions that *)
(* make them: what the defaults and the validations leave of a manifest,   *)
(* which names and keys a pod's variables have, and what the Secret has    *)
(* under a key.                                                            *)
(***************************************************************************)
EXTENDS PodBuildingProofs

-------------------------------------------------------------------------------
\* Where a deploy is.

Early == {"idle", "download", "no manifest", "check"}
WithoutObjects == Early \cup {"rejected", "fasit", "no resources", "service"}
AfterAutoscaler == {"ingress", "publish", "deployed"}
AfterSecret == {"autoscaler"} \cup AfterAutoscaler
AfterPod == {"secret"} \cup AfterSecret
AfterRedis == {"pod", "not built"} \cup AfterPod
Building == {"service", "redis", "panicked", "refused"} \cup AfterRedis

\* What there is to make.
TheRedis == updateDefaultRedisValues(manifest.redis)
ThePod == createPodSpec(request, manifest, resources, daemon)
TheSecret == createSecretData(resources)
TheRules == createIngressRules(request, daemon, resources)
PodFails == createPodSpecFails(request, manifest, resources, daemon)

-------------------------------------------------------------------------------
\* The inductive invariant.

\* The manifest is one of those the situation has, with its defaults once it is
\* checked, and valid if the deploy goes on.
ManifestIsKept ==
    /\ situation \in Situations
    /\ DOMAIN store = {"raw", "nexus", "named", "url"}
    /\ \A place \in DOMAIN store : IsManifest(store[place].manifest)
    /\ sources \in Seq({"raw", "nexus", "named", "url"})
    /\ IsManifest(raw)
    /\ pc \in Early \cup {"rejected", "fasit", "no resources"} \cup Building
    /\ pc \notin Early => manifest = AddDefaultManifestValues(raw, request.application)
    /\ pc \notin Early => (ValidateManifest(manifest) <=> pc # "rejected")

Wanted == ResourceRequests(raw.used)
\* What may come of a request.
Comes(r) == Outcomes(r, "") \cup Outcomes(r, "error page")
OfFasit == (UNION {Comes(r) : r \in InRange(Wanted)})
             \cup InRange(LoadBalancers(situation.balancers))

\* Each resource is an outcome of the request at its position; after these there may be
\* the load balancers.
ResourcesAreWanted ==
    /\ resources \in Seq(OfFasit)
    /\ pc \in Early \cup {"rejected"} \/ request.skipFasit => resources = <<>>
    /\ request.skipFasit => pc \notin {"fasit", "no resources"}
    /\ pc \in {"fasit", "no resources"} => Len(resources) <= Len(Wanted)
    /\ pc \in Building /\ ~request.skipFasit => Len(Wanted) <= Len(resources)
    /\ \A i \in DOMAIN resources :
          IF i <= Len(Wanted) THEN resources[i] \in Comes(Wanted[i])
          ELSE resources[i] \in InRange(LoadBalancers(situation.balancers))

\* Nothing is made before its turn, each object is made of the manifest and the resources
\* there are, and what ended the deploy still holds.
ObjectsAreBuilt ==
    /\ DOMAIN cluster = Kinds
    /\ pc \in WithoutObjects => cluster = NoObjects
    /\ cluster["service"] \in {<<>>, <<request.application>>}
    /\ cluster["redis"] \in {<<>>, <<TheRedis>>}
    /\ cluster["pod"] \in {<<>>, <<ThePod>>}
    /\ cluster["secret"] \in {<<>>, <<TheSecret>>}
    /\ cluster["autoscaler"] \in {<<>>, <<[min |-> manifest.min, max |-> manifest.max]>>}
    /\ cluster["ingress"] \in {<<>>, <<TheRules>>}
    /\ pc \in AfterRedis /\ manifest.redis.enabled =>
          /\ createRedisPodSpec(manifest.redis) # "panic"
          /\ AdmitsResources(TheRedis.requests, TheRedis.limits)
    /\ pc \in AfterPod => cluster["pod"] # <<>> /\ AdmitsPod(ThePod)
    /\ cluster["secret"] # <<>> => cluster["pod"] # <<>> /\ pc # "secret"
    /\ cluster["ingress"] # <<>> => pc \in {"publish", "deployed"}
    /\ cluster["pod"] # <<>> => ~PodFails /\ pc \in AfterPod \cup {"refused"}
    /\ cluster["pod"] # <<>> /\ pc # "secret" =>
          cluster["secret"] = IF TheSecret = NoEntries THEN <<>> ELSE <<TheSecret>>
    /\ pc \in AfterAutoscaler => cluster["autoscaler"] # <<>> /\ AdmitsAutoscaler(manifest)
    /\ pc \in {"publish", "deployed"} =>
          cluster["ingress"] = IF manifest.ingressDisabled THEN <<>> ELSE <<TheRules>>
    /\ pc = "panicked" => manifest.redis.enabled /\ createRedisPodSpec(manifest.redis) = "panic"
    /\ pc = "not built" => PodFails
    /\ pc = "refused" =>
          \/ manifest.redis.enabled /\ ~AdmitsResources(TheRedis.requests, TheRedis.limits)
          \/ ~PodFails /\ ~AdmitsPod(ThePod)
          \/ ~AdmitsAutoscaler(manifest)

Answers == UNION {Outcomes(r, "") : r \in InRange(Wanted)}

\* What is told is told of a finished deploy.
ReportsAreOfTheDeploy ==
    /\ \/ event = <<>>
       \/ /\ pc = "deployed"
          /\ \E now \in Times :
               event = <<[sent |-> now, says |-> NewDeploymentEvent(request, manifest, now)]>>
    /\ \/ printed = <<>>
       \/ /\ pc = "deployed"
          /\ \E fetched \in [DOMAIN Wanted -> Answers] :
               /\ \A i \in DOMAIN Wanted : fetched[i] \in Outcomes(Wanted[i], "")
               /\ printed = <<UNION {Printed(fetched[i]) : i \in DOMAIN fetched}>>

Counted == /\ uploaded \in [ended : {"not", "ok", "failed"}, before : BOOLEAN]
           /\ faults \in 0 .. MaxFaults

\* What the search for a manifest and for resources found, told from what was ever at
\* the places and from Fasit.
Search == {"idle", "download", "no manifest"}
WasPassedBy(place) == faults > 0 \/ \E file \in Was(place) : ~Readable(file)
SearchIsTold ==
    /\ \A place \in DOMAIN store : store[place] \in Was(place)
    /\ pc = "download" => /\ InRange(sources) \subseteq Places
                          /\ \A place \in Places \ InRange(sources) : WasPassedBy(place)
    /\ pc = "no manifest" => \A place \in Places : WasPassedBy(place)
    /\ pc \notin Search => ~NothingToRead
    /\ pc = "no resources" => faults > 0 \/ ResourceIsMissing

DeployIsMade == /\ ManifestIsKept /\ ResourcesAreWanted /\ ObjectsAreBuilt
                /\ ReportsAreOfTheDeploy /\ Counted /\ SearchIsTold

-------------------------------------------------------------------------------
\* Sequences.

LEMMA NoneInEmpty == InRange(<<>>) = {}
  <1>1. DOMAIN <<>> = {}
    OBVIOUS
  <1> QED BY <1>1, Zenon DEF InRange

LEMMA NoKeys == DOMAIN NoEntries = {}
  BY DEF NoEntries

LEMMA InRangeOf ==
    ASSUME NEW s, NEW i \in DOMAIN s
    PROVE  s[i] \in InRange(s)
  BY DEF InRange

-------------------------------------------------------------------------------
\* Manifests.

LEMMA EmptyIsManifest == IsManifest(EmptyManifest)
  <1>1. <<>> \in Seq(InRange(<<>>))
    OBVIOUS
  <1>2. NoList \in Lists
    BY DEF NoList, Lists, Unset, Quantities
  <1>3. NoImage.tagged \in BOOLEAN /\ NoImage.path \in Seq(InRange(NoImage.path))
    BY <1>1 DEF NoImage
  <1> QED BY <1>1, <1>2, <1>3 DEF IsManifest, EmptyManifest

\* What the defaults fill in and what they leave.
AppRequests0 == [cpu |-> Amount(200), memory |-> Amount(256)]
AppLimits0 == [cpu |-> Amount(500), memory |-> Amount(512)]
Image0(application) ==
    [registry |-> "docker.adeo.no:5000", path |-> <<application>>, tagged |-> FALSE]

LEMMA Defaults ==
    ASSUME NEW m, IsManifest(m), NEW application
    PROVE  LET filled == AddDefaultManifestValues(m, application)
           IN /\ filled.min = Merged(m.min, 0, 2) /\ filled.max = Merged(m.max, 0, 4)
              /\ filled.cpuThreshold = Merged(m.cpuThreshold, 0, 50)
              /\ filled.strategy = Merged(m.strategy, "", "RollingUpdate")
              /\ filled.image = Merged(m.image, NoImage, Image0(application))
              /\ filled.limits = MergedList(m.limits, AppLimits0)
              /\ filled.requests = MergedList(m.requests, AppRequests0)
              /\ filled.redis = m.redis /\ filled.used = m.used /\ filled.vault = m.vault
              /\ filled.secrets = m.secrets /\ filled.leaderElection = m.leaderElection
              /\ filled.webproxy = m.webproxy /\ filled.ingressDisabled = m.ingressDisabled
              /\ filled.exposed = m.exposed /\ filled.alerts = m.alerts
  <1> DEFINE default == GetDefaultManifest(application)
  <1>1. /\ default.min = 2 /\ default.max = 4 /\ default.cpuThreshold = 50
        /\ default.strategy = "RollingUpdate" /\ default.image = Image0(application)
        /\ default.limits = AppLimits0 /\ default.requests = AppRequests0
    BY DEF GetDefaultManifest, EmptyManifest, Image0, AppLimits0, AppRequests0
  <1>2. {"image", "strategy", "min", "max", "cpuThreshold", "limits", "requests", "redis",
         "used", "exposed", "alerts", "vault", "secrets", "leaderElection", "webproxy",
         "ingressDisabled"}
          \subseteq DOMAIN m
    BY DEF IsManifest, EmptyManifest
  <1> HIDE DEF default
  <1> QED BY <1>1, <1>2 DEF AddDefaultManifestValues, default

\* The same of the manifest of a deploy that is checked.
Filled == IsManifest(raw) /\ manifest = AddDefaultManifestValues(raw, request.application)

LEMMA FilledIs ==
    ASSUME Filled
    PROVE  /\ manifest.min = Merged(raw.min, 0, 2) /\ manifest.max = Merged(raw.max, 0, 4)
           /\ manifest.cpuThreshold = Merged(raw.cpuThreshold, 0, 50)
           /\ manifest.strategy = Merged(raw.strategy, "", "RollingUpdate")
           /\ manifest.image = Merged(raw.image, NoImage, Image0(request.application))
           /\ manifest.limits = MergedList(raw.limits, AppLimits0)
           /\ manifest.requests = MergedList(raw.requests, AppRequests0)
           /\ manifest.redis = raw.redis /\ manifest.used = raw.used
           /\ manifest.vault = raw.vault /\ manifest.secrets = raw.secrets
           /\ manifest.leaderElection = raw.leaderElection
           /\ manifest.webproxy = raw.webproxy
           /\ manifest.ingressDisabled = raw.ingressDisabled
           /\ manifest.exposed = raw.exposed /\ manifest.alerts = raw.alerts
  <1> DEFINE application == request.application
  <1>1. IsManifest(raw) /\ manifest = AddDefaultManifestValues(raw, application)
    BY DEF Filled
  <1> HIDE DEF application
  <1>2. manifest.min = Merged(raw.min, 0, 2) /\ manifest.max = Merged(raw.max, 0, 4)
    BY <1>1, Defaults
  <1>4. manifest.cpuThreshold = Merged(raw.cpuThreshold, 0, 50)
    BY <1>1, Defaults
  <1>5. manifest.strategy = Merged(raw.strategy, "", "RollingUpdate")
    BY <1>1, Defaults
  <1>6. manifest.image = Merged(raw.image, NoImage, Image0(application))
    BY <1>1, Defaults
  <1>7. manifest.limits = MergedList(raw.limits, AppLimits0)
    BY <1>1, Defaults
  <1>8. manifest.requests = MergedList(raw.requests, AppRequests0)
    BY <1>1, Defaults
  <1>3. /\ manifest.redis = raw.redis /\ manifest.used = raw.used
        /\ manifest.vault = raw.vault /\ manifest.secrets = raw.secrets
        /\ manifest.leaderElection = raw.leaderElection
        /\ manifest.webproxy = raw.webproxy
        /\ manifest.ingressDisabled = raw.ingressDisabled
        /\ manifest.exposed = raw.exposed /\ manifest.alerts = raw.alerts
    BY <1>1, Defaults, Zenon
  <1> QED BY <1>2, <1>3, <1>4, <1>5, <1>6, <1>7, <1>8 DEF application

-------------------------------------------------------------------------------
\* The beginning.

LEMMA InitMade == Init => DeployIsMade
  <1> SUFFICES ASSUME Init PROVE DeployIsMade
    OBVIOUS
  <1>1. /\ situation \in Situations /\ store = situation.store
        /\ pc = "idle" /\ sources = <<>> /\ raw = EmptyManifest /\ resources = <<>>
        /\ cluster = NoObjects /\ event = <<>> /\ printed = <<>> /\ faults = 0
        /\ uploaded = [ended |-> "not", before |-> FALSE]
    BY DEF Init
  <1>2. ManifestIsKept
    BY <1>1, SituationAssumption, EmptyIsManifest DEF ManifestIsKept, Early
  <1>3. ResourcesAreWanted
    BY <1>1 DEF ResourcesAreWanted, Building, AfterRedis, AfterPod, AfterSecret, AfterAutoscaler
  <1>4. ObjectsAreBuilt
    BY <1>1 DEF ObjectsAreBuilt, NoObjects, Kinds, WithoutObjects, Early, Building, AfterRedis,
                AfterPod, AfterSecret, AfterAutoscaler
  <1>5. ReportsAreOfTheDeploy /\ Counted
    BY <1>1, SendingAssumption DEF ReportsAreOfTheDeploy, Counted
  <1>6. SearchIsTold
    BY <1>1 DEF SearchIsTold, Was, Search
  <1> QED BY <1>2, <1>3, <1>4, <1>5, <1>6 DEF DeployIsMade

-------------------------------------------------------------------------------
\* The manifest.

\* Where the deploy goes from here without another manifest, and what it keeps.
SameManifest == UNCHANGED <<situation, store, sources, raw, manifest>>

LEMMA ManifestStays ==
    ASSUME ManifestIsKept, SameManifest, pc \notin Early \cup {"rejected"},
           pc' \in {"fasit", "no resources"} \cup Building
    PROVE  ManifestIsKept'
  BY DEF ManifestIsKept, SameManifest, Early, Building, AfterRedis, AfterPod, AfterSecret,
         AfterAutoscaler, request

LEMMA StepKeeps == ManifestIsKept /\ [Next]_vars => ManifestIsKept'
  <1> SUFFICES ASSUME ManifestIsKept, [Next]_vars PROVE ManifestIsKept'
    OBVIOUS
  <1> USE DEF Early, Building, AfterRedis, AfterPod, AfterSecret, AfterAutoscaler
  <1>1. CASE Upload \/ UploadFails
    <2>1. /\ store' \in {store, [store EXCEPT !["raw"] = situation.uploads]}
          /\ UNCHANGED <<situation, pc, sources, raw, manifest>>
      BY <1>1 DEF Upload, UploadFails, Uploaded
    <2>2. IsManifest(situation.uploads.manifest)
      BY SituationAssumption DEF ManifestIsKept
    <2>3. /\ DOMAIN store' = {"raw", "nexus", "named", "url"}
          /\ \A place \in DOMAIN store' : IsManifest(store'[place].manifest)
      BY <2>1, <2>2 DEF ManifestIsKept
    <2> QED BY <2>1, <2>3 DEF ManifestIsKept, request
  <1>2. CASE Start
    <2>1. sources' \in Seq({"raw", "nexus", "named", "url"})
      <3>1. /\ <<"url">> \in Seq({"raw", "nexus", "named", "url"})
            /\ createManifestUrl \in Seq({"raw", "nexus", "named", "url"})
        BY DEF createManifestUrl
      <3>2. sources' \in {<<"url">>, createManifestUrl}
        BY <1>2, Zenon DEF Start
      <3> QED BY <3>1, <3>2
    <2> QED BY <1>2, <2>1 DEF Start, ManifestIsKept
  <1>3. CASE FetchManifest
    <2>1. Head(sources) \in DOMAIN store /\ Tail(sources) \in Seq({"raw", "nexus", "named", "url"})
      BY <1>3 DEF FetchManifest, Downloading, ManifestIsKept
    <2>2. /\ UNCHANGED <<situation, store, manifest>> /\ pc = "download"
          /\ \/ raw' = store[Head(sources)].manifest /\ pc' = "check" /\ UNCHANGED sources
             \/ sources' = Tail(sources) /\ UNCHANGED <<raw, pc>>
      BY <1>3 DEF FetchManifest, Downloading
    <2>3. IsManifest(raw') /\ sources' \in Seq({"raw", "nexus", "named", "url"})
      BY <2>1, <2>2 DEF ManifestIsKept
    <2> QED BY <2>2, <2>3 DEF ManifestIsKept
  <1>4. CASE FetchFails
    <2>1. Tail(sources) \in Seq({"raw", "nexus", "named", "url"})
      BY <1>4 DEF FetchFails, Downloading, ManifestIsKept
    <2> QED BY <1>4, <2>1 DEF FetchFails, Downloading, ManifestIsKept
  <1>5. CASE NoManifest
    BY <1>5 DEF NoManifest, ManifestIsKept
  <1>6. CASE Check
    <2>1. /\ pc' \in {"rejected", "service", "fasit"}
          /\ ValidateManifest(manifest') <=> pc' # "rejected"
          /\ manifest' = AddDefaultManifestValues(raw, request.application)
          /\ UNCHANGED <<situation, store, sources, raw>>
      BY <1>6 DEF Check
    <2> QED BY <2>1 DEF ManifestIsKept, request
  <1>7. CASE FetchResource \/ FetchErrorPage \/ FetchResourceFails \/ FetchLoadBalancers
    BY <1>7, ManifestStays
       DEF FetchResource, FetchErrorPage, FetchResourceFails, FetchLoadBalancers, Fetching,
           SameManifest
  <1>8. CASE MakeService \/ MakeRedis \/ MakePod \/ MakeSecret \/ MakeAutoscaler \/ MakeIngress
    BY <1>8, ManifestStays
       DEF MakeService, MakeRedis, MakePod, MakeSecret, MakeAutoscaler, MakeIngress, Object,
           Make, End, SameManifest
  <1>9. CASE Publish
    BY <1>9, ManifestStays DEF Publish, SameManifest
  <1>10. CASE ShowVariables \/ UNCHANGED vars
    BY <1>10 DEF ShowVariables, vars, ManifestIsKept, request
  <1> QED BY <1>1, <1>2, <1>3, <1>4, <1>5, <1>6, <1>7, <1>8, <1>9, <1>10
      DEF Next, Developer, Daemon

-------------------------------------------------------------------------------
\* The resources.

LEMMA TwoSequences ==
    ASSUME NEW S, NEW T, NEW s \in Seq(S), NEW t \in Seq(T)
    PROVE  /\ s \o t \in Seq(S \cup T)
           /\ Len(s \o t) = Len(s) + Len(t)
           /\ \A i \in 1 .. Len(s) : (s \o t)[i] = s[i]
           /\ \A i \in 1 .. Len(t) : (s \o t)[Len(s) + i] = t[i]
  OBVIOUS

LEMMA OneMore ==
    ASSUME NEW S, NEW s \in Seq(S), NEW x \in S
    PROVE  /\ Append(s, x) \in Seq(S) /\ Len(Append(s, x)) = Len(s) + 1
           /\ \A i \in 1 .. Len(s) : Append(s, x)[i] = s[i]
           /\ Append(s, x)[Len(s) + 1] = x
  OBVIOUS

LEMMA SequenceOfItsRange ==
    ASSUME NEW S, NEW s \in Seq(S)
    PROVE  s \in Seq(InRange(s))
  <1>1. \A i \in 1 .. Len(s) : s[i] \in InRange(s)
    BY DEF InRange
  <1> QED BY <1>1

LEMMA WantedIsSequence ==
    ASSUME IsManifest(raw)
    PROVE  Wanted \in Seq(InRange(Wanted))
  <1>1. /\ raw.used \in Seq(InRange(raw.used))
        /\ DefaultResourceRequests \in Seq({DefaultResourceRequests[1]})
    BY DEF IsManifest, DefaultResourceRequests
  <1>2. Wanted \in Seq({DefaultResourceRequests[1]} \cup InRange(raw.used))
    BY <1>1, TwoSequences, Zenon DEF Wanted, ResourceRequests
  <1> QED BY <1>2, SequenceOfItsRange

LEMMA OutcomesOfFasit ==
    ASSUME IsManifest(raw), NEW i \in DOMAIN Wanted, NEW r \in Comes(Wanted[i])
    PROVE  r \in OfFasit
  <1>1. Wanted[i] \in InRange(Wanted)
    BY InRangeOf
  <1> QED BY <1>1 DEF OfFasit

\* There are no load balancers, or one resource of them.
LEMMA Balancers ==
    /\ LoadBalancers(situation.balancers) \in Seq(InRange(LoadBalancers(situation.balancers)))
    /\ InRange(LoadBalancers(situation.balancers)) \subseteq OfFasit
  <1> DEFINE these == LoadBalancers(situation.balancers)
  <1>1. these = <<>> \/ \E x : these = <<x>>
    BY Zenon DEF LoadBalancers
  <1>2. InRange(these) \subseteq OfFasit
    BY DEF OfFasit
  <1> HIDE DEF these
  <1>3. ASSUME these = <<>> PROVE these \in Seq(InRange(these))
    BY <1>3
  <1>4. ASSUME NEW x, these = <<x>> PROVE these \in Seq(InRange(these))
    <2>1. <<x>> \in Seq({x})
      OBVIOUS
    <2> QED BY <1>4, <2>1, SequenceOfItsRange, Zenon
  <1>5. these \in Seq(InRange(these)) /\ InRange(these) \subseteq OfFasit
    BY <1>1, <1>2, <1>3, <1>4, Zenon
  <1> QED BY <1>5 DEF these

LEMMA SameRequests ==
    ASSUME situation' = situation, raw' = raw
    PROVE  /\ Wanted' = Wanted /\ OfFasit' = OfFasit /\ request' = request
           /\ \A r : Comes(r)' = Comes(r)
  <1>1. \A r : Found(r)' = Found(r)
    BY DEF Found
  <1>2. \A r : Comes(r)' = Comes(r)
    BY <1>1 DEF Comes, Outcomes
  <1>3. Wanted' = Wanted /\ request' = request
    BY Zenon DEF Wanted, request
  <1>4. OfFasit' = OfFasit
    BY <1>2, <1>3 DEF OfFasit
  <1> QED BY <1>2, <1>3, <1>4

\* The resources, and what they are compared with, stay as they are.
LEMMA ResourcesStay ==
    ASSUME ResourcesAreWanted, UNCHANGED <<situation, raw, resources>>,
           \/ pc' = pc
           \/ pc \in Building /\ pc' \in Building
           \/ pc = "fasit" /\ pc' = "no resources"
    PROVE  ResourcesAreWanted'
  <1>1. situation' = situation /\ raw' = raw /\ resources' = resources
    OBVIOUS
  <1>2. /\ Wanted' = Wanted /\ OfFasit' = OfFasit /\ request' = request
        /\ \A r : Comes(r)' = Comes(r)
    BY <1>1, SameRequests
  <1>3. /\ pc' \in Building => pc' = pc \/ pc \in Building
        /\ pc' \in Early \cup {"rejected"} => pc \in Early \cup {"rejected"}
        /\ pc' \in {"fasit", "no resources"} => pc \in {"fasit", "no resources"}
    BY DEF Early, Building, AfterRedis, AfterPod, AfterSecret, AfterAutoscaler
  <1> QED BY <1>1, <1>2, <1>3 DEF ResourcesAreWanted

LEMMA NoneYet ==
    ASSUME resources' = <<>>, pc' \in Early \cup {"rejected", "fasit", "service"},
           pc' = "fasit" => ~request'.skipFasit /\ Len(Wanted') \in Nat,
           pc' = "service" => request'.skipFasit
    PROVE  ResourcesAreWanted'
  <1>1. DOMAIN resources' = {} /\ Len(resources') = 0 /\ resources' \in Seq(OfFasit')
    OBVIOUS
  <1>2. /\ pc' \in Early \cup {"rejected"} => pc' \notin {"fasit", "no resources"} \cup Building
        /\ pc' # "no resources" /\ (pc' = "fasit" => pc' \notin Building)
    BY DEF Early, Building, AfterRedis, AfterPod, AfterSecret, AfterAutoscaler
  <1>3. pc' \in {"fasit", "no resources"} => Len(resources') <= Len(Wanted')
    <2>1. ASSUME NEW n \in Nat PROVE 0 <= n
      OBVIOUS
    <2>2. pc' = "fasit" => Len(Wanted') \in Nat
      OBVIOUS
    <2> QED BY <1>1, <1>2, <2>1, <2>2, Zenon
  <1>4. \A i \in DOMAIN resources' : FALSE
    BY <1>1
  <1>5. request'.skipFasit => pc' # "fasit"
    OBVIOUS
  <1>6. pc' \in Building => request'.skipFasit
    BY <1>2
  <1> QED BY <1>1, <1>2, <1>3, <1>4, <1>5, <1>6 DEF ResourcesAreWanted

LEMMA StepWanted ==
    ManifestIsKept /\ ResourcesAreWanted /\ [Next]_vars => ResourcesAreWanted'
  <1> SUFFICES ASSUME ManifestIsKept, ResourcesAreWanted, [Next]_vars
               PROVE  ResourcesAreWanted'
    OBVIOUS
  <1> USE DEF Early, Building, AfterRedis, AfterPod, AfterSecret, AfterAutoscaler
  <1>w. Wanted \in Seq(InRange(Wanted)) /\ Len(Wanted) \in Nat
    <2>1. Wanted \in Seq(InRange(Wanted))
      BY WantedIsSequence DEF ManifestIsKept
    <2> QED BY <2>1
  <1>u. pc = "fasit" => ResourceRequests(manifest.used) = Wanted
    BY FilledIs DEF ManifestIsKept, Filled, Wanted
  <1>1. CASE \/ Upload \/ UploadFails \/ FetchResourceFails \/ Publish \/ ShowVariables
             \/ UNCHANGED vars
    BY <1>1, ResourcesStay
       DEF Upload, UploadFails, FetchResourceFails, Fetching, Publish, ShowVariables, vars
  <1>2. CASE MakeService \/ MakeRedis \/ MakePod \/ MakeSecret \/ MakeAutoscaler \/ MakeIngress
    BY <1>2, ResourcesStay
       DEF MakeService, MakeRedis, MakePod, MakeSecret, MakeAutoscaler, MakeIngress, Object,
           Make, End
  <1>3. CASE Start \/ FetchManifest \/ FetchFails \/ NoManifest
    <2>1. pc \in Early /\ pc' \in Early /\ UNCHANGED resources
      BY <1>3 DEF Start, FetchManifest, FetchFails, NoManifest, Downloading
    <2>2. resources' = <<>>
      BY <2>1 DEF ResourcesAreWanted
    <2> QED BY <2>1, <2>2, NoneYet
  <1>4. CASE Check
    <2>1. /\ pc = "check" /\ pc' \in {"rejected", "service", "fasit"}
          /\ (pc' = "service" => request.skipFasit) /\ (pc' = "fasit" => ~request.skipFasit)
          /\ UNCHANGED <<situation, raw, resources>>
      BY <1>4, SituationAssumption DEF Check, ManifestIsKept, request
    <2>2. resources' = <<>> /\ Wanted' = Wanted /\ request' = request
      BY <2>1 DEF ResourcesAreWanted, Wanted, request
    <2> QED BY <1>w, <2>1, <2>2, NoneYet
  <1>5. CASE FetchResource \/ FetchErrorPage
    <2>1. /\ pc = "fasit" /\ pc' = "fasit" /\ Len(resources) < Len(Wanted)
          /\ \E r \in Comes(Wanted[Len(resources) + 1]) : resources' = Append(resources, r)
          /\ situation' = situation /\ raw' = raw
      BY <1>5, <1>u DEF FetchResource, FetchErrorPage, Fetching, NextRequest, Comes
    <2>2. PICK r \in Comes(Wanted[Len(resources) + 1]) : resources' = Append(resources, r)
      BY <2>1
    <2>3. resources \in Seq(OfFasit) /\ Len(resources) + 1 \in DOMAIN Wanted
      BY <1>w, <2>1 DEF ResourcesAreWanted
    <2>4. r \in OfFasit
      BY <2>3, OutcomesOfFasit DEF ManifestIsKept
    <2>5. /\ resources' \in Seq(OfFasit) /\ Len(resources') = Len(resources) + 1
          /\ \A i \in 1 .. Len(resources) : resources'[i] = resources[i]
          /\ resources'[Len(resources) + 1] = r
      <3>1. /\ Append(resources, r) \in Seq(OfFasit)
            /\ Len(Append(resources, r)) = Len(resources) + 1
            /\ \A i \in 1 .. Len(resources) : Append(resources, r)[i] = resources[i]
            /\ Append(resources, r)[Len(resources) + 1] = r
        BY <2>3, <2>4, OneMore
      <3> QED BY <2>2, <3>1, Zenon
    <2>6. \A i \in DOMAIN resources' :
             IF i <= Len(Wanted) THEN resources'[i] \in Comes(Wanted[i])
             ELSE resources'[i] \in InRange(LoadBalancers(situation.balancers))
      <3> SUFFICES ASSUME NEW i \in DOMAIN resources'
                   PROVE  i <= Len(Wanted) /\ resources'[i] \in Comes(Wanted[i])
        OBVIOUS
      <3>1. CASE i = Len(resources) + 1
        BY <1>w, <2>1, <2>3, <2>5, <3>1
      <3>2. CASE i # Len(resources) + 1
        <4>1. i \in DOMAIN resources /\ i <= Len(Wanted)
          BY <1>w, <2>1, <2>3, <2>5, <3>2
        <4>2. resources[i] \in Comes(Wanted[i])
          BY <4>1 DEF ResourcesAreWanted
        <4>3. resources'[i] = resources[i]
          BY <2>3, <2>5, <4>1
        <4> QED BY <4>1, <4>2, <4>3
      <3> QED BY <3>1, <3>2
    <2>7. /\ Wanted' = Wanted /\ OfFasit' = OfFasit /\ request' = request
          /\ \A q : Comes(q)' = Comes(q)
      BY <2>1, SameRequests
    <2>8. ~request.skipFasit /\ Len(resources') <= Len(Wanted)
      BY <1>w, <2>1, <2>3, <2>5 DEF ResourcesAreWanted
    <2> QED BY <2>1, <2>5, <2>6, <2>7, <2>8 DEF ResourcesAreWanted
  <1>6. CASE FetchLoadBalancers
    <2> DEFINE these == LoadBalancers(situation.balancers)
    <2>1. /\ pc = "fasit" /\ pc' = "service" /\ Len(resources) = Len(Wanted)
          /\ resources' \in {resources, resources \o these}
          /\ situation' = situation /\ raw' = raw
      BY <1>6, <1>u DEF FetchLoadBalancers
    <2>2. /\ these \in Seq(InRange(these)) /\ InRange(these) \subseteq OfFasit
          /\ resources \in Seq(OfFasit)
      BY Balancers DEF ResourcesAreWanted
    <2>7. /\ Wanted' = Wanted /\ OfFasit' = OfFasit /\ request' = request
          /\ \A q : Comes(q)' = Comes(q)
      BY <2>1, SameRequests
    <2>3. \A i \in DOMAIN resources : i <= Len(Wanted) /\ resources[i] \in Comes(Wanted[i])
      BY <1>w, <2>1, <2>2 DEF ResourcesAreWanted
    <2>8. ~request.skipFasit
      BY <2>1 DEF ResourcesAreWanted
    <2>4. CASE resources' = resources
      BY <1>w, <2>1, <2>2, <2>3, <2>4, <2>7, <2>8 DEF ResourcesAreWanted
    <2>5. CASE resources' = resources \o these
      <3> HIDE DEF these
      <3>1. /\ resources' \in Seq(OfFasit \cup InRange(these))
            /\ Len(resources') = Len(resources) + Len(these)
            /\ \A i \in 1 .. Len(resources) : resources'[i] = resources[i]
            /\ \A i \in 1 .. Len(these) : resources'[Len(resources) + i] = these[i]
        BY <2>2, <2>5, TwoSequences
      <3>2. resources' \in Seq(OfFasit) /\ Len(Wanted) <= Len(resources')
        BY <1>w, <2>1, <2>2, <3>1
      <3>3. ASSUME NEW i \in DOMAIN resources'
            PROVE  IF i <= Len(Wanted) THEN resources'[i] \in Comes(Wanted[i])
                   ELSE resources'[i] \in InRange(these)
        <4>1. CASE i <= Len(Wanted)
          <5>1. i \in DOMAIN resources
            BY <1>w, <2>1, <2>2, <3>1, <4>1
          <5> QED BY <2>2, <2>3, <3>1, <4>1, <5>1
        <4>2. CASE ~(i <= Len(Wanted))
          <5>1. /\ i - Len(resources) \in 1 .. Len(these)
                /\ Len(resources) + (i - Len(resources)) = i
            BY <1>w, <2>1, <2>2, <3>1, <4>2
          <5>2. resources'[i] = these[i - Len(resources)]
            BY <3>1, <5>1
          <5>3. these[i - Len(resources)] \in InRange(these)
            BY <2>2, <5>1, InRangeOf
          <5> QED BY <4>2, <5>2, <5>3
        <4> QED BY <4>1, <4>2
      <3>4. LoadBalancers(situation'.balancers) = these
        BY <2>1 DEF these
      <3> QED BY <2>1, <2>7, <2>8, <3>2, <3>3, <3>4 DEF ResourcesAreWanted
    <2> QED BY <2>1, <2>4, <2>5
  <1> QED BY <1>1, <1>2, <1>3, <1>4, <1>5, <1>6 DEF Next, Developer, Daemon

-------------------------------------------------------------------------------
\* The objects.

SameInput == UNCHANGED <<situation, manifest, resources>>

LEMMA SameObjects ==
    ASSUME SameInput
    PROVE  /\ request' = request /\ daemon' = daemon /\ TheRedis' = TheRedis
           /\ ThePod' = ThePod /\ TheSecret' = TheSecret /\ TheRules' = TheRules
           /\ PodFails' = PodFails
  <1>1. situation' = situation /\ manifest' = manifest /\ resources' = resources
    BY DEF SameInput
  <1>2. request' = request /\ daemon' = daemon
    BY <1>1, Zenon DEF request, daemon
  <1> QED BY <1>1, <1>2, Zenon DEF TheRedis, ThePod, TheSecret, TheRules, PodFails

\* One more object is there, of its kind.
LEMMA OneMade ==
    ASSUME NEW kind \in Kinds, NEW object, NEW next, DOMAIN cluster = Kinds,
           Make(kind, object, next)
    PROVE  /\ DOMAIN cluster' = Kinds /\ cluster'[kind] = <<object>> /\ pc' = next
           /\ \A other \in Kinds : other # kind => cluster'[other] = cluster[other]
  BY DEF Make

LEMMA NothingMadeYet ==
    ASSUME cluster' = NoObjects, pc' \in WithoutObjects
    PROVE  ObjectsAreBuilt'
  <1>1. \A kind \in Kinds : cluster'[kind] = <<>>
    BY DEF NoObjects
  <1>2. DOMAIN cluster' = Kinds
    BY DEF NoObjects
  <1>3. pc' \notin AfterRedis \cup {"panicked", "refused"}
    BY DEF WithoutObjects, Early, AfterRedis, AfterPod, AfterSecret, AfterAutoscaler
  <1>4. pc' \notin AfterPod \cup AfterAutoscaler \cup {"publish", "deployed", "not built"}
    BY <1>3 DEF AfterRedis, AfterPod, AfterSecret, AfterAutoscaler
  <1> QED BY <1>1, <1>2, <1>3, <1>4 DEF ObjectsAreBuilt, Kinds

LEMMA ObjectsStay ==
    ASSUME ObjectsAreBuilt, SameInput, UNCHANGED <<pc, cluster>>
    PROVE  ObjectsAreBuilt'
  <1>1. /\ request' = request /\ TheRedis' = TheRedis
        /\ ThePod' = ThePod /\ TheSecret' = TheSecret /\ TheRules' = TheRules
        /\ PodFails' = PodFails /\ manifest' = manifest /\ pc' = pc /\ cluster' = cluster
    BY SameObjects DEF SameInput
  <1> QED BY <1>1, ZenonT(40) DEF ObjectsAreBuilt

LEMMA StepBuilds == ObjectsAreBuilt /\ [Next]_vars => ObjectsAreBuilt'
  <1> SUFFICES ASSUME ObjectsAreBuilt, [Next]_vars PROVE ObjectsAreBuilt'
    OBVIOUS
  <1>1. CASE Upload \/ UploadFails \/ ShowVariables \/ UNCHANGED vars
    BY <1>1, ObjectsStay DEF Upload, UploadFails, ShowVariables, vars, SameInput
  <1>2. CASE \/ Start \/ FetchManifest \/ FetchFails \/ NoManifest \/ Check \/ FetchResource
             \/ FetchErrorPage \/ FetchResourceFails \/ FetchLoadBalancers
    <2>1. pc \in WithoutObjects /\ pc' \in WithoutObjects /\ cluster' = cluster
      BY <1>2 DEF Start, FetchManifest, FetchFails, Downloading, NoManifest, Check,
         FetchResource, FetchErrorPage, Fetching, FetchResourceFails, FetchLoadBalancers,
         WithoutObjects, Early
    <2> QED BY <2>1, NothingMadeYet DEF ObjectsAreBuilt
  <1> USE DEF WithoutObjects, Early, AfterRedis, AfterPod, AfterSecret, AfterAutoscaler
  <1>3. CASE MakeService
    <2>1. pc = "service" /\ SameInput /\ Make("service", request.application, "redis")
      BY <1>3 DEF MakeService, Object, SameInput
    <2>2. cluster = NoObjects /\ DOMAIN cluster = Kinds
      BY <2>1 DEF ObjectsAreBuilt
    <2>3. /\ DOMAIN cluster' = Kinds /\ cluster'["service"] = <<request.application>>
          /\ pc' = "redis" /\ \A kind \in Kinds \ {"service"} : cluster'[kind] = <<>>
      BY <2>1, <2>2, OneMade DEF Kinds, NoObjects
    <2> QED BY <2>1, <2>3, SameObjects DEF ObjectsAreBuilt, Kinds
  <1>4. CASE MakeRedis
    <2>1. /\ pc = "redis" /\ SameInput /\ manifest' = manifest
          /\ IF ~manifest.redis.enabled THEN End("pod")
             ELSE IF createRedisPodSpec(manifest.redis) = "panic" THEN End("panicked")
             ELSE IF AdmitsResources(TheRedis.requests, TheRedis.limits)
                  THEN Make("redis", TheRedis, "pod") ELSE End("refused")
      BY <1>4, Zenon DEF MakeRedis, Object, SameInput, TheRedis
    <2>2. /\ request' = request /\ daemon' = daemon /\ TheRedis' = TheRedis
          /\ ThePod' = ThePod /\ TheSecret' = TheSecret /\ TheRules' = TheRules
          /\ PodFails' = PodFails
      BY <2>1, SameObjects
    <2>3. cluster["pod"] = <<>> /\ DOMAIN cluster = Kinds
      BY <2>1 DEF ObjectsAreBuilt
    <2>4. CASE ~manifest.redis.enabled
      <3>1. pc' = "pod" /\ cluster' = cluster
        BY <2>1, <2>4 DEF End
      <3> QED BY <2>1, <2>2, <2>3, <2>4, <3>1 DEF ObjectsAreBuilt
    <2>5. CASE manifest.redis.enabled /\ createRedisPodSpec(manifest.redis) = "panic"
      <3>1. pc' = "panicked" /\ cluster' = cluster
        BY <2>1, <2>5 DEF End
      <3> QED BY <2>1, <2>2, <2>3, <2>5, <3>1 DEF ObjectsAreBuilt
    <2>6. CASE /\ manifest.redis.enabled /\ createRedisPodSpec(manifest.redis) # "panic"
               /\ ~AdmitsResources(TheRedis.requests, TheRedis.limits)
      <3>1. pc' = "refused" /\ cluster' = cluster
        BY <2>1, <2>6 DEF End
      <3> QED BY <2>1, <2>2, <2>3, <2>6, <3>1 DEF ObjectsAreBuilt
    <2>7. CASE /\ manifest.redis.enabled /\ createRedisPodSpec(manifest.redis) # "panic"
               /\ AdmitsResources(TheRedis.requests, TheRedis.limits)
      <3>1. /\ DOMAIN cluster' = Kinds /\ cluster'["redis"] = <<TheRedis>> /\ pc' = "pod"
            /\ \A kind \in Kinds : kind # "redis" => cluster'[kind] = cluster[kind]
        BY <2>1, <2>3, <2>7, OneMade DEF Kinds
      <3> QED BY <2>1, <2>2, <2>3, <2>7, <3>1 DEF ObjectsAreBuilt, Kinds
    <2> QED BY <2>4, <2>5, <2>6, <2>7
  <1>5. CASE MakePod
    <2>1. /\ pc = "pod" /\ SameInput /\ manifest' = manifest
          /\ IF PodFails THEN End("not built")
             ELSE IF AdmitsPod(ThePod) THEN Make("pod", ThePod, "secret") ELSE End("refused")
      BY <1>5, Zenon DEF MakePod, Object, SameInput, ThePod, PodFails
    <2>2. /\ request' = request /\ daemon' = daemon /\ TheRedis' = TheRedis
          /\ ThePod' = ThePod /\ TheSecret' = TheSecret /\ TheRules' = TheRules
          /\ PodFails' = PodFails
      BY <2>1, SameObjects
    <2>3. cluster["pod"] = <<>> /\ DOMAIN cluster = Kinds
      BY <2>1 DEF ObjectsAreBuilt
    <2>4. CASE PodFails
      <3>1. pc' = "not built" /\ cluster' = cluster
        BY <2>1, <2>4 DEF End
      <3> QED BY <2>1, <2>2, <2>3, <2>4, <3>1 DEF ObjectsAreBuilt
    <2>5. CASE ~PodFails /\ ~AdmitsPod(ThePod)
      <3>1. pc' = "refused" /\ cluster' = cluster
        BY <2>1, <2>5 DEF End
      <3> QED BY <2>1, <2>2, <2>3, <2>5, <3>1 DEF ObjectsAreBuilt
    <2>6. CASE ~PodFails /\ AdmitsPod(ThePod)
      <3>1. /\ DOMAIN cluster' = Kinds /\ cluster'["pod"] = <<ThePod>> /\ pc' = "secret"
            /\ \A kind \in Kinds : kind # "pod" => cluster'[kind] = cluster[kind]
        BY <2>1, <2>3, <2>6, OneMade DEF Kinds
      <3> QED BY <2>1, <2>2, <2>3, <2>6, <3>1 DEF ObjectsAreBuilt, Kinds
    <2> QED BY <2>4, <2>5, <2>6
  <1>6. CASE MakeSecret
    <2>1. /\ pc = "secret" /\ SameInput /\ manifest' = manifest
          /\ IF TheSecret = NoEntries THEN End("autoscaler")
             ELSE Make("secret", TheSecret, "autoscaler")
      BY <1>6, Zenon DEF MakeSecret, Object, SameInput, TheSecret
    <2>2. /\ request' = request /\ daemon' = daemon /\ TheRedis' = TheRedis
          /\ ThePod' = ThePod /\ TheSecret' = TheSecret /\ TheRules' = TheRules
          /\ PodFails' = PodFails
      BY <2>1, SameObjects
    <2>3. cluster["pod"] # <<>> /\ DOMAIN cluster = Kinds
      BY <2>1 DEF ObjectsAreBuilt
    <2>4. CASE TheSecret = NoEntries
      <3>1. pc' = "autoscaler" /\ cluster' = cluster
        BY <2>1, <2>4 DEF End
      <3> QED BY <2>1, <2>2, <2>3, <2>4, <3>1 DEF ObjectsAreBuilt
    <2>5. CASE TheSecret # NoEntries
      <3>1. /\ DOMAIN cluster' = Kinds /\ cluster'["secret"] = <<TheSecret>>
            /\ pc' = "autoscaler"
            /\ \A kind \in Kinds : kind # "secret" => cluster'[kind] = cluster[kind]
        BY <2>1, <2>3, <2>5, OneMade DEF Kinds
      <3> QED BY <2>1, <2>2, <2>3, <2>5, <3>1 DEF ObjectsAreBuilt, Kinds
    <2> QED BY <2>4, <2>5
  <1>7. CASE MakeAutoscaler
    <2> DEFINE scale == [min |-> manifest.min, max |-> manifest.max]
    <2>1. /\ pc = "autoscaler" /\ SameInput /\ manifest' = manifest
          /\ IF AdmitsAutoscaler(manifest) THEN Make("autoscaler", scale, "ingress")
             ELSE End("refused")
      BY <1>7, Zenon DEF MakeAutoscaler, Object, SameInput
    <2>2. /\ request' = request /\ daemon' = daemon /\ TheRedis' = TheRedis
          /\ ThePod' = ThePod /\ TheSecret' = TheSecret /\ TheRules' = TheRules
          /\ PodFails' = PodFails
      BY <2>1, SameObjects
    <2>3. DOMAIN cluster = Kinds
      BY DEF ObjectsAreBuilt
    <2>4. CASE ~AdmitsAutoscaler(manifest)
      <3>1. pc' = "refused" /\ cluster' = cluster
        BY <2>1, <2>4 DEF End
      <3> QED BY <2>1, <2>2, <2>4, <3>1 DEF ObjectsAreBuilt
    <2>5. CASE AdmitsAutoscaler(manifest)
      <3>1. /\ DOMAIN cluster' = Kinds /\ cluster'["autoscaler"] = <<scale>>
            /\ pc' = "ingress"
            /\ \A kind \in Kinds : kind # "autoscaler" => cluster'[kind] = cluster[kind]
        BY <2>1, <2>3, <2>5, OneMade DEF Kinds
      <3> QED BY <2>1, <2>2, <2>5, <3>1 DEF ObjectsAreBuilt, Kinds
    <2> QED BY <2>4, <2>5
  <1>8. CASE MakeIngress
    <2>1. /\ pc = "ingress" /\ SameInput /\ manifest' = manifest
          /\ IF manifest.ingressDisabled THEN End("publish")
             ELSE Make("ingress", TheRules, "publish")
      BY <1>8, Zenon DEF MakeIngress, Object, SameInput, TheRules
    <2>2. /\ request' = request /\ daemon' = daemon /\ TheRedis' = TheRedis
          /\ ThePod' = ThePod /\ TheSecret' = TheSecret /\ TheRules' = TheRules
          /\ PodFails' = PodFails
      BY <2>1, SameObjects
    <2>3. DOMAIN cluster = Kinds
      BY DEF ObjectsAreBuilt
    <2>4. CASE manifest.ingressDisabled
      <3>1. pc' = "publish" /\ cluster' = cluster
        BY <2>1, <2>4 DEF End
      <3> QED BY <2>1, <2>2, <2>4, <3>1 DEF ObjectsAreBuilt
    <2>5. CASE ~manifest.ingressDisabled
      <3>1. /\ DOMAIN cluster' = Kinds /\ cluster'["ingress"] = <<TheRules>>
            /\ pc' = "publish"
            /\ \A kind \in Kinds : kind # "ingress" => cluster'[kind] = cluster[kind]
        BY <2>1, <2>3, <2>5, OneMade DEF Kinds
      <3> QED BY <2>1, <2>2, <2>5, <3>1 DEF ObjectsAreBuilt, Kinds
    <2> QED BY <2>4, <2>5
  <1>9. CASE Publish
    <2>1. /\ pc = "publish" /\ pc' = "deployed" /\ SameInput /\ cluster' = cluster
          /\ manifest' = manifest
      BY <1>9 DEF Publish, SameInput
    <2> QED BY <2>1, SameObjects DEF ObjectsAreBuilt
  <1> QED BY <1>1, <1>2, <1>3, <1>4, <1>5, <1>6, <1>7, <1>8, <1>9 DEF Next, Developer, Daemon

-------------------------------------------------------------------------------
\* What is told.

LEMMA SameReports ==
    ASSUME situation' = situation, raw' = raw, manifest' = manifest
    PROVE  /\ request' = request /\ Wanted' = Wanted /\ Answers' = Answers
           /\ \A r, page : Outcomes(r, page)' = Outcomes(r, page)
  <1>1. \A r : Found(r)' = Found(r)
    BY DEF Found
  <1>2. \A r, page : Outcomes(r, page)' = Outcomes(r, page)
    BY <1>1 DEF Outcomes
  <1>3. request' = request /\ Wanted' = Wanted
    BY SameRequests
  <1>4. Answers' = Answers
    BY <1>2, <1>3 DEF Answers
  <1> QED BY <1>2, <1>3, <1>4

EventIsTold ==
    \/ event = <<>>
    \/ /\ pc = "deployed"
       /\ \E now \in Times :
            event = <<[sent |-> now, says |-> NewDeploymentEvent(request, manifest, now)]>>
VariablesAreTold ==
    \/ printed = <<>>
    \/ /\ pc = "deployed"
       /\ \E fetched \in [DOMAIN Wanted -> Answers] :
            /\ \A i \in DOMAIN Wanted : fetched[i] \in Outcomes(Wanted[i], "")
            /\ printed = <<UNION {Printed(fetched[i]) : i \in DOMAIN fetched}>>

LEMMA ReportsInParts == ReportsAreOfTheDeploy <=> EventIsTold /\ VariablesAreTold
  BY DEF ReportsAreOfTheDeploy, EventIsTold, VariablesAreTold

LEMMA StepTells == ReportsAreOfTheDeploy /\ [Next]_vars => ReportsAreOfTheDeploy'
  <1> SUFFICES ASSUME EventIsTold, VariablesAreTold, [Next]_vars
               PROVE  EventIsTold' /\ VariablesAreTold'
    BY ReportsInParts, PTL DEF ReportsAreOfTheDeploy
  <1>1. CASE Publish
    <2>1. /\ pc = "publish" /\ pc' = "deployed" /\ UNCHANGED <<situation, manifest, printed>>
          /\ \E now \in Times :
               event' = <<[sent |-> now, says |-> NewDeploymentEvent(request, manifest, now)]>>
      BY <1>1 DEF Publish
    <2>2. printed' = <<>> /\ request' = request /\ manifest' = manifest
      BY <2>1 DEF VariablesAreTold, request
    <2>3. EventIsTold'
      BY <2>1, <2>2 DEF EventIsTold
    <2> QED BY <2>2, <2>3 DEF VariablesAreTold
  <1>2. CASE ShowVariables
    <2>1. /\ pc = "deployed" /\ pc' = pc /\ event' = event
          /\ situation' = situation /\ raw' = raw /\ manifest' = manifest
      BY <1>2 DEF ShowVariables
    <2>2. /\ request' = request /\ Wanted' = Wanted /\ Answers' = Answers
          /\ \A r, page : Outcomes(r, page)' = Outcomes(r, page)
      BY <2>1, SameReports
    <2>3. EventIsTold'
      BY <2>1, <2>2 DEF EventIsTold
    <2>4. PICK fetched \in [DOMAIN Wanted -> Answers] :
            /\ \A i \in DOMAIN Wanted : fetched[i] \in Outcomes(Wanted[i], "")
            /\ printed' = <<UNION {Printed(fetched[i]) : i \in DOMAIN fetched}>>
      BY <1>2 DEF ShowVariables, Wanted, Answers
    <2>5. VariablesAreTold'
      BY <2>1, <2>2, <2>4 DEF VariablesAreTold
    <2> QED BY <2>3, <2>5
  <1>3. CASE Upload \/ UploadFails \/ UNCHANGED vars
    <2>1. /\ UNCHANGED <<pc, event, printed>>
          /\ situation' = situation /\ raw' = raw /\ manifest' = manifest
      BY <1>3 DEF Upload, UploadFails, vars
    <2>2. /\ request' = request /\ Wanted' = Wanted /\ Answers' = Answers
          /\ \A r, page : Outcomes(r, page)' = Outcomes(r, page)
      BY <2>1, SameReports
    <2>3. EventIsTold'
      BY <2>1, <2>2 DEF EventIsTold
    <2>4. VariablesAreTold'
      BY <2>1, <2>2 DEF VariablesAreTold
    <2> QED BY <2>3, <2>4
  <1>4. CASE Daemon /\ ~Publish
    <2>1. pc # "deployed" /\ UNCHANGED <<event, printed>>
      BY <1>4 DEF Daemon, Start, FetchManifest, FetchFails, Downloading, NoManifest, Check,
         FetchResource, FetchErrorPage, Fetching, FetchResourceFails, FetchLoadBalancers,
         MakeService, MakeRedis, MakePod, MakeSecret, MakeAutoscaler, MakeIngress, Object
    <2>2. event' = <<>> /\ printed' = <<>>
      BY <2>1 DEF EventIsTold, VariablesAreTold
    <2> QED BY <2>2 DEF EventIsTold, VariablesAreTold
  <1> QED BY <1>1, <1>2, <1>3, <1>4 DEF Next, Developer

LEMMA StepCounts == Counted /\ [Next]_vars => Counted'
  <1> SUFFICES ASSUME Counted, [Next]_vars PROVE Counted'
    OBVIOUS
  <1>1. faults' = faults \/ Fault
    BY DEF Next, vars, Developer, Daemon, Upload, UploadFails, ShowVariables, Start,
          FetchManifest, FetchFails, NoManifest, Check, FetchResource, FetchErrorPage,
          FetchResourceFails, FetchLoadBalancers, Object, MakeService, MakeRedis, MakePod,
          MakeSecret, MakeAutoscaler, MakeIngress, Publish
  <1>2. faults' \in 0 .. MaxFaults
    BY <1>1, SendingAssumption DEF Fault, Counted
  <1>3. uploaded' = uploaded \/ \E how \in {"ok", "failed"} : UploadEnds(how)
    BY DEF Next, vars, Developer, Daemon, Upload, UploadFails, ShowVariables, Start,
          FetchManifest, FetchFails, NoManifest, Check, FetchResource, FetchErrorPage,
          FetchResourceFails, FetchLoadBalancers, Object, MakeService, MakeRedis, MakePod,
          MakeSecret, MakeAutoscaler, MakeIngress, Publish
  <1>4. uploaded' \in [ended : {"not", "ok", "failed"}, before : BOOLEAN]
    <2>1. (pc = "idle") = TRUE \/ (pc = "idle") = FALSE
      OBVIOUS
    <2>2. ASSUME NEW how \in {"ok", "failed"}, NEW b \in BOOLEAN,
                 uploaded' = [ended |-> how, before |-> b]
          PROVE  uploaded' \in [ended : {"not", "ok", "failed"}, before : BOOLEAN]
      BY <2>2
    <2>3. CASE uploaded' = uploaded
      BY <2>3 DEF Counted
    <2>4. ASSUME NEW how \in {"ok", "failed"}, UploadEnds(how)
          PROVE  uploaded' \in [ended : {"not", "ok", "failed"}, before : BOOLEAN]
      <3>1. \E b \in BOOLEAN : uploaded' = [ended |-> how, before |-> b]
        BY <2>1, <2>4, Zenon DEF UploadEnds
      <3> QED BY <2>2, <3>1
    <2> QED BY <1>3, <2>3, <2>4
  <1> QED BY <1>2, <1>4 DEF Counted

-------------------------------------------------------------------------------
\* The search.

LEMMA HeadAndTail ==
    ASSUME NEW S, NEW s \in Seq(S), s # <<>>
    PROVE  Head(s) \in InRange(s) /\ InRange(s) = {Head(s)} \cup InRange(Tail(s))
  <1>1. /\ Len(s) \in Nat \ {0} /\ DOMAIN s = 1 .. Len(s) /\ Head(s) = s[1]
        /\ DOMAIN Tail(s) = 1 .. Len(s) - 1
        /\ \A i \in 1 .. Len(s) - 1 : Tail(s)[i] = s[i + 1]
    OBVIOUS
  <1>2. ASSUME NEW i \in DOMAIN s PROVE i = 1 \/ (i - 1 \in DOMAIN Tail(s) /\ Tail(s)[i - 1] = s[i])
    BY <1>1
  <1>3. ASSUME NEW i \in DOMAIN Tail(s) PROVE i + 1 \in DOMAIN s /\ s[i + 1] = Tail(s)[i]
    BY <1>1
  <1>4. 1 \in DOMAIN s /\ Head(s) \in InRange(s)
    BY <1>1 DEF InRange
  <1>5. ASSUME NEW x \in InRange(s) PROVE x \in {Head(s)} \cup InRange(Tail(s))
    <2>1. PICK i \in DOMAIN s : x = s[i]
      BY DEF InRange
    <2> QED BY <1>1, <1>2, <2>1 DEF InRange
  <1>6. ASSUME NEW x \in InRange(Tail(s)) PROVE x \in InRange(s)
    <2>1. PICK i \in DOMAIN Tail(s) : x = Tail(s)[i]
      BY DEF InRange
    <2> QED BY <1>3, <2>1 DEF InRange
  <1> QED BY <1>4, <1>5, <1>6

LEMMA FaultsStay ==
    ASSUME faults \in 0 .. MaxFaults, faults' = faults \/ faults' = faults + 1
    PROVE  faults > 0 => faults' > 0
  BY SendingAssumption

\* What was found out stays so.
LEMMA WhatWasStays ==
    ASSUME Counted, [Next]_vars
    PROVE  /\ situation' = situation /\ Places' = Places
           /\ \A place : Was(place) \subseteq Was(place)'
           /\ faults > 0 => faults' > 0
           /\ \A place : WasPassedBy(place) => WasPassedBy(place)'
           /\ ~NothingToRead => ~NothingToRead'
  <1> USE DEF Next, vars, Developer, Daemon, Upload, UploadFails, ShowVariables, Start,
          FetchManifest, FetchFails, NoManifest, Check, FetchResource, FetchErrorPage,
          FetchResourceFails, FetchLoadBalancers, Object, MakeService, MakeRedis, MakePod,
          MakeSecret, MakeAutoscaler, MakeIngress, Publish
  <1>1. situation' = situation /\ (faults' = faults \/ Fault)
    OBVIOUS
  <1>2. uploaded' = uploaded \/ \E how \in {"ok", "failed"} : UploadEnds(how)
    OBVIOUS
  <1>3. uploaded.ended # "not" => uploaded'.ended # "not"
    BY <1>2 DEF UploadEnds
  <1>4. request' = request
    BY <1>1 DEF request
  <1>5. Places' = Places
    BY <1>4 DEF Places
  <1>6. ASSUME NEW place PROVE Was(place) \subseteq Was(place)'
    BY <1>1, <1>3 DEF Was
  <1>7. faults > 0 => faults' > 0
    <2>1. faults' = faults \/ faults' = faults + 1
      BY <1>1, Zenon DEF Fault
    <2>2. faults \in 0 .. MaxFaults
      BY Zenon DEF Counted
    <2> QED BY <2>1, <2>2, FaultsStay, Zenon
  <1>8. ASSUME NEW place, WasPassedBy(place) PROVE WasPassedBy(place)'
    BY <1>6, <1>7, <1>8 DEF WasPassedBy
  <1>9. ASSUME ~NothingToRead PROVE ~NothingToRead'
    BY <1>5, <1>6, <1>9 DEF NothingToRead
  <1> QED BY <1>1, <1>5, <1>6, <1>7, <1>8, <1>9

LEMMA StepSearches ==
    ManifestIsKept /\ ResourcesAreWanted /\ Counted /\ SearchIsTold /\ [Next]_vars => SearchIsTold'
  <1> SUFFICES ASSUME ManifestIsKept, ResourcesAreWanted, Counted, SearchIsTold, [Next]_vars
               PROVE  SearchIsTold'
    OBVIOUS
  <1> USE DEF Search
  <1>a. /\ situation' = situation /\ Places' = Places
        /\ \A place : Was(place) \subseteq Was(place)'
        /\ faults > 0 => faults' > 0
        /\ \A place : WasPassedBy(place) => WasPassedBy(place)'
        /\ ~NothingToRead => ~NothingToRead'
    BY WhatWasStays
  <1>b. UNCHANGED store => \A place \in DOMAIN store' : store'[place] \in Was(place)'
    BY <1>a DEF SearchIsTold
  <1>1. CASE \/ Upload \/ UploadFails \/ ShowVariables \/ Publish \/ UNCHANGED vars
    <2>1. \/ store' = store
          \/ /\ store' = Uploaded /\ \E how \in {"ok", "failed"} : UploadEnds(how)
      BY <1>1 DEF Upload, UploadFails, ShowVariables, Publish, vars
    <2>2. UNCHANGED <<sources, raw>> /\ (pc' = pc \/ (pc = "publish" /\ pc' = "deployed"))
      BY <1>1 DEF Upload, UploadFails, ShowVariables, Publish, vars
    <2>3. \A place \in DOMAIN store' : store'[place] \in Was(place)'
      <3>1. CASE store' = store
        BY <1>b, <3>1
      <3>2. CASE store' = Uploaded /\ \E how \in {"ok", "failed"} : UploadEnds(how)
        <4>1. uploaded'.ended # "not"
          BY <3>2 DEF UploadEnds
        <4>2. CASE situation.nexusUrlIsSet
          BY <1>b, <3>2, <4>2 DEF Uploaded
        <4>3. CASE ~situation.nexusUrlIsSet
          <5>1. store' = [store EXCEPT !["raw"] = situation.uploads]
            BY <3>2, <4>3 DEF Uploaded
          <5>2. situation.uploads \in Was("raw")'
            BY <1>a, <4>1, <4>3 DEF Was
          <5> QED BY <1>a, <5>1, <5>2 DEF SearchIsTold
        <4> QED BY <4>2, <4>3
      <3> QED BY <2>1, <3>1, <3>2
    <2>4. ResourceIsMissing' <=> ResourceIsMissing
      BY <1>a, <2>2 DEF ResourceIsMissing, request, Found
    <2> QED BY <1>a, <2>2, <2>3, <2>4 DEF SearchIsTold
  <1>2. CASE Start
    <2>1. /\ sources' = IF request.hasManifestUrl THEN <<"url">> ELSE createManifestUrl
          /\ pc' = "download" /\ UNCHANGED store
      BY <1>2 DEF Start
    <2>2. InRange(<<"url">>) = {"url"}
      BY DEF InRange
    <2>3. InRange(sources') = Places
      BY <2>1, <2>2, Zenon DEF Places
    <2> QED BY <1>a, <1>b, <2>1, <2>3 DEF SearchIsTold
  <1>3. CASE FetchManifest \/ FetchFails
    <2>0. PICK place : place = Head(sources)
      OBVIOUS
    <2>1. /\ pc = "download" /\ sources # <<>> /\ UNCHANGED store
          /\ \/ Readable(store[place]) /\ pc' = "check"
             \/ /\ sources' = Tail(sources) /\ pc' = "download"
                /\ ~Readable(store[place]) \/ Fault
      BY <1>3, <2>0 DEF FetchManifest, FetchFails, Downloading
    <2>2. place \in InRange(sources) /\ InRange(sources) = {place} \cup InRange(Tail(sources))
      BY <2>0, <2>1, HeadAndTail DEF ManifestIsKept
    <2>3. place \in Places /\ place \in DOMAIN store /\ store[place] \in Was(place)
      <3>1. place \in DOMAIN store
        BY <2>0, <2>1 DEF ManifestIsKept
      <3>2. place \in Places
        BY <2>1, <2>2 DEF SearchIsTold
      <3> QED BY <3>1, <3>2 DEF SearchIsTold
    <2>4. CASE Readable(store[place]) /\ pc' = "check"
      <3>1. ~NothingToRead
        BY <2>3, <2>4 DEF NothingToRead
      <3> QED BY <1>a, <1>b, <2>1, <2>4, <3>1 DEF SearchIsTold
    <2>5. CASE /\ sources' = Tail(sources) /\ pc' = "download"
               /\ ~Readable(store[place]) \/ Fault
      <3>1. WasPassedBy(place)'
        <4>1. CASE ~Readable(store[place])
          BY <1>a, <2>3, <4>1 DEF WasPassedBy
        <4>2. CASE Fault
          <5>1. faults' > 0
            BY <4>2, SendingAssumption DEF Fault, Counted
          <5> QED BY <5>1 DEF WasPassedBy
        <4> QED BY <2>5, <4>1, <4>2
      <3>2. \A other \in Places \ InRange(sources') : WasPassedBy(other)'
        BY <1>a, <2>1, <2>2, <2>5, <3>1 DEF SearchIsTold
      <3>3. InRange(sources') \subseteq Places
        BY <2>1, <2>2, <2>5 DEF SearchIsTold
      <3> QED BY <1>a, <1>b, <2>1, <2>5, <3>2, <3>3 DEF SearchIsTold
    <2> QED BY <2>1, <2>4, <2>5
  <1>4. CASE NoManifest
    <2>1. pc = "download" /\ sources = <<>> /\ pc' = "no manifest" /\ UNCHANGED store
      BY <1>4 DEF NoManifest
    <2>2. \A place \in Places : WasPassedBy(place)
      BY <2>1, NoneInEmpty DEF SearchIsTold
    <2> QED BY <1>a, <1>b, <2>1, <2>2 DEF SearchIsTold
  <1>5. CASE FetchResourceFails
    <2>1. /\ Fetching /\ pc = "fasit" /\ pc' = "no resources" /\ UNCHANGED <<store, raw>>
          /\ Found(NextRequest) = {} \/ Fault
      BY <1>5 DEF FetchResourceFails, Fetching
    <2>2. CASE Fault
      <3>1. faults' > 0
        BY <2>2, SendingAssumption DEF Fault, Counted
      <3> QED BY <1>a, <1>b, <2>1, <3>1 DEF SearchIsTold
    <2>3. CASE Found(NextRequest) = {}
      <3>1. ResourceRequests(manifest.used) = Wanted
        BY <2>1, FilledIs DEF ManifestIsKept, Filled, Wanted, Early
      <3>2. Wanted \in Seq(InRange(Wanted))
        BY WantedIsSequence DEF ManifestIsKept
      <3>3. Len(resources) \in Nat /\ Len(resources) < Len(Wanted)
        <4>1. resources \in Seq(OfFasit)
          BY DEF ResourcesAreWanted
        <4>2. Len(resources) < Len(ResourceRequests(manifest.used))
          BY <2>1, Zenon DEF Fetching
        <4>3. Len(resources) \in Nat
          BY <4>1
        <4> QED BY <3>1, <4>2, <4>3, Zenon
      <3>4. Len(resources) + 1 \in DOMAIN Wanted
        BY <3>2, <3>3
      <3>5. NextRequest \in InRange(Wanted)
        BY <3>1, <3>4, InRangeOf DEF NextRequest
      <3>6. ~request.skipFasit
        BY <2>1 DEF ResourcesAreWanted
      <3>7. ResourceIsMissing
        BY <2>3, <3>5, <3>6 DEF ResourceIsMissing, Wanted
      <3>8. ResourceIsMissing'
        BY <1>a, <2>1, <3>7 DEF ResourceIsMissing, request, Found
      <3> QED BY <1>a, <1>b, <2>1, <3>8 DEF SearchIsTold
    <2> QED BY <2>1, <2>2, <2>3
  <1>6. CASE \/ Check \/ FetchResource \/ FetchErrorPage \/ FetchLoadBalancers \/ MakeService
             \/ MakeRedis \/ MakePod \/ MakeSecret \/ MakeAutoscaler \/ MakeIngress
    <2>1. /\ UNCHANGED store /\ pc \notin Search /\ pc' \notin Search \cup {"no resources"}
      BY <1>6 DEF Check, FetchResource, FetchErrorPage, Fetching, FetchLoadBalancers, MakeService,
         MakeRedis, MakePod, MakeSecret, MakeAutoscaler, MakeIngress, Object, Make, End
    <2> QED BY <1>a, <1>b, <2>1 DEF SearchIsTold
  <1> QED BY <1>1, <1>2, <1>3, <1>4, <1>5, <1>6 DEF Next, Developer, Daemon

THEOREM DeployMade == Spec => []DeployIsMade
  <1>1. Init => DeployIsMade
    BY InitMade
  <1>2. DeployIsMade /\ [Next]_vars => DeployIsMade'
    BY StepKeeps, StepWanted, StepBuilds, StepTells, StepCounts, StepSearches DEF DeployIsMade
  <1> QED BY <1>1, <1>2, PTL DEF Spec

-------------------------------------------------------------------------------
\* The state a deploy leaves.

\* A resource made of one that Fasit has.
IsMadeOf(r, f, q, page) ==
    /\ r.name = f.alias /\ r.type = f.type /\ r.propertyMap = q.propertyMap
    /\ r.properties = IF f.type = "applicationproperties"
                      THEN Without(Under(f.properties, Parsed(f.lines)), Properties)
                      ELSE f.properties
    /\ r.secret \in resolveSecrets(f.secrets)
    /\ r.certificates = IF f.type = "certificate" THEN resolveCertificates(f.files, page)
                        ELSE NoEntries
    /\ r.ingresses = {}

LEMMA OutcomeIs ==
    ASSUME NEW q, NEW page, NEW r \in Outcomes(q, page)
    PROVE  \E f \in Found(q) : IsMadeOf(r, f, q, page)
  <1>1. PICK f \in Found(q) : r \in mapToNaisResource(f, q.propertyMap, page)
    BY DEF Outcomes
  <1> QED BY <1>1 DEF mapToNaisResource, IsMadeOf

\* What is not an outcome of a request is the resource of the load balancers.
LEMMA OtherwiseBalancers ==
    ASSUME ResourcesAreWanted, NEW r \in InRange(LoadBalancers(situation.balancers))
    PROVE  /\ r.properties = NoEntries /\ r.secret = NoEntries /\ r.certificates = NoEntries
           /\ r.ingresses = parseLoadBalancerConfig(situation.balancers)
  <1>1. LoadBalancers(situation.balancers) # <<>>
    BY NoneInEmpty
  <1> DEFINE one == [name |-> <<>>, type |-> "LoadBalancerConfig", properties |-> NoEntries,
                     propertyMap |-> NoEntries, secret |-> NoEntries,
                     certificates |-> NoEntries,
                     ingresses |-> parseLoadBalancerConfig(situation.balancers)]
  <1>2. LoadBalancers(situation.balancers) = <<one>>
    BY <1>1, Zenon DEF LoadBalancers
  <1> HIDE DEF one
  <1>3. InRange(<<one>>) = {one}
    BY DEF InRange
  <1> QED BY <1>2, <1>3 DEF one

LEMMA OneOrTheOther ==
    ASSUME ResourcesAreWanted, ManifestIsKept, NEW i \in DOMAIN resources
    PROVE  /\ i \in Nat \ {0} /\ Len(Wanted) \in Nat /\ DOMAIN Wanted = 1 .. Len(Wanted)
           /\ i <= Len(Wanted) => i \in DOMAIN Wanted /\ resources[i] \in Comes(Wanted[i])
           /\ ~(i <= Len(Wanted)) => resources[i] \in InRange(LoadBalancers(situation.balancers))
  <1>1. Wanted \in Seq(InRange(Wanted))
    BY WantedIsSequence DEF ManifestIsKept
  <1>2. Len(Wanted) \in Nat /\ DOMAIN Wanted = 1 .. Len(Wanted)
    BY <1>1
  <1>3. resources \in Seq(OfFasit)
    BY DEF ResourcesAreWanted
  <1>4. i \in Nat \ {0}
    BY <1>3
  <1>5. IF i <= Len(Wanted) THEN resources[i] \in Comes(Wanted[i])
        ELSE resources[i] \in InRange(LoadBalancers(situation.balancers))
    BY DEF ResourcesAreWanted
  <1>6. i <= Len(Wanted) => i \in DOMAIN Wanted
    BY <1>2, <1>4
  <1> QED BY <1>2, <1>4, <1>5, <1>6

LEMMA IngressesAreOfBalancers ==
    ASSUME ResourcesAreWanted, ManifestIsKept, NEW i \in DOMAIN resources
    PROVE  resources[i].ingresses \in {{}, parseLoadBalancerConfig(situation.balancers)}
  <1>1. CASE i <= Len(Wanted)
    <2>1. resources[i] \in Comes(Wanted[i])
      BY <1>1, OneOrTheOther
    <2>2. \E page : resources[i] \in Outcomes(Wanted[i], page)
      BY <2>1, Zenon DEF Comes
    <2> QED BY <2>2, OutcomeIs DEF IsMadeOf
  <1>2. CASE ~(i <= Len(Wanted))
    BY <1>2, OneOrTheOther, OtherwiseBalancers
  <1> QED BY <1>1, <1>2

\* Each path has a slash.
LEMMA RulesHaveSlashes ==
    ASSUME ResourcesAreWanted, ManifestIsKept, NEW rule \in TheRules
    PROVE  rule.slashes >= 1
  <1>1. ASSUME NEW host, NEW path, path.slashes \in Nat
        PROVE  createIngressRule(host, path).slashes >= 1
    BY <1>1 DEF createIngressRule
  <1>2. ASSUME NEW config \in InRange(situation.balancers), NEW path \in InRange(config.paths)
        PROVE  path.slashes \in Nat
    BY SituationAssumption DEF ManifestIsKept
  <1>3. ASSUME NEW ingress \in parseLoadBalancerConfig(situation.balancers)
        PROVE  ingress.path.slashes \in Nat
    <2> DEFINE configs == situation.balancers
    <2>1. PICK n \in DOMAIN configs :
            ingress \in {[host |-> configs[n].host, path |-> configs[n].paths[i]]
                           : i \in DOMAIN configs[n].paths}
      BY <1>3 DEF parseLoadBalancerConfig
    <2>2. PICK i \in DOMAIN configs[n].paths : ingress.path = configs[n].paths[i]
      BY <2>1
    <2>3. configs[n] \in InRange(configs) /\ configs[n].paths[i] \in InRange(configs[n].paths)
      BY InRangeOf
    <2> QED BY <1>2, <2>2, <2>3
  <1>4. ASSUME NEW ingress \in UNION {r.ingresses : r \in InRange(resources)}
        PROVE  ingress.path.slashes \in Nat
    <2>1. PICK r \in InRange(resources) : ingress \in r.ingresses
      BY <1>4
    <2>2. PICK i \in DOMAIN resources : r = resources[i]
      BY <2>1 DEF InRange
    <2>3. ingress \in parseLoadBalancerConfig(situation.balancers)
      BY <2>1, <2>2, IngressesAreOfBalancers
    <2> QED BY <1>3, <2>3
  <1>5. \E host, path : rule = createIngressRule(host, path) /\ path.slashes \in Nat
    <2>1. NoPath.slashes \in Nat /\ [slashes |-> 0, name |-> request.application].slashes \in Nat
      BY DEF NoPath
    <2> QED BY <1>4, <2>1, Zenon DEF TheRules, createIngressRules
  <1> QED BY <1>1, <1>5

LEMMA AtMostOne ==
    ASSUME NEW s, s = <<>> \/ \E x : s = <<x>>
    PROVE  Len(s) <= 1
  <1>1. Len(<<>>) = 0 /\ \A x : Len(<<x>>) = 1
    OBVIOUS
  <1>2. Len(s) \in {0, 1}
    BY <1>1, Zenon
  <1>3. \A n \in {0, 1} : n <= 1
    OBVIOUS
  <1> QED BY <1>2, <1>3, Zenon

LEMMA OneOfOne ==
    ASSUME NEW s, NEW x, s \in {<<>>, <<x>>}
    PROVE  s = <<>> \/ \E y : s = <<y>>
  OBVIOUS

\* Every variable of the model has its type, and each path of an ingress begins with a
\* slash.
THEOREM TypeCorrect == Spec => []TypeOK
  <1>1. DeployIsMade => TypeOK
    <2> SUFFICES ASSUME DeployIsMade PROVE TypeOK
      OBVIOUS
    <2> USE DEF DeployIsMade
    <2>1. pc \in {"idle", "download", "check", "fasit", "publish"} \cup Kinds \cup Ends
      BY DEF ManifestIsKept, Early, Building, AfterRedis, AfterPod, AfterSecret,
             AfterAutoscaler, Kinds, Ends
    <2>2. \A kind \in Kinds : cluster[kind] = <<>> \/ \E x : cluster[kind] = <<x>>
      <3>1. \A kind \in Kinds : \E object : cluster[kind] \in {<<>>, <<object>>}
        BY DEF ObjectsAreBuilt, Kinds
      <3> QED BY <3>1, OneOfOne, Zenon
    <2>3. DOMAIN cluster = Kinds /\ \A kind \in Kinds : Len(cluster[kind]) <= 1
      <3>1. DOMAIN cluster = Kinds
        BY DEF ObjectsAreBuilt
      <3> QED BY <2>2, <3>1, AtMostOne, Zenon
    <2>4. ASSUME NEW rules \in InRange(cluster["ingress"]) PROVE rules = TheRules
      <3>1. cluster["ingress"] \in {<<>>, <<TheRules>>}
        BY DEF ObjectsAreBuilt
      <3>2. cluster["ingress"] = <<TheRules>>
        BY <2>4, <3>1, NoneInEmpty
      <3>3. InRange(<<TheRules>>) = {TheRules}
        BY DEF InRange
      <3> QED BY <2>4, <3>2, <3>3
    <2>5. \A rules \in InRange(cluster["ingress"]) : \A rule \in rules : rule.slashes >= 1
      BY <2>4, RulesHaveSlashes
    <2>6. Len(event) <= 1 /\ Len(printed) <= 1
      <3>1. (event = <<>> \/ \E x : event = <<x>>) /\ (printed = <<>> \/ \E x : printed = <<x>>)
        BY Zenon DEF ReportsAreOfTheDeploy
      <3> QED BY <3>1, AtMostOne, Zenon
    <2> QED BY <2>1, <2>3, <2>5, <2>6 DEF TypeOK, Counted
  <1> QED BY <1>1, DeployMade, PTL

-------------------------------------------------------------------------------
\* The event.

LEMMA PodRunsImage ==
    ThePod.image = [name |-> manifest.image, version |-> request.version]
  <1> DEFINE plain == PodSpecOf(request, manifest, resources, daemon)
  <1>1. plain.image = [name |-> manifest.image, version |-> request.version]
    BY DEF PodSpecOf
  <1>2. AddVaultContainers(plain, request, manifest).image = plain.image
    BY DEF AddVaultContainers, PodSpecOf
  <1>3. ThePod \in {plain, AddVaultContainers(plain, request, manifest)}
    BY Zenon DEF ThePod, createPodSpec
  <1> HIDE DEF plain
  <1> QED BY <1>1, <1>2, <1>3

\* Hosts are told apart by the number of their parts.
LEMMA PublicHosts ==
    ASSUME NEW host
    PROVE  /\ createIngressHostname(request, daemon.subdomain) # PublicHost
           /\ createSBSPublicHostname(request) = PublicHost <=> request.environment = "p"
  BY DEF createIngressHostname, createSBSPublicHostname, PublicHost

LEMMA PublicRules ==
    ASSUME request.zone = "sbs", ~FasitHasPublicHost
    PROVE  (\E rule \in TheRules : rule.host = PublicHost) <=> request.environment = "p"
  <1>1. ASSUME NEW host, NEW path PROVE createIngressRule(host, path).host = host
    BY DEF createIngressRule
  <1>2. ASSUME NEW ingress \in UNION {r.ingresses : r \in InRange(resources)}
        PROVE  ingress.host # PublicHost
    BY <1>2 DEF FasitHasPublicHost
  <1>3. ASSUME request.environment = "p" PROVE \E rule \in TheRules : rule.host = PublicHost
    <2> DEFINE public == createIngressRule(createSBSPublicHostname(request),
                                           [slashes |-> 0, name |-> request.application])
    <2>1. public \in TheRules
      BY DEF TheRules, createIngressRules
    <2>2. public.host = PublicHost
      BY <1>1, <1>3, PublicHosts
    <2> QED BY <2>1, <2>2
  <1>4. ASSUME NEW rule \in TheRules, rule.host = PublicHost PROVE request.environment = "p"
    <2>1. \/ rule.host = createIngressHostname(request, daemon.subdomain)
          \/ rule.host = createSBSPublicHostname(request)
          \/ \E ingress \in UNION {r.ingresses : r \in InRange(resources)} :
                rule.host = ingress.host
      BY <1>1, <1>4 DEF TheRules, createIngressRules
    <2> QED BY <1>2, <1>4, <2>1, PublicHosts
  <1> QED BY <1>3, <1>4

LEMMA OneAndOne ==
    ASSUME NEW S, NEW T, NEW p \in Seq(S), NEW q \in Seq(T), Len(p) = 1, Len(q) = 1
    PROVE  /\ p \o q \in Seq(S \cup T) /\ Len(p \o q) = 2
           /\ (p \o q)[1] = p[1] /\ (p \o q)[2] = q[1]
  <1>1. /\ p \o q \in Seq(S \cup T) /\ Len(p \o q) = Len(p) + Len(q)
        /\ \A i \in 1 .. Len(p) : (p \o q)[i] = p[i]
        /\ \A i \in 1 .. Len(q) : (p \o q)[Len(p) + i] = q[i]
    BY TwoSequences
  <1>2. 1 \in 1 .. Len(p) /\ 1 \in 1 .. Len(q) /\ Len(p) + 1 = 2 /\ Len(p) + Len(q) = 2
    OBVIOUS
  <1>3. (p \o q)[2] = q[1]
    BY <1>1, <1>2, Zenon
  <1> QED BY <1>1, <1>2, <1>3, Zenon

LEMMA RestOfTwo ==
    ASSUME NEW T, NEW p \in Seq(T), Len(p) = 2
    PROVE  Tail(p) \in Seq(T) /\ Len(Tail(p)) = 1 /\ Tail(p)[1] = p[2]
  <1>1. p # <<>>
    OBVIOUS
  <1>2. Tail(p) \in Seq(T)
    BY <1>1
  <1>3. Len(Tail(p)) = 1
    BY <1>1
  <1>4. Tail(p)[1] = p[2]
    BY <1>1
  <1> QED BY <1>2, <1>3, <1>4

\* The name of an image as it is written is a spelling of its full name.
LEMMA FullName ==
    ASSUME NEW image, NEW S, image.path \in Seq(S)
    PROVE  /\ Repository(image).registry # ""
           /\ [registry |-> image.registry, path |-> image.path] \in Spellings(Repository(image))
  <1> DEFINE path == image.path
             host == image.registry
             full == Repository(image)
             written == [registry |-> host, path |-> path]
  <1>1. path \in Seq(S)
    OBVIOUS
  <1>2. CASE host \in {"", "docker.io"}
    <2>1. /\ full.registry = "docker.io"
          /\ full.path = IF Len(path) = 1 THEN <<"library">> \o path ELSE path
      BY <1>2 DEF Repository
    <2> HIDE DEF full, path, host
    <2>2. CASE Len(path) = 1
      <3> DEFINE T == {"library"} \cup S
      <3>1. /\ path \in Seq(T) /\ <<"library">> \in Seq({"library"})
            /\ Len(<<"library">>) = 1 /\ <<"library">>[1] = "library"
        BY <1>1
      <3> HIDE DEF T
      <3>2. /\ full.path[1] = "library" /\ Len(full.path) = 2 /\ Tail(full.path) = path
        <4>1. full.path = <<"library">> \o path
          BY <2>1, <2>2
        <4>2. full.path \in Seq(T) /\ Len(full.path) = 2 /\ full.path[1] = "library"
              /\ full.path[2] = path[1]
          <5>1. /\ <<"library">> \o path \in Seq(T) /\ Len(<<"library">> \o path) = 2
                /\ (<<"library">> \o path)[1] = <<"library">>[1]
                /\ (<<"library">> \o path)[2] = path[1]
            BY <1>1, <2>2, <3>1, OneAndOne DEF T
          <5> QED BY <3>1, <4>1, <5>1
        <4> HIDE DEF path
        <4>3. ASSUME NEW p \in Seq(T), Len(p) = 2
              PROVE  Tail(p) \in Seq(T) /\ Len(Tail(p)) = 1 /\ Tail(p)[1] = p[2]
          BY <4>3, RestOfTwo, Zenon
        <4>4. \A p, q \in Seq(T) : Len(p) = 1 /\ Len(q) = 1 /\ p[1] = q[1] => p = q
          OBVIOUS
        <4> QED BY <2>2, <3>1, <4>2, <4>3, <4>4
      <3> QED BY <1>2, <2>1, <3>2 DEF Spellings, full, path, host
    <2>3. CASE Len(path) # 1
      <3>1. full.path = path
        BY <2>1, <2>3
      <3> QED BY <1>2, <2>1, <3>1 DEF Spellings, full, path, host
    <2> QED BY <2>2, <2>3
  <1>3. CASE host \notin {"", "docker.io"}
    <2>1. full = written
      BY <1>3 DEF Repository
    <2>2. full.registry = host
      BY <2>1
    <2> QED BY <1>3, <2>1, <2>2 DEF Spellings
  <1> QED BY <1>2, <1>3

LEMMA ImageHasPath ==
    ASSUME Filled
    PROVE  \E S : manifest.image.path \in Seq(S)
  <1>1. manifest.image = raw.image \/ manifest.image = Image0(request.application)
    BY FilledIs DEF Merged
  <1>2. raw.image.path \in Seq(InRange(raw.image.path))
    BY DEF Filled, IsManifest
  <1>3. Image0(request.application).path \in Seq({request.application})
    BY DEF Image0
  <1> QED BY <1>1, <1>2, <1>3

\* An event names the image that runs, in full, and the environment whose host is public.
THEOREM EventCorrect == Spec => []EventTellsWhatRuns
  <1>1. DeployIsMade => EventTellsWhatRuns
    <2> SUFFICES ASSUME DeployIsMade, event # <<>> PROVE EventTellsWhatRuns
      BY DEF EventTellsWhatRuns
    <2>1. PICK now \in Times :
            event = <<[sent |-> now, says |-> NewDeploymentEvent(request, manifest, now)]>>
      BY DEF DeployIsMade, ReportsAreOfTheDeploy
    <2>2. pc = "deployed"
      BY DEF DeployIsMade, ReportsAreOfTheDeploy
    <2>3. /\ cluster["pod"] # <<>> /\ cluster["autoscaler"] # <<>>
          /\ cluster["pod"] = <<ThePod>>
          /\ ~manifest.ingressDisabled => cluster["ingress"] = <<TheRules>>
      BY <2>2 DEF DeployIsMade, ObjectsAreBuilt, AfterPod, AfterSecret, AfterAutoscaler
    <2> DEFINE says == event[1].says
    <2>4. says = NewDeploymentEvent(request, manifest, now)
      BY <2>1
    <2>5. /\ says.environment = environment(request)
          /\ says.image = ContainerImage(manifest.image, request.version)
          /\ says.version = says.image.tag
      BY <2>4 DEF NewDeploymentEvent
    <2>6. /\ Pod.image.name = manifest.image
          /\ Pod.image.version = request.version
      BY <2>3, PodRunsImage DEF Pod
    <2> HIDE DEF says
    <2>7. request.version.tag # "unparsable" =>
            /\ says.image.name = Repository(Pod.image.name)
            /\ IF Pod.image.version.digest = "" THEN says.version = Pod.image.version.tag
               ELSE says.image.hash = Pod.image.version.digest
      <3> DEFINE version == request.version
      <3>1. SUFFICES ASSUME version.tag # "unparsable"
                     PROVE  /\ says.image.name = Repository(Pod.image.name)
                            /\ IF Pod.image.version.digest = ""
                               THEN says.version = Pod.image.version.tag
                               ELSE says.image.hash = Pod.image.version.digest
        OBVIOUS
      <3>2. says.image = [name |-> Repository(manifest.image), hash |-> hashtag(version).hash,
                          tag |-> hashtag(version).tag]
        BY <2>5, <3>1, Zenon DEF ContainerImage
      <3>3. /\ says.image.name = Repository(manifest.image) /\ says.image.hash = hashtag(version).hash
            /\ says.image.tag = hashtag(version).tag
        BY <3>2
      <3>4. IF version.digest = "" THEN hashtag(version).tag = version.tag
            ELSE hashtag(version).hash = version.digest
        BY DEF hashtag
      <3> QED BY <2>5, <2>6, <3>3, <3>4
    <2>8. (says.environment = "production") <=> (request.environment = "p")
      BY <2>5 DEF environment
    <2>9. request.zone = "sbs" /\ ~manifest.ingressDisabled /\ ~FasitHasPublicHost =>
            ((says.environment = "production") <=>
               \E rule \in cluster["ingress"][1] : rule.host = PublicHost)
      BY <2>3, <2>8, PublicRules
    <2>10. request.version.tag # "unparsable" =>
             /\ says.image.name.registry # ""
             /\ [registry |-> Pod.image.name.registry, path |-> Pod.image.name.path]
                   \in Spellings(says.image.name)
      <3>1. Filled
        BY <2>2 DEF DeployIsMade, ManifestIsKept, Filled, Early
      <3>2. PICK S : manifest.image.path \in Seq(S)
        BY <3>1, ImageHasPath
      <3>3. /\ Repository(manifest.image).registry # ""
            /\ [registry |-> manifest.image.registry, path |-> manifest.image.path]
                  \in Spellings(Repository(manifest.image))
        BY <3>2, FullName
      <3> QED BY <2>6, <2>7, <3>3
    <2> QED BY <2>3, <2>7, <2>9, <2>10 DEF EventTellsWhatRuns, says
  <1> QED BY <1>1, DeployMade, PTL

-------------------------------------------------------------------------------
\* The variables of the pod.

Existing == createDefaultEnvironmentVariables(request) \cup RedisVariables(request, manifest)
Unchecked == (IF manifest.webproxy THEN createProxyEnvironmentVariables(daemon) ELSE {})
               \cup (IF manifest.leaderElection THEN {ElectorPath} ELSE {})
Variables == Existing \cup ResourceVariables(resources) \cup Unchecked

LEMMA OneOrNone ==
    ASSUME NEW condition, NEW x
    PROVE  /\ OneIf(condition, x) \in Seq({x})
           /\ condition => OneIf(condition, x) = <<x>>
           /\ ~condition => OneIf(condition, x) = <<>>
           /\ Len(<<x>>) = 1 /\ <<x>>[1] = x /\ <<x>> \in Seq({x}) /\ <<>> \in Seq({x})
  <1>1. Len(<<x>>) = 1 /\ <<x>>[1] = x /\ <<x>> \in Seq({x}) /\ <<>> \in Seq({x})
    OBVIOUS
  <1> QED BY <1>1, Zenon DEF OneIf

\* The pod, and the pod with Vault, in parts.
WithoutVault == PodSpecOf(request, manifest, resources, daemon)
AppContainer == Container(request.application,
                          OneIf(hasCertificate(resources), request.application), Variables)
Elector == Container("elector", <<>>, {})
Sidecar == Container("vks-sidecar", <<"vault-secrets">>, {})
VaultInit == Container("vks-init", <<"vault-secrets">>, {})

LEMMA PlainPod ==
    /\ WithoutVault.containers = <<AppContainer>> \o OneIf(manifest.leaderElection, Elector)
    /\ WithoutVault.initContainers = <<>>
    /\ WithoutVault.volumes = OneIf(hasCertificate(resources),
                             createCertificateVolume(request, resources))
    /\ WithoutVault.requests = manifest.requests /\ WithoutVault.limits = manifest.limits
    /\ {"containers", "initContainers", "volumes"} \subseteq DOMAIN WithoutVault
  <1>1. createEnvironmentVariables(request, manifest, resources, daemon)
          \cup (IF manifest.leaderElection THEN {ElectorPath} ELSE {}) = Variables
    BY DEF createEnvironmentVariables, Variables, Existing, Unchecked
  <1>2. Container(request.application,
                  OneIf(hasCertificate(resources), request.application),
                  createEnvironmentVariables(request, manifest, resources, daemon)
                    \cup (IF manifest.leaderElection THEN {ElectorPath} ELSE {}))
          = AppContainer
    BY <1>1, Zenon DEF AppContainer
  <1> QED BY <1>2 DEF WithoutVault, PodSpecOf, Elector

LEMMA VaultPod ==
    LET pod == AddVaultContainers(WithoutVault, request, manifest)
    IN /\ pod.containers = MountVault(WithoutVault.containers, request.application)
                             \o OneIf(manifest.vault.sidecar, Sidecar)
       /\ pod.initContainers = Append(WithoutVault.initContainers, VaultInit)
       /\ pod.volumes = Append(WithoutVault.volumes, VaultVolume)
       /\ pod.requests = WithoutVault.requests /\ pod.limits = WithoutVault.limits
  BY PlainPod DEF AddVaultContainers, Sidecar, VaultInit

LEMMA PlainOrVault ==
    ThePod = IF UsesVault(manifest, daemon) THEN AddVaultContainers(WithoutVault, request, manifest)
             ELSE WithoutVault
  BY Zenon DEF ThePod, createPodSpec, WithoutVault

\* The containers of a pod, but for those of Vault.
LEMMA PlainContainers ==
    /\ WithoutVault.containers \in Seq({AppContainer, Elector}) /\ WithoutVault.containers[1] = AppContainer
    /\ Len(WithoutVault.containers) \in 1 .. 2
    /\ Len(WithoutVault.containers) = 2 <=> manifest.leaderElection
    /\ manifest.leaderElection => WithoutVault.containers[2] = Elector
  <1> DEFINE more == OneIf(manifest.leaderElection, Elector)
  <1>1. /\ more \in Seq({Elector}) /\ (manifest.leaderElection => more = <<Elector>>)
        /\ ~manifest.leaderElection => more = <<>>
        /\ <<AppContainer>> \in Seq({AppContainer}) /\ Len(<<AppContainer>>) = 1
        /\ <<AppContainer>>[1] = AppContainer
        /\ Len(<<Elector>>) = 1 /\ <<Elector>>[1] = Elector
    BY OneOrNone
  <1> HIDE DEF more
  <1>2. /\ WithoutVault.containers \in Seq({AppContainer} \cup {Elector})
        /\ Len(WithoutVault.containers) = 1 + Len(more)
        /\ WithoutVault.containers[1] = AppContainer
        /\ \A i \in 1 .. Len(more) : WithoutVault.containers[1 + i] = more[i]
    BY <1>1, PlainPod, TwoSequences DEF more
  <1>3. manifest.leaderElection => Len(more) = 1
    BY <1>1
  <1>4. ~manifest.leaderElection => Len(more) = 0
    BY <1>1
  <1> QED BY <1>1, <1>2, <1>3, <1>4

\* The first container is the application's, with all variables, also beside Vault.
LEMMA PodHasVariables == ThePod.containers[1].env = Variables
  <1> DEFINE old == WithoutVault.containers
             own == MountVault(old, request.application)
  <1>1. DOMAIN old = 1 .. Len(old) /\ Len(old) \in Nat /\ 1 \in 1 .. Len(old)
    BY PlainContainers
  <1>2. /\ AppContainer.env = Variables
        /\ [AppContainer EXCEPT !.mounts = Append(@, "vault-secrets")].env = Variables
    BY DEF AppContainer, Container
  <1>3. own \in Seq(InRange(own)) /\ Len(own) = Len(old) /\ own[1].env = Variables
    <2>1. own = [i \in 1 .. Len(old) |-> own[i]]
      BY <1>1 DEF MountVault
    <2>2. own[1] = IF old[1].name = request.application
                   THEN [old[1] EXCEPT !.mounts = Append(@, "vault-secrets")] ELSE old[1]
      BY <1>1 DEF MountVault
    <2>3. own[1].env = Variables
      BY <1>2, <2>2, PlainContainers
    <2> HIDE DEF own
    <2>4. DOMAIN own = 1 .. Len(old) /\ \A i \in 1 .. Len(old) : own[i] \in InRange(own)
      BY <2>1, InRangeOf
    <2> HIDE DEF old
    <2>5. own \in Seq(InRange(own)) /\ Len(own) = Len(old)
      BY <1>1, <2>1, <2>4
    <2> QED BY <2>3, <2>5
  <1>4. AddVaultContainers(WithoutVault, request, manifest).containers[1] = own[1]
    BY <1>1, <1>3, VaultPod, OneOrNone, TwoSequences
  <1> QED BY <1>2, <1>3, <1>4, PlainOrVault, PlainContainers

\* A variable a resource declares, and the value it gives.
DeclaredAs(i, key, value) ==
    [name |-> ToEnvironmentVariable(resources[i], key), value |-> value, stage |-> 2,
     by |-> <<i, key>>]

LEMMA WhatIsDeclared ==
    ASSUME NEW v
    PROVE  v \in ResourceVariables(resources) <=>
             \E i \in DOMAIN resources :
               \/ \E key \in DOMAIN resources[i].properties :
                     v = DeclaredAs(i, key, Text(resources[i].properties[key]))
               \/ \E key \in DOMAIN resources[i].secret :
                     v = DeclaredAs(i, key, SecretKey(ToResourceVariable(resources[i], key)))
               \/ \E key \in DOMAIN resources[i].certificates :
                     v = DeclaredAs(i, key, MountPoint(resources[i], key))
  <1>1. ASSUME NEW i \in DOMAIN resources
        PROVE  /\ v \in PropertyVariables(i, resources[i]) <=>
                     \E key \in DOMAIN resources[i].properties :
                        v = DeclaredAs(i, key, Text(resources[i].properties[key]))
               /\ v \in SecretVariables(i, resources[i]) <=>
                     \E key \in DOMAIN resources[i].secret :
                        v = DeclaredAs(i, key, SecretKey(ToResourceVariable(resources[i], key)))
               /\ v \in FileVariables(i, resources[i]) <=>
                     \E key \in DOMAIN resources[i].certificates :
                        v = DeclaredAs(i, key, MountPoint(resources[i], key))
    BY DEF PropertyVariables, SecretVariables, FileVariables, Declared, DeclaredAs
  <1>2. v \in ResourceVariables(resources) <=>
          \E i \in DOMAIN resources : \/ v \in PropertyVariables(i, resources[i])
                                      \/ v \in SecretVariables(i, resources[i])
                                      \/ v \in FileVariables(i, resources[i])
    BY DEF ResourceVariables
  <1> QED BY <1>1, <1>2

\* Which variables are added when.
LEMMA VariableFields ==
    ASSUME NEW stage, NEW name, NEW value
    PROVE  /\ Variable(stage, name, value).stage = stage
           /\ Variable(stage, name, value).by = <<>>
           /\ Variable(stage, name, value).name = name
           /\ Variable(stage, name, value).value = value
  BY DEF Variable

LEMMA Stages ==
    /\ \A v \in Existing : v.stage = 1 /\ v.by = <<>> /\ v.value[1] # "secret"
    /\ \A v \in ResourceVariables(resources) : v.stage = 2
    /\ \A v \in Unchecked : v.stage > 2
  <1>2. \A v \in Existing : v.stage = 1 /\ v.by = <<>> /\ v.value[1] # "secret"
    <2> SUFFICES ASSUME NEW v \in Existing PROVE v.stage = 1 /\ v.by = <<>> /\ v.value[1] # "secret"
      OBVIOUS
    <2>1. /\ \A x : Says(x)[1] # "secret" /\ <<"version", x>>[1] # "secret"
          /\ \A x : <<"rfs-", x>>[1] # "secret"
      BY DEF Says, Text
    <2>2. \E name, value : v = Variable(1, name, value) /\ value[1] # "secret"
      BY <2>1, Zenon DEF Existing, createDefaultEnvironmentVariables, RedisVariables
    <2> QED BY <2>2, VariableFields
  <1>3. \A v \in ResourceVariables(resources) : v.stage = 2
    <2>1. \A i, key, value : DeclaredAs(i, key, value).stage = 2
      BY DEF DeclaredAs
    <2> SUFFICES ASSUME NEW v \in ResourceVariables(resources) PROVE v.stage = 2
      OBVIOUS
    <2>2. \E i, key, value : v = DeclaredAs(i, key, value)
      BY WhatIsDeclared
    <2> QED BY <2>1, <2>2
  <1>4. \A v \in Unchecked : v.stage > 2
    <2>1. ASSUME NEW v \in createProxyEnvironmentVariables(daemon) PROVE v.stage = 3
      <3>1. \E name, value : v = Variable(3, name, value)
        BY Zenon DEF createProxyEnvironmentVariables, BothCases
      <3> QED BY <3>1, VariableFields
    <2>2. ElectorPath.stage = 4
      BY DEF ElectorPath, Variable
    <2> QED BY <2>1, <2>2 DEF Unchecked
  <1> QED BY <1>2, <1>3, <1>4

\* The value of a variable of the daemon, told from its name: so the names are all
\* different.
OwnValue(name) ==
    IF name[1] = "REDIS" THEN <<"rfs-", request.application>>
    ELSE IF name[1] = "FASIT" THEN Says(request.environment)
    ELSE IF name[3] = "CLUSTER" THEN Says(request.cluster)
    ELSE IF name[3] \in {"NAMESPACE", "ENVIRONMENT"} THEN Says(request.namespace)
    ELSE IF name[3] = "VERSION" THEN <<"version", request.version>>
    ELSE IF name[3] = "APP" /\ name[5] = "IMAGE" THEN <<"version", request.version>>
    ELSE Says(request.application)

LEMMA OwnValues ==
    ASSUME NEW v \in Existing
    PROVE  v = Variable(1, v.name, OwnValue(v.name))
  <1>1. ASSUME NEW name, NEW value, v = Variable(1, name, value)
        PROVE  v.name = name
    BY <1>1, VariableFields
  <1>2. CASE v = Variable(1, <<"APP", "_", "NAME">>, Says(request.application))
    <2>1. OwnValue(<<"APP", "_", "NAME">>) = Says(request.application)
      BY DEF OwnValue
    <2> QED BY <1>1, <1>2, <2>1, Zenon
  <1>3. CASE v = Variable(1, <<"APP", "_", "VERSION">>, <<"version", request.version>>)
    <2>1. OwnValue(<<"APP", "_", "VERSION">>) = <<"version", request.version>>
      BY DEF OwnValue
    <2> QED BY <1>1, <1>3, <2>1, Zenon
  <1>4. CASE v = Variable(1, <<"APP", "_", "ENVIRONMENT">>, Says(request.namespace))
    <2>1. OwnValue(<<"APP", "_", "ENVIRONMENT">>) = Says(request.namespace)
      BY DEF OwnValue
    <2> QED BY <1>1, <1>4, <2>1, Zenon
  <1>5. CASE v = Variable(1, <<"NAIS", "_", "NAMESPACE">>, Says(request.namespace))
    <2>1. OwnValue(<<"NAIS", "_", "NAMESPACE">>) = Says(request.namespace)
      BY DEF OwnValue
    <2> QED BY <1>1, <1>5, <2>1, Zenon
  <1>6. CASE v = Variable(1, <<"NAIS", "_", "APP", "_", "NAME">>, Says(request.application))
    <2>1. OwnValue(<<"NAIS", "_", "APP", "_", "NAME">>) = Says(request.application)
      BY DEF OwnValue
    <2> QED BY <1>1, <1>6, <2>1, Zenon
  <1>7. CASE v = Variable(1, <<"NAIS", "_", "APP", "_", "IMAGE">>, <<"version", request.version>>)
    <2>1. OwnValue(<<"NAIS", "_", "APP", "_", "IMAGE">>) = <<"version", request.version>>
      BY DEF OwnValue
    <2> QED BY <1>1, <1>7, <2>1, Zenon
  <1>8. CASE v = Variable(1, <<"NAIS", "_", "CLUSTER", "_", "NAME">>, Says(request.cluster))
    <2>1. OwnValue(<<"NAIS", "_", "CLUSTER", "_", "NAME">>) = Says(request.cluster)
      BY DEF OwnValue
    <2> QED BY <1>1, <1>8, <2>1, Zenon
  <1>9. CASE v = Variable(1, <<"FASIT", "_", "ENVIRONMENT", "_", "NAME">>, Says(request.environment))
    <2>1. OwnValue(<<"FASIT", "_", "ENVIRONMENT", "_", "NAME">>) = Says(request.environment)
      BY DEF OwnValue
    <2> QED BY <1>1, <1>9, <2>1, Zenon
  <1>10. CASE v = Variable(1, <<"REDIS", "_", "HOST">>, <<"rfs-", request.application>>)
    <2>1. OwnValue(<<"REDIS", "_", "HOST">>) = <<"rfs-", request.application>>
      BY DEF OwnValue
    <2> QED BY <1>1, <1>10, <2>1, Zenon
  <1> QED BY <1>2, <1>3, <1>4, <1>5, <1>6, <1>7, <1>8, <1>9, <1>10
      DEF Existing, createDefaultEnvironmentVariables, RedisVariables

LEMMA OwnNamesDiffer ==
    ASSUME NEW v \in Existing, NEW w \in Existing, v.name = w.name
    PROVE  v = w
  BY OwnValues

\* No variable of a resource has the name of another one, or of one of the daemon's.
LEMMA NoDuplicates ==
    ASSUME ~PodFails, NEW w \in ResourceVariables(resources),
           NEW v \in Existing \cup ResourceVariables(resources), v.name = w.name
    PROVE  v = w
  <1>1. ~checkForDuplicates(Existing, ResourceVariables(resources))
    BY Zenon DEF PodFails, createPodSpecFails, EnvironmentFails, Existing
  <1> QED BY <1>1 DEF checkForDuplicates, SameName

LEMMA AddedAre ==
    ASSUME cluster["pod"] = <<ThePod>>
    PROVE  /\ Pod = ThePod /\ Pod.containers[1].env = Variables
           /\ AddedUnchecked = {v.name : v \in Unchecked}
  <1>1. Pod = ThePod
    BY DEF Pod
  <1>2. Pod.containers[1].env = Variables
    BY <1>1, PodHasVariables
  <1>3. {w \in Variables : w.stage > 2} = Unchecked
    BY Stages DEF Variables
  <1> QED BY <1>1, <1>2, <1>3 DEF AddedUnchecked

LEMMA PodIsThePod ==
    ASSUME ObjectsAreBuilt, cluster["pod"] # <<>>
    PROVE  cluster["pod"] = <<ThePod>> /\ ~PodFails
  BY DEF ObjectsAreBuilt

\* No two variables have the same name, but for those the daemon does not compare.
THEOREM VariablesCorrect == Spec => []VariablesMeanOneThing
  <1>1. DeployIsMade => VariablesMeanOneThing
    <2> SUFFICES ASSUME DeployIsMade, cluster["pod"] # <<>>,
                        NEW v \in Pod.containers[1].env, NEW w \in Pod.containers[1].env,
                        v # w, v.name = w.name, v.name \notin AddedUnchecked
                 PROVE  FALSE
      BY DEF VariablesMeanOneThing
    <2>1. cluster["pod"] = <<ThePod>> /\ ~PodFails
      BY PodIsThePod DEF DeployIsMade
    <2>2. v \in Variables /\ w \in Variables /\ v \notin Unchecked /\ w \notin Unchecked
      BY <2>1, AddedAre
    <2>3. /\ v \in Existing \cup ResourceVariables(resources)
          /\ w \in Existing \cup ResourceVariables(resources)
      BY <2>2 DEF Variables
    <2>4. v \in Existing /\ w \in Existing
      BY <2>1, <2>3, NoDuplicates
    <2> QED BY <2>4, OwnNamesDiffer
  <1> QED BY <1>1, DeployMade, PTL

-------------------------------------------------------------------------------
\* The Secret.

\* What the Secret has under the key of an entry, if no other entry has that key.
LEMMA Keyed ==
    ASSUME NEW r, NEW entries, NEW key \in DOMAIN entries,
           \A k \in DOMAIN entries :
              ToResourceVariable(r, k) = ToResourceVariable(r, key) => k = key
    PROVE  /\ DOMAIN KeyedBy(r, entries) = {ToResourceVariable(r, k) : k \in DOMAIN entries}
           /\ KeyedBy(r, entries)[ToResourceVariable(r, key)] = entries[key]
  <1> DEFINE named == ToResourceVariable(r, key)
  <1>1. (CHOOSE k \in DOMAIN entries : ToResourceVariable(r, k) = named) = key
    OBVIOUS
  <1> QED BY <1>1 DEF KeyedBy

Entries(i) == Under(KeyedBy(resources[i], resources[i].secret),
                    KeyedBy(resources[i], resources[i].certificates))
KeysIn(i) == {ToResourceVariable(resources[i], k)
                : k \in DOMAIN resources[i].secret \cup DOMAIN resources[i].certificates}

LEMMA EntriesAre ==
    /\ TheSecret = Together([i \in DOMAIN resources |-> Entries(i)])
    /\ \A i : DOMAIN Entries(i) = KeysIn(i)
  <1>1. TheSecret = Together([i \in DOMAIN resources |-> Entries(i)])
    BY Zenon DEF TheSecret, createSecretData, Entries
  <1>2. ASSUME NEW i PROVE DOMAIN Entries(i) = KeysIn(i)
    BY DEF Entries, Under, KeyedBy, KeysIn
  <1> QED BY <1>1, <1>2

\* Of several maps only one has a key: it counts.
LEMMA OnlyOne ==
    ASSUME NEW data, NEW i \in DOMAIN data, i \in Int, NEW key \in DOMAIN data[i],
           \A j \in DOMAIN data : key \in DOMAIN data[j] => j = i
    PROVE  key \in DOMAIN Together(data) /\ Together(data)[key] = data[i][key]
  <1>1. With(data, key) = {i}
    BY DEF With
  <1>2. Latest({i}) = i
    BY DEF Latest
  <1>3. key \in UNION {DOMAIN data[j] : j \in DOMAIN data}
    OBVIOUS
  <1> QED BY <1>1, <1>2, <1>3 DEF Together

\* The name of a variable says its key.
LEMMA DeclaredOfKeys ==
    ASSUME NEW i \in DOMAIN resources
    PROVE  /\ \A key \in DOMAIN resources[i].secret :
                DeclaredAs(i, key, SecretKey(ToResourceVariable(resources[i], key)))
                  \in ResourceVariables(resources)
           /\ \A key \in DOMAIN resources[i].certificates :
                DeclaredAs(i, key, MountPoint(resources[i], key)) \in ResourceVariables(resources)
           /\ \A key \in DOMAIN resources[i].properties :
                DeclaredAs(i, key, Text(resources[i].properties[key]))
                  \in ResourceVariables(resources)
           /\ \A key, value : /\ DeclaredAs(i, key, value).value = value
                              /\ DeclaredAs(i, key, value).by = <<i, key>>
                              /\ DeclaredAs(i, key, value).stage = 2
                              /\ DeclaredAs(i, key, value).name
                                   = ToUpper(ToResourceVariable(resources[i], key))
  <1>1. \A key, value : /\ DeclaredAs(i, key, value).value = value
                        /\ DeclaredAs(i, key, value).by = <<i, key>>
                        /\ DeclaredAs(i, key, value).stage = 2
                        /\ DeclaredAs(i, key, value).name
                             = ToUpper(ToResourceVariable(resources[i], key))
    BY DEF DeclaredAs, ToEnvironmentVariable
  <1> QED BY <1>1, WhatIsDeclared

\* Without duplicates no two entries of secrets and files have the same key.
LEMMA KeysDiffer ==
    ASSUME ~PodFails, NEW i \in DOMAIN resources, NEW j \in DOMAIN resources,
           NEW k \in DOMAIN resources[i].secret \cup DOMAIN resources[i].certificates,
           NEW l \in DOMAIN resources[j].secret \cup DOMAIN resources[j].certificates,
           ToResourceVariable(resources[i], k) = ToResourceVariable(resources[j], l)
    PROVE  /\ i = j /\ k = l
           /\ k \notin DOMAIN resources[i].secret \cap DOMAIN resources[i].certificates
  <1> DEFINE name == ToUpper(ToResourceVariable(resources[i], k))
             SecretIs(n, key) ==
               DeclaredAs(n, key, SecretKey(ToResourceVariable(resources[n], key)))
             FileIs(n, key) == DeclaredAs(n, key, MountPoint(resources[n], key))
  <1>1. \E v \in ResourceVariables(resources) : v.name = name /\ v.by = <<i, k>>
    BY DeclaredOfKeys
  <1>2. \E w \in ResourceVariables(resources) : w.name = name /\ w.by = <<j, l>>
    BY DeclaredOfKeys
  <1>3. <<i, k>> = <<j, l>>
    BY <1>1, <1>2, NoDuplicates
  <1>4. ASSUME k \in DOMAIN resources[i].secret, k \in DOMAIN resources[i].certificates
        PROVE  FALSE
    <2>1. SecretIs(i, k) = FileIs(i, k)
      BY <1>4, DeclaredOfKeys, NoDuplicates
    <2>2. SecretIs(i, k).value = SecretKey(ToResourceVariable(resources[i], k))
      BY DeclaredOfKeys
    <2>3. FileIs(i, k).value = MountPoint(resources[i], k)
      BY DeclaredOfKeys
    <2>4. SecretKey(ToResourceVariable(resources[i], k)) # MountPoint(resources[i], k)
      BY DEF SecretKey, MountPoint
    <2> HIDE DEF SecretIs, FileIs
    <2> QED BY <2>1, <2>2, <2>3, <2>4
  <1> QED BY <1>3, <1>4

LEMMA SecretHasEntries ==
    ASSUME ~PodFails, ResourcesAreWanted, NEW i \in DOMAIN resources
    PROVE  /\ \A key \in DOMAIN resources[i].secret :
                LET named == ToResourceVariable(resources[i], key)
                IN named \in DOMAIN TheSecret /\ TheSecret[named] = resources[i].secret[key]
           /\ \A file \in DOMAIN resources[i].certificates :
                LET named == ToResourceVariable(resources[i], file)
                IN named \in DOMAIN TheSecret /\ TheSecret[named] = resources[i].certificates[file]
  <1> DEFINE secret == resources[i].secret
             files == resources[i].certificates
             Named(key) == ToResourceVariable(resources[i], key)
             data == [j \in DOMAIN resources |-> Entries(j)]
  <1>1. DOMAIN data = DOMAIN resources /\ \A j \in DOMAIN resources : data[j] = Entries(j)
    OBVIOUS
  <1>2. i \in Int
    <2>1. resources \in Seq(OfFasit)
      BY DEF ResourcesAreWanted
    <2> QED BY <2>1
  <1>3. ASSUME NEW key \in DOMAIN secret \cup DOMAIN files
        PROVE  Named(key) \in DOMAIN TheSecret /\ TheSecret[Named(key)] = Entries(i)[Named(key)]
    <2>1. Named(key) \in DOMAIN data[i]
      BY <1>1, EntriesAre DEF KeysIn
    <2>2. ASSUME NEW j \in DOMAIN data, Named(key) \in DOMAIN data[j] PROVE j = i
      <3>1. Named(key) \in KeysIn(j) /\ j \in DOMAIN resources
        BY <1>1, <2>2, EntriesAre
      <3>2. PICK l \in DOMAIN resources[j].secret \cup DOMAIN resources[j].certificates :
              Named(key) = ToResourceVariable(resources[j], l)
        BY <3>1 DEF KeysIn
      <3> QED BY <3>1, <3>2, KeysDiffer
    <2> HIDE DEF data, Named
    <2>3. Named(key) \in DOMAIN Together(data) /\ Together(data)[Named(key)] = data[i][Named(key)]
      BY <1>1, <1>2, <2>1, <2>2, OnlyOne
    <2>4. TheSecret = Together(data)
      BY EntriesAre DEF data
    <2> QED BY <1>1, <2>3, <2>4
  <1>4. ASSUME NEW key \in DOMAIN secret PROVE Entries(i)[Named(key)] = secret[key]
    <2>1. \A k \in DOMAIN secret \cup DOMAIN files : Named(k) = Named(key) =>
             k = key /\ key \notin DOMAIN secret \cap DOMAIN files
      BY KeysDiffer
    <2>2. /\ DOMAIN KeyedBy(resources[i], secret) = {Named(k) : k \in DOMAIN secret}
          /\ KeyedBy(resources[i], secret)[Named(key)] = secret[key]
      <3>1. \A k \in DOMAIN secret :
               ToResourceVariable(resources[i], k) = ToResourceVariable(resources[i], key)
                 => k = key
        BY <2>1
      <3> HIDE DEF secret
      <3> QED BY <3>1, Keyed, ZenonT(40)
    <2>3. Named(key) \notin {Named(k) : k \in DOMAIN files}
      BY <2>1
    <2>4. DOMAIN KeyedBy(resources[i], files) = {Named(k) : k \in DOMAIN files}
      BY DEF KeyedBy
    <2>5. Named(key) \in DOMAIN KeyedBy(resources[i], secret)
      BY <2>2
    <2> HIDE DEF Named, secret, files
    <2> QED BY <2>2, <2>3, <2>4, <2>5 DEF Entries, Under, secret, files
  <1>5. ASSUME NEW file \in DOMAIN files PROVE Entries(i)[Named(file)] = files[file]
    <2>1. \A k \in DOMAIN secret \cup DOMAIN files : Named(k) = Named(file) => k = file
      BY KeysDiffer
    <2>2. /\ DOMAIN KeyedBy(resources[i], files) = {Named(k) : k \in DOMAIN files}
          /\ KeyedBy(resources[i], files)[Named(file)] = files[file]
      <3>1. \A k \in DOMAIN files :
               ToResourceVariable(resources[i], k) = ToResourceVariable(resources[i], file)
                 => k = file
        BY <2>1
      <3> HIDE DEF files
      <3> QED BY <3>1, Keyed, ZenonT(40)
    <2>3. Named(file) \in DOMAIN KeyedBy(resources[i], files)
      BY <2>2
    <2> HIDE DEF Named, secret, files
    <2> QED BY <2>2, <2>3 DEF Entries, Under, secret, files
  <1> QED BY <1>3, <1>4, <1>5

LEMMA InAppended ==
    ASSUME NEW S, NEW s \in Seq(S), NEW t, NEW x \in InRange(s)
    PROVE  x \in InRange(Append(s, t))
  <1>1. PICK i \in 1 .. Len(s) : x = s[i]
    BY DEF InRange
  <1>2. i \in DOMAIN Append(s, t) /\ Append(s, t)[i] = s[i]
    BY <1>1
  <1> QED BY <1>1, <1>2 DEF InRange

\* The files of certificates are a volume of the pod, also beside Vault.
LEMMA PodHasVolume ==
    ASSUME hasCertificate(resources)
    PROVE  createCertificateVolume(request, resources) \in InRange(ThePod.volumes)
  <1> DEFINE volume == createCertificateVolume(request, resources)
  <1>1. WithoutVault.volumes = <<volume>> /\ <<volume>> \in Seq({volume})
    BY PlainPod, OneOrNone
  <1>2. volume \in InRange(<<volume>>)
    BY DEF InRange
  <1> HIDE DEF volume
  <1>3. volume \in InRange(Append(WithoutVault.volumes, VaultVolume))
    BY <1>1, <1>2, InAppended
  <1>4. ThePod.volumes \in {WithoutVault.volumes, Append(WithoutVault.volumes, VaultVolume)}
    BY PlainOrVault, VaultPod
  <1>5. volume \in InRange(ThePod.volumes)
    BY <1>1, <1>2, <1>3, <1>4, Zenon
  <1> QED BY <1>5 DEF volume

LEMMA SecretIsTheSecret ==
    ASSUME ObjectsAreBuilt, cluster["pod"] # <<>>, pc # "secret"
    PROVE  SecretData = TheSecret
  <1>1. cluster["secret"] = IF TheSecret = NoEntries THEN <<>> ELSE <<TheSecret>>
    BY DEF ObjectsAreBuilt
  <1>2. CASE TheSecret = NoEntries
    BY <1>1, <1>2, Zenon DEF SecretData
  <1>3. CASE TheSecret # NoEntries
    <2>1. cluster["secret"] = <<TheSecret>> /\ <<TheSecret>> # <<>> /\ <<TheSecret>>[1] = TheSecret
      BY <1>1, <1>3
    <2> QED BY <2>1, Zenon DEF SecretData
  <1> QED BY <1>2, <1>3

\* A variable of a resource whose name the daemon does not add later is the one the
\* application sees.
LEMMA SeesDeclared ==
    ASSUME DeployIsMade, cluster["pod"] # <<>>, NEW v \in ResourceVariables(resources),
           v.name \notin AddedUnchecked
    PROVE  Winner(v.name) = v
  <1>1. cluster["pod"] = <<ThePod>> /\ ~PodFails
    BY PodIsThePod DEF DeployIsMade
  <1>2. Pod.containers[1].env = Variables /\ v \in Variables
    BY <1>1, AddedAre DEF Variables
  <1>3. ASSUME NEW w \in Variables, w.name = v.name PROVE w = v
    <2>1. w \notin Unchecked
      BY <1>1, <1>3, AddedAre
    <2>2. w \in Existing \cup ResourceVariables(resources)
      BY <2>1 DEF Variables
    <2> QED BY <1>1, <1>3, <2>2, NoDuplicates
  <1>4. v.stage <= v.stage
    BY Stages
  <1> QED BY <1>2, <1>3, <1>4 DEF Winner

\* The Secret has under each key a variable or a volume refers to the value the
\* resource has.
THEOREM SecretCorrect == Spec => []SecretHoldsWhatPodsRead
  <1>1. DeployIsMade => SecretHoldsWhatPodsRead
    <2> SUFFICES ASSUME DeployIsMade, cluster["pod"] # <<>>, pc # "secret",
                        NEW i \in DOMAIN resources
                 PROVE  LET r == resources[i]
                        IN /\ \A key \in DOMAIN r.secret :
                                ToEnvironmentVariable(r, key) \notin AddedUnchecked =>
                                  /\ ToResourceVariable(r, key) \in DOMAIN SecretData
                                  /\ Sees(ToEnvironmentVariable(r, key)) = Text(r.secret[key])
                           /\ \A file \in DOMAIN r.certificates :
                                \E volume \in InRange(Pod.volumes) : \E item \in volume.items :
                                  /\ MountPoint(r, file)
                                       = <<"/var/run/secrets/naisd.io/", item>>
                                  /\ item \in DOMAIN SecretData
                                  /\ SecretData[item] = r.certificates[file]
      BY DEF SecretHoldsWhatPodsRead
    <2> DEFINE r == resources[i]
    <2>1. cluster["pod"] = <<ThePod>> /\ ~PodFails /\ Pod = ThePod
      BY PodIsThePod, AddedAre DEF DeployIsMade
    <2>2. SecretData = TheSecret
      BY SecretIsTheSecret DEF DeployIsMade
    <2>3. /\ \A key \in DOMAIN r.secret :
               /\ ToResourceVariable(r, key) \in DOMAIN TheSecret
               /\ TheSecret[ToResourceVariable(r, key)] = r.secret[key]
          /\ \A file \in DOMAIN r.certificates :
               /\ ToResourceVariable(r, file) \in DOMAIN TheSecret
               /\ TheSecret[ToResourceVariable(r, file)] = r.certificates[file]
      BY <2>1, SecretHasEntries DEF DeployIsMade
    <2>4. ASSUME NEW key \in DOMAIN r.secret,
                 ToEnvironmentVariable(r, key) \notin AddedUnchecked
          PROVE  Sees(ToEnvironmentVariable(r, key)) = Text(r.secret[key])
      <3> DEFINE v == DeclaredAs(i, key, SecretKey(ToResourceVariable(r, key)))
      <3>1. /\ v \in ResourceVariables(resources) /\ v.name = ToEnvironmentVariable(r, key)
            /\ v.value = SecretKey(ToResourceVariable(r, key))
        BY DeclaredOfKeys DEF ToEnvironmentVariable
      <3> HIDE DEF v
      <3>2. Winner(v.name) = v
        BY <2>4, <3>1, SeesDeclared
      <3>3. v.value[1] = "secret" /\ v.value[2] = ToResourceVariable(r, key)
        BY <3>1 DEF SecretKey
      <3> QED BY <2>2, <2>3, <2>4, <3>1, <3>2, <3>3, Zenon DEF Sees
    <2>5. ASSUME NEW file \in DOMAIN r.certificates
          PROVE  \E volume \in InRange(Pod.volumes) : \E item \in volume.items :
                   /\ MountPoint(r, file) = <<"/var/run/secrets/naisd.io/", item>>
                   /\ item \in DOMAIN SecretData /\ SecretData[item] = r.certificates[file]
      <3> DEFINE volume == createCertificateVolume(request, resources)
                 item == ToResourceVariable(r, file)
      <3>1. r \in InRange(resources)
        BY InRangeOf
      <3>2. r.certificates # NoEntries
        BY <2>5, NoKeys
      <3>3. volume \in InRange(Pod.volumes)
        BY <2>1, <3>1, <3>2, PodHasVolume DEF hasCertificate
      <3>4. volume.items = Items(resources)
        BY DEF createCertificateVolume
      <3>5. item \in Items(resources)
        BY <3>1 DEF Items
      <3>6. MountPoint(r, file) = <<"/var/run/secrets/naisd.io/", item>>
        BY Zenon DEF MountPoint
      <3> HIDE DEF volume, item
      <3>7. item \in DOMAIN SecretData /\ SecretData[item] = r.certificates[file]
        BY <2>2, <2>3 DEF item
      <3> QED BY <3>3, <3>4, <3>5, <3>6, <3>7
    <2> QED BY <2>2, <2>3, <2>4, <2>5
  <1> QED BY <1>1, DeployMade, PTL

-------------------------------------------------------------------------------
\* What a developer sees.

Answered(q) == Outcomes(q, "")

\* Two answers to a request are of the same resource: they differ in the contents of
\* files, and in the secret if the resource has several.
LEMMA SameResource ==
    ASSUME situation \in Situations, NEW q, NEW a \in Answered(q), NEW b \in Comes(q)
    PROVE  /\ a.properties = b.properties
           /\ DOMAIN a.certificates = DOMAIN b.certificates
           /\ DOMAIN a.secret = DOMAIN b.secret /\ DOMAIN a.secret \subseteq {Password}
           /\ \A key : /\ ToResourceVariable(a, key) = ToResourceVariable(b, key)
                       /\ ToEnvironmentVariable(a, key) = ToEnvironmentVariable(b, key)
           /\ a.secret = b.secret
              \/ \E f \in situation.found :
                    f.alias = b.name /\ \E k, l \in DOMAIN f.secrets : k # l
  <1>1. PICK f \in Found(q) : IsMadeOf(a, f, q, "")
    BY OutcomeIs DEF Answered
  <1>2. \E page : b \in Outcomes(q, page)
    BY Zenon DEF Comes
  <1>3. PICK page : b \in Outcomes(q, page)
    BY <1>2
  <1>4. PICK g \in Found(q) : IsMadeOf(b, g, q, page)
    BY <1>3, OutcomeIs
  <1>5. f = g
    BY SituationAssumption DEF Found
  <1>6. DOMAIN a.certificates = DOMAIN b.certificates
    BY <1>1, <1>4, <1>5 DEF resolveCertificates, IsMadeOf
  <1>7. ASSUME NEW s \in resolveSecrets(f.secrets)
        PROVE  \/ f.secrets = NoEntries /\ s = NoEntries
               \/ /\ f.secrets # NoEntries
                  /\ \E key \in DOMAIN f.secrets : s = [name \in {Password} |-> f.secrets[key]]
    BY DEF resolveSecrets
  <1>8. a.secret \in resolveSecrets(f.secrets) /\ b.secret \in resolveSecrets(f.secrets)
    BY <1>1, <1>4, <1>5 DEF IsMadeOf
  <1>9. DOMAIN a.secret = DOMAIN b.secret /\ DOMAIN a.secret \subseteq {Password}
    BY <1>7, <1>8, NoKeys
  <1>10. a.secret = b.secret \/ \E k, l \in DOMAIN f.secrets : k # l
    <2> SUFFICES ASSUME \A k, l \in DOMAIN f.secrets : k = l PROVE a.secret = b.secret
      OBVIOUS
    <2>1. CASE f.secrets = NoEntries
      <3>1. resolveSecrets(f.secrets) = {NoEntries}
        BY <2>1, Zenon DEF resolveSecrets
      <3> QED BY <1>8, <3>1
    <2>2. CASE f.secrets # NoEntries
      <3>1. PICK k \in DOMAIN f.secrets : a.secret = [name \in {Password} |-> f.secrets[k]]
        BY <1>7, <1>8, <2>2
      <3>2. PICK l \in DOMAIN f.secrets : b.secret = [name \in {Password} |-> f.secrets[l]]
        BY <1>7, <1>8, <2>2
      <3>3. k = l
        OBVIOUS
      <3> QED BY <3>1, <3>2, <3>3, Zenon
    <2> QED BY <2>1, <2>2
  <1>11. a.name = b.name /\ a.type = b.type /\ a.propertyMap = b.propertyMap
    BY <1>1, <1>4, <1>5 DEF IsMadeOf
  <1>12. \A key : ToResourceVariable(a, key) = ToResourceVariable(b, key)
    BY <1>11, Zenon DEF ToResourceVariable
  <1>13. f \in situation.found
    BY DEF Found
  <1> QED BY <1>1, <1>4, <1>5, <1>6, <1>9, <1>10, <1>12, <1>13 DEF ToEnvironmentVariable, IsMadeOf

\* What `nais env` prints and what it means.
LEMMA PrintedIs ==
    ASSUME NEW r, NEW line
    PROVE  line \in Printed(r) <=>
             \/ \E key \in DOMAIN r.secret :
                   line = <<ToEnvironmentVariable(r, key), Text(Printf(r.secret[key]))>>
             \/ \E key \in DOMAIN r.properties :
                   line = <<ToEnvironmentVariable(r, key), Text(Printf(r.properties[key]))>>
             \/ \E key \in DOMAIN r.certificates :
                   line = <<ToEnvironmentVariable(r, key), MountPoint(r, key)>>
  BY DEF Printed

\* A variable that no secret gives is what the application sees.
LEMMA SeesValue ==
    ASSUME DeployIsMade, cluster["pod"] # <<>>, NEW v \in ResourceVariables(resources),
           v.name \notin AddedUnchecked, v.value[1] # "secret"
    PROVE  Sees(v.name) = v.value
  <1>1. Winner(v.name) = v
    BY SeesDeclared
  <1> QED BY <1>1, Zenon DEF Sees

\* A text without signs is printed as it is, and told from one with them.
LEMMA PrintedPlainly ==
    ASSUME NEW value
    PROVE  /\ Signs(Text(value)) = value.signs /\ Signs(Text(Printf(value))) = value.signs
           /\ value.signs = {} => Printf(value) = value
  <1>1. Text(value)[1] = "text" /\ Text(value)[2] = value
    BY DEF Text
  <1>2. Text(Printf(value))[1] = "text" /\ Text(Printf(value))[2] = Printf(value)
    BY DEF Text
  <1>3. Printf(value).signs = value.signs
    BY DEF Printf
  <1>4. value.signs = {} => Printf(value) = value
    BY DEF Printf
  <1> QED BY <1>1, <1>2, <1>3, <1>4, Zenon DEF Signs

LEMMA LinesAreSeen ==
    ASSUME DeployIsMade, SecretHoldsWhatPodsRead, pc = "deployed",
           NEW i \in DOMAIN resources, NEW q, NEW a \in Answered(q), resources[i] \in Comes(q)
    PROVE  LET r == resources[i]
           IN /\ \A key \in DOMAIN r.secret : Plain(ToEnvironmentVariable(r, key)) =>
                    Sees(ToEnvironmentVariable(r, key)) = Text(a.secret[key])
              /\ \A key \in DOMAIN r.properties : Plain(ToEnvironmentVariable(r, key)) =>
                    Sees(ToEnvironmentVariable(r, key)) = Text(a.properties[key])
              /\ \A key \in DOMAIN r.certificates : Plain(ToEnvironmentVariable(r, key)) =>
                    Sees(ToEnvironmentVariable(r, key)) = MountPoint(a, key)
  <1> DEFINE r == resources[i]
  <1>1. cluster["pod"] # <<>> /\ pc # "secret" /\ situation \in Situations
    BY DEF DeployIsMade, ObjectsAreBuilt, ManifestIsKept, AfterPod, AfterSecret, AfterAutoscaler
  <1>2. /\ a.properties = r.properties /\ DOMAIN a.secret \subseteq {Password}
        /\ DOMAIN a.secret = DOMAIN r.secret
        /\ \A key : ToResourceVariable(a, key) = ToResourceVariable(r, key)
        /\ a.secret = r.secret
           \/ \E f \in situation.found : f.alias = r.name /\ \E k, l \in DOMAIN f.secrets : k # l
    BY <1>1, SameResource
  <1>3. ASSUME NEW key \in DOMAIN r.secret,
               ToEnvironmentVariable(r, key) \notin AddedUnchecked \cup Random
        PROVE  Sees(ToEnvironmentVariable(r, key)) = Text(a.secret[key])
    <2>1. Sees(ToEnvironmentVariable(r, key)) = Text(r.secret[key])
      BY <1>1, <1>3 DEF SecretHoldsWhatPodsRead
    <2>2. key = Password /\ r \in InRange(resources)
      BY <1>2, <1>3, InRangeOf
    <2>3. a.secret = r.secret
      BY <1>2, <1>3, <2>2 DEF Random
    <2> QED BY <2>1, <2>3
  <1>4. ASSUME NEW key \in DOMAIN r.properties,
               ToEnvironmentVariable(r, key) \notin AddedUnchecked
        PROVE  Sees(ToEnvironmentVariable(r, key)) = Text(a.properties[key])
    <2> DEFINE v == DeclaredAs(i, key, Text(r.properties[key]))
    <2>1. /\ v \in ResourceVariables(resources) /\ v.name = ToEnvironmentVariable(r, key)
          /\ v.value = Text(r.properties[key])
      <3>1. v \in ResourceVariables(resources)
        BY DeclaredOfKeys
      <3>2. v.name = ToEnvironmentVariable(r, key) /\ v.value = Text(r.properties[key])
        BY DeclaredOfKeys DEF ToEnvironmentVariable
      <3> QED BY <3>1, <3>2
    <2>2. v.value[1] # "secret"
      BY <2>1 DEF Text
    <2> HIDE DEF v
    <2> QED BY <1>1, <1>2, <1>4, <2>1, <2>2, SeesValue
  <1>5. ASSUME NEW key \in DOMAIN r.certificates,
               ToEnvironmentVariable(r, key) \notin AddedUnchecked
        PROVE  Sees(ToEnvironmentVariable(r, key)) = MountPoint(a, key)
    <2> DEFINE v == DeclaredAs(i, key, MountPoint(r, key))
    <2>1. /\ v \in ResourceVariables(resources) /\ v.name = ToEnvironmentVariable(r, key)
          /\ v.value = MountPoint(r, key)
      <3>1. v \in ResourceVariables(resources)
        BY DeclaredOfKeys
      <3>2. v.name = ToEnvironmentVariable(r, key) /\ v.value = MountPoint(r, key)
        BY DeclaredOfKeys DEF ToEnvironmentVariable
      <3> QED BY <3>1, <3>2
    <2>2. v.value[1] # "secret"
      BY <2>1 DEF MountPoint
    <2>3. MountPoint(a, key) = MountPoint(r, key)
      BY <1>2, Zenon DEF MountPoint
    <2> HIDE DEF v
    <2> QED BY <1>1, <1>5, <2>1, <2>2, <2>3, SeesValue
  <1> QED BY <1>3, <1>4, <1>5 DEF Plain

\* The names of the variables that come of Fasit, and the resources they are of.
LEMMA GivenByFasit ==
    ASSUME DeployIsMade, cluster["pod"] # <<>>
    PROVE  /\ \A v \in Pod.containers[1].env : v.stage = 2 =>
                \E i \in DOMAIN Wanted : i \in DOMAIN resources /\
                  \E key \in DOMAIN resources[i].properties \cup DOMAIN resources[i].secret
                             \cup DOMAIN resources[i].certificates :
                     v.name = ToEnvironmentVariable(resources[i], key)
           /\ \A i \in DOMAIN resources :
                \A key \in DOMAIN resources[i].properties \cup DOMAIN resources[i].secret
                           \cup DOMAIN resources[i].certificates :
                  \E v \in Pod.containers[1].env :
                     v.stage = 2 /\ v.name = ToEnvironmentVariable(resources[i], key)
  <1>1. cluster["pod"] = <<ThePod>> /\ ~PodFails
    BY PodIsThePod DEF DeployIsMade
  <1>2. Pod.containers[1].env = Variables
    BY <1>1, AddedAre
  <1>3. ASSUME NEW i \in DOMAIN resources
        PROVE  \A key, value : DeclaredAs(i, key, value).name = ToEnvironmentVariable(resources[i], key)
    BY DeclaredOfKeys DEF ToEnvironmentVariable
  <1>4. ASSUME NEW v \in Pod.containers[1].env, v.stage = 2
        PROVE  \E i \in DOMAIN Wanted : i \in DOMAIN resources /\
                  \E key \in DOMAIN resources[i].properties \cup DOMAIN resources[i].secret
                             \cup DOMAIN resources[i].certificates :
                     v.name = ToEnvironmentVariable(resources[i], key)
    <2>1. v \in ResourceVariables(resources)
      BY <1>2, <1>4, AddedAre, Stages DEF Variables
    <2>2. PICK i \in DOMAIN resources :
            \/ \E key \in DOMAIN resources[i].properties :
                  v = DeclaredAs(i, key, Text(resources[i].properties[key]))
            \/ \E key \in DOMAIN resources[i].secret :
                  v = DeclaredAs(i, key, SecretKey(ToResourceVariable(resources[i], key)))
            \/ \E key \in DOMAIN resources[i].certificates :
                  v = DeclaredAs(i, key, MountPoint(resources[i], key))
      BY <2>1, WhatIsDeclared
    <2>3. i \in DOMAIN Wanted
      <3>1. ASSUME resources[i] \in InRange(LoadBalancers(situation.balancers)) PROVE FALSE
        BY <2>2, <3>1, NoKeys, OtherwiseBalancers DEF DeployIsMade
      <3> QED BY <3>1, OneOrTheOther DEF DeployIsMade
    <2>4. \E key \in DOMAIN resources[i].properties \cup DOMAIN resources[i].secret
                     \cup DOMAIN resources[i].certificates :
             v.name = ToEnvironmentVariable(resources[i], key)
      BY <1>3, <2>2
    <2> QED BY <2>3, <2>4
  <1>5. ASSUME NEW i \in DOMAIN resources,
               NEW key \in DOMAIN resources[i].properties \cup DOMAIN resources[i].secret
                           \cup DOMAIN resources[i].certificates
        PROVE  \E v \in Pod.containers[1].env :
                  v.stage = 2 /\ v.name = ToEnvironmentVariable(resources[i], key)
    <2>1. \E value : DeclaredAs(i, key, value) \in ResourceVariables(resources)
      BY DeclaredOfKeys
    <2>2. PICK value : DeclaredAs(i, key, value) \in ResourceVariables(resources)
      BY <2>1
    <2>3. DeclaredAs(i, key, value).stage = 2
      BY <2>2, Stages
    <2>4. DeclaredAs(i, key, value) \in Pod.containers[1].env
      BY <1>2, <2>2 DEF Variables
    <2> QED BY <1>3, <2>3, <2>4
  <1> QED BY <1>4, <1>5

\* A developer sees the variables of Fasit as the pods do, but for values with signs.
THEOREM DeveloperCorrect == Spec => []DeveloperSeesWhatPodsSee
  <1>1. DeployIsMade /\ SecretHoldsWhatPodsRead => DeveloperSeesWhatPodsSee
    <2> DEFINE given == {v \in Pod.containers[1].env : v.stage = 2}
               Shown(name) == Plain(name) /\ Signs(Sees(name)) = {}
    <2> SUFFICES ASSUME DeployIsMade, SecretHoldsWhatPodsRead, printed # <<>>, ~request.skipFasit
                 PROVE  /\ {line[1] : line \in printed[1]} = {v.name : v \in given}
                        /\ \A line \in printed[1] : Shown(line[1]) => Sees(line[1]) = line[2]
                        /\ \A v \in given : Shown(v.name) => <<v.name, Sees(v.name)>> \in printed[1]
      BY Zenon DEF DeveloperSeesWhatPodsSee
    <2>1. PICK fetched \in [DOMAIN Wanted -> Answers] :
            /\ \A i \in DOMAIN Wanted : fetched[i] \in Answered(Wanted[i])
            /\ printed = <<UNION {Printed(fetched[i]) : i \in DOMAIN fetched}>>
      BY DEF DeployIsMade, ReportsAreOfTheDeploy, Answered
    <2>2. pc = "deployed"
      BY DEF DeployIsMade, ReportsAreOfTheDeploy
    <2>3. printed[1] = UNION {Printed(fetched[i]) : i \in DOMAIN Wanted}
      BY <2>1
    <2>4. cluster["pod"] = <<ThePod>> /\ ~PodFails
      BY <2>2, PodIsThePod
         DEF DeployIsMade, ObjectsAreBuilt, AfterPod, AfterSecret, AfterAutoscaler
    <2>5. \A i \in DOMAIN Wanted : i \in DOMAIN resources /\ resources[i] \in Comes(Wanted[i])
      <3>1. /\ Len(Wanted) <= Len(resources) /\ resources \in Seq(OfFasit)
        BY <2>2 DEF DeployIsMade, ResourcesAreWanted, Building, AfterRedis, AfterPod,
                    AfterSecret, AfterAutoscaler
      <3>2. Wanted \in Seq(InRange(Wanted))
        BY WantedIsSequence DEF DeployIsMade, ManifestIsKept
      <3>3. ASSUME NEW i \in DOMAIN Wanted PROVE i \in DOMAIN resources /\ i <= Len(Wanted)
        BY <3>1, <3>2
      <3> QED BY <3>3, OneOrTheOther DEF DeployIsMade
    <2>6. ASSUME NEW i \in DOMAIN Wanted
          PROVE  LET a == fetched[i]
                     r == resources[i]
                 IN /\ a.properties = r.properties /\ DOMAIN a.certificates = DOMAIN r.certificates
                    /\ DOMAIN a.secret = DOMAIN r.secret
                    /\ \A key : ToEnvironmentVariable(a, key) = ToEnvironmentVariable(r, key)
      <3> DEFINE a == fetched[i]
                 r == resources[i]
      <3>1. a \in Answered(Wanted[i]) /\ r \in Comes(Wanted[i]) /\ situation \in Situations
        BY <2>1, <2>5 DEF DeployIsMade, ManifestIsKept
      <3> HIDE DEF a, r
      <3>2. /\ a.properties = r.properties /\ DOMAIN a.certificates = DOMAIN r.certificates
            /\ DOMAIN a.secret = DOMAIN r.secret
            /\ \A key : ToEnvironmentVariable(a, key) = ToEnvironmentVariable(r, key)
        BY <3>1, SameResource
      <3> QED BY <3>2 DEF a, r
    \* One line for one variable.
    <2>7. ASSUME NEW i \in DOMAIN Wanted, NEW name, Shown(name)
          PROVE  LET a == fetched[i]
                     r == resources[i]
                 IN /\ \A key \in DOMAIN r.secret : name = ToEnvironmentVariable(r, key) =>
                          Text(Printf(a.secret[key])) = Sees(name)
                    /\ \A key \in DOMAIN r.properties : name = ToEnvironmentVariable(r, key) =>
                          Text(Printf(a.properties[key])) = Sees(name)
                    /\ \A key \in DOMAIN r.certificates : name = ToEnvironmentVariable(r, key) =>
                          MountPoint(a, key) = Sees(name)
      <3> DEFINE a == fetched[i]
                 r == resources[i]
      <3>1. a \in Answered(Wanted[i]) /\ i \in DOMAIN resources /\ r \in Comes(Wanted[i])
        BY <2>1, <2>5
      <3>2. /\ \A key \in DOMAIN r.secret : Plain(ToEnvironmentVariable(r, key)) =>
                  Sees(ToEnvironmentVariable(r, key)) = Text(a.secret[key])
            /\ \A key \in DOMAIN r.properties : Plain(ToEnvironmentVariable(r, key)) =>
                  Sees(ToEnvironmentVariable(r, key)) = Text(a.properties[key])
            /\ \A key \in DOMAIN r.certificates : Plain(ToEnvironmentVariable(r, key)) =>
                  Sees(ToEnvironmentVariable(r, key)) = MountPoint(a, key)
        BY <2>2, <3>1, LinesAreSeen
      <3>3. ASSUME NEW value, Sees(name) = Text(value) PROVE Text(Printf(value)) = Sees(name)
        <4>1. value.signs = {}
          BY <2>7, <3>3, PrintedPlainly
        <4> QED BY <3>3, <4>1, PrintedPlainly
      <3> HIDE DEF a, r
      <3> QED BY <2>7, <3>2, <3>3 DEF a, r
    <2>8. ASSUME NEW line \in printed[1], Shown(line[1]) PROVE Sees(line[1]) = line[2]
      <3>1. PICK i \in DOMAIN Wanted : line \in Printed(fetched[i])
        BY <2>3
      <3> DEFINE a == fetched[i]
                 r == resources[i]
      <3>2. \/ \E key \in DOMAIN a.secret :
                  line = <<ToEnvironmentVariable(a, key), Text(Printf(a.secret[key]))>>
            \/ \E key \in DOMAIN a.properties :
                  line = <<ToEnvironmentVariable(a, key), Text(Printf(a.properties[key]))>>
            \/ \E key \in DOMAIN a.certificates :
                  line = <<ToEnvironmentVariable(a, key), MountPoint(a, key)>>
        BY <3>1, PrintedIs
      <3> DEFINE name == line[1]
      <3>3. /\ \A key \in DOMAIN r.secret : name = ToEnvironmentVariable(r, key) =>
                  Text(Printf(a.secret[key])) = Sees(name)
            /\ \A key \in DOMAIN r.properties : name = ToEnvironmentVariable(r, key) =>
                  Text(Printf(a.properties[key])) = Sees(name)
            /\ \A key \in DOMAIN r.certificates : name = ToEnvironmentVariable(r, key) =>
                  MountPoint(a, key) = Sees(name)
        BY <2>7, <2>8
      <3>4. /\ a.properties = r.properties /\ DOMAIN a.certificates = DOMAIN r.certificates
            /\ DOMAIN a.secret = DOMAIN r.secret
            /\ \A key : ToEnvironmentVariable(a, key) = ToEnvironmentVariable(r, key)
        BY <2>6
      <3> HIDE DEF a, r
      <3> QED BY <3>2, <3>3, <3>4
    <2>9. ASSUME NEW v \in given
          PROVE  \E i \in DOMAIN Wanted :
                   \E key \in DOMAIN fetched[i].properties \cup DOMAIN fetched[i].secret
                              \cup DOMAIN fetched[i].certificates :
                     v.name = ToEnvironmentVariable(fetched[i], key)
      <3>1. PICK i \in DOMAIN Wanted : i \in DOMAIN resources /\
              \E key \in DOMAIN resources[i].properties \cup DOMAIN resources[i].secret
                         \cup DOMAIN resources[i].certificates :
                 v.name = ToEnvironmentVariable(resources[i], key)
        BY <2>4, GivenByFasit
      <3> QED BY <2>6, <3>1
    <2>10. ASSUME NEW i \in DOMAIN Wanted,
                  NEW key \in DOMAIN fetched[i].properties \cup DOMAIN fetched[i].secret
                              \cup DOMAIN fetched[i].certificates
           PROVE  \E line \in printed[1] : line[1] = ToEnvironmentVariable(fetched[i], key)
      <3> DEFINE a == fetched[i]
      <3>1. \E value : <<ToEnvironmentVariable(a, key), value>> \in Printed(a)
        BY PrintedIs
      <3>2. PICK value : <<ToEnvironmentVariable(a, key), value>> \in Printed(a)
        BY <3>1
      <3> QED BY <2>3, <3>2
    <2>11. {line[1] : line \in printed[1]} = {v.name : v \in given}
      <3>1. ASSUME NEW line \in printed[1] PROVE \E v \in given : v.name = line[1]
        <4>1. PICK i \in DOMAIN Wanted : line \in Printed(fetched[i])
          BY <2>3
        <4>2. \E key \in DOMAIN fetched[i].properties \cup DOMAIN fetched[i].secret
                         \cup DOMAIN fetched[i].certificates :
                 line[1] = ToEnvironmentVariable(fetched[i], key)
          BY <4>1, PrintedIs
        <4>3. \E key \in DOMAIN resources[i].properties \cup DOMAIN resources[i].secret
                         \cup DOMAIN resources[i].certificates :
                 line[1] = ToEnvironmentVariable(resources[i], key)
          BY <2>6, <4>2
        <4>4. i \in DOMAIN resources
          BY <2>5
        <4> QED BY <2>4, <4>3, <4>4, GivenByFasit
      <3>2. ASSUME NEW v \in given PROVE \E line \in printed[1] : line[1] = v.name
        BY <2>9, <2>10
      <3> HIDE DEF given
      <3> QED BY <3>1, <3>2
    <2>12. ASSUME NEW v \in given, Shown(v.name)
           PROVE  <<v.name, Sees(v.name)>> \in printed[1]
      <3>1. PICK i \in DOMAIN Wanted :
              \E key \in DOMAIN fetched[i].properties \cup DOMAIN fetched[i].secret
                         \cup DOMAIN fetched[i].certificates :
                v.name = ToEnvironmentVariable(fetched[i], key)
        BY <2>9
      <3> DEFINE a == fetched[i]
                 r == resources[i]
                 name == v.name
      <3>2. /\ \A key \in DOMAIN r.secret : name = ToEnvironmentVariable(r, key) =>
                  Text(Printf(a.secret[key])) = Sees(name)
            /\ \A key \in DOMAIN r.properties : name = ToEnvironmentVariable(r, key) =>
                  Text(Printf(a.properties[key])) = Sees(name)
            /\ \A key \in DOMAIN r.certificates : name = ToEnvironmentVariable(r, key) =>
                  MountPoint(a, key) = Sees(name)
        BY <2>7, <2>12
      <3>3. /\ a.properties = r.properties /\ DOMAIN a.certificates = DOMAIN r.certificates
            /\ DOMAIN a.secret = DOMAIN r.secret
            /\ \A key : ToEnvironmentVariable(a, key) = ToEnvironmentVariable(r, key)
        BY <2>6
      <3> HIDE DEF a, r, name
      <3>4. <<name, Sees(name)>> \in Printed(a)
        <4>1. \E key \in DOMAIN a.properties \cup DOMAIN a.secret \cup DOMAIN a.certificates :
                 name = ToEnvironmentVariable(a, key)
          BY <3>1 DEF a, name
        <4>2. \/ \E key \in DOMAIN a.secret :
                    <<name, Sees(name)>> = <<ToEnvironmentVariable(a, key), Text(Printf(a.secret[key]))>>
              \/ \E key \in DOMAIN a.properties :
                    <<name, Sees(name)>>
                      = <<ToEnvironmentVariable(a, key), Text(Printf(a.properties[key]))>>
              \/ \E key \in DOMAIN a.certificates :
                    <<name, Sees(name)>> = <<ToEnvironmentVariable(a, key), MountPoint(a, key)>>
          BY <3>2, <3>3, <4>1
        <4> QED BY <4>2, PrintedIs
      <3> QED BY <2>3, <3>4 DEF a, name
    <2> QED BY <2>8, <2>11, <2>12
  <1> QED BY <1>1, SecretCorrect, DeployMade, PTL

-------------------------------------------------------------------------------
\* Causes: quantities.

\* The manifest of a deploy that goes on.
Passing == Filled /\ ValidateManifest(manifest)

LEMMA GivenIsMerged ==
    ASSUME NEW quantity \in Quantities, NEW default \in Int
    PROVE  LET merged == MergedQuantity(quantity, Amount(default))
           IN /\ Parses(merged) <=> ~IsNonsense(quantity)
              /\ merged.amount = Given(quantity, default) /\ Given(quantity, default) \in Int
  BY DEF Quantities, MergedQuantity, Amount, Parses, IsNonsense, Given

\* Defaults, as quantities and as the numbers the causes tell them by.
Numbers == [cpu : Int, memory : Int]
AsQuantities(numbers) == [cpu |-> Amount(numbers.cpu), memory |-> Amount(numbers.memory)]

LEMMA MergedLists ==
    ASSUME NEW list \in Lists, NEW default \in Numbers
    PROVE  LET merged == MergedList(list, AsQuantities(default))
           IN /\ merged.cpu.amount = Given(list.cpu, default.cpu)
              /\ merged.memory.amount = Given(list.memory, default.memory)
              /\ Given(list.cpu, default.cpu) \in Int
              /\ Given(list.memory, default.memory) \in Int
              /\ Parses(merged.cpu) <=> ~IsNonsense(list.cpu)
              /\ Parses(merged.memory) <=> ~IsNonsense(list.memory)
              /\ list["cpu"] = list.cpu /\ list["memory"] = list.memory
              /\ default["cpu"] = default.cpu /\ default["memory"] = default.memory
  <1>1. /\ list.cpu \in Quantities /\ list.memory \in Quantities
        /\ default.cpu \in Int /\ default.memory \in Int
    BY DEF Lists, Numbers
  <1>2. /\ MergedList(list, AsQuantities(default)).cpu = MergedQuantity(list.cpu, Amount(default.cpu))
        /\ MergedList(list, AsQuantities(default)).memory
             = MergedQuantity(list.memory, Amount(default.memory))
    BY DEF MergedList, AsQuantities
  <1> QED BY <1>1, <1>2, GivenIsMerged

\* Amounts are bad if the API server refuses the lists with their defaults.
LEMMA BadIsRefused ==
    ASSUME NEW requests \in Lists, NEW limits \in Lists,
           NEW request0 \in Numbers, NEW limit0 \in Numbers
    PROVE  ~AdmitsResources(MergedList(requests, AsQuantities(request0)),
                            MergedList(limits, AsQuantities(limit0)))
             <=> AmountsAreBad(requests, limits, request0, limit0)
  <1> DEFINE Bad(requested, limit) == requested < 0 \/ limit < 0 \/ requested > limit
             r == MergedList(requests, AsQuantities(request0))
             l == MergedList(limits, AsQuantities(limit0))
  <1>1. AmountsAreBad(requests, limits, request0, limit0) <=>
          \/ Bad(Given(requests.cpu, request0.cpu), Given(limits.cpu, limit0.cpu))
          \/ Bad(Given(requests.memory, request0.memory), Given(limits.memory, limit0.memory))
    BY MergedLists DEF AmountsAreBad
  <1>2. /\ r.cpu.amount = Given(requests.cpu, request0.cpu) /\ r.cpu.amount \in Int
        /\ l.cpu.amount = Given(limits.cpu, limit0.cpu) /\ l.cpu.amount \in Int
        /\ r.memory.amount = Given(requests.memory, request0.memory) /\ r.memory.amount \in Int
        /\ l.memory.amount = Given(limits.memory, limit0.memory) /\ l.memory.amount \in Int
    BY MergedLists
  <1> HIDE DEF r, l
  <1>3. ASSUME NEW a \in Int, NEW b \in Int
        PROVE  ~(0 <= a /\ 0 <= b /\ a <= b) <=> Bad(a, b)
    OBVIOUS
  <1>4. ~AdmitsResources(r, l) <=> \/ Bad(r.cpu.amount, l.cpu.amount)
                                   \/ Bad(r.memory.amount, l.memory.amount)
    BY <1>2, <1>3 DEF AdmitsResources, AdmitsQuantities
  <1> QED BY <1>1, <1>2, <1>4 DEF r, l

LEMMA DefaultsAreNumbers ==
    /\ [cpu |-> 200, memory |-> 256] \in Numbers
    /\ [cpu |-> 500, memory |-> 512] \in Numbers
    /\ [cpu |-> 100, memory |-> 128] \in Numbers
    /\ AsQuantities([cpu |-> 200, memory |-> 256]) = AppRequests0
    /\ AsQuantities([cpu |-> 500, memory |-> 512]) = AppLimits0
    /\ AsQuantities([cpu |-> 100, memory |-> 128]) = RedisDefaults
  BY DEF Numbers, AsQuantities, AppRequests0, AppLimits0, RedisDefaults

LEMMA AppQuantities ==
    ASSUME Filled
    PROVE  ~AdmitsResources(manifest.requests, manifest.limits) <=> BadAmounts
  <1> DEFINE request0 == [cpu |-> 200, memory |-> 256]
             limit0 == [cpu |-> 500, memory |-> 512]
             requests == raw.requests
             limits == raw.limits
  <1>1. requests \in Lists /\ limits \in Lists
    BY DEF Filled, IsManifest
  <1>2. /\ manifest.limits = MergedList(limits, AsQuantities(limit0))
        /\ manifest.requests = MergedList(requests, AsQuantities(request0))
    BY FilledIs, DefaultsAreNumbers
  <1>3. request0 \in Numbers /\ limit0 \in Numbers
    BY DefaultsAreNumbers
  <1>4. BadAmounts <=> AmountsAreBad(requests, limits, request0, limit0)
    BY Zenon DEF BadAmounts
  <1> HIDE DEF request0, limit0, requests, limits
  <1>5. ~AdmitsResources(MergedList(requests, AsQuantities(request0)),
                         MergedList(limits, AsQuantities(limit0)))
          <=> AmountsAreBad(requests, limits, request0, limit0)
    BY <1>1, <1>3, BadIsRefused
  <1> QED BY <1>2, <1>4, <1>5, Zenon

LEMMA RedisFields ==
    ASSUME Filled
    PROVE  /\ raw.redis.requests \in Lists /\ raw.redis.limits \in Lists
           /\ manifest.redis = raw.redis
           /\ TheRedis.requests = MergedList(raw.redis.requests, RedisDefaults)
           /\ TheRedis.limits = MergedList(raw.redis.limits, RedisDefaults)
  <1>1. raw.redis \in [enabled : BOOLEAN, limits : Lists, requests : Lists]
    BY DEF Filled, IsManifest
  <1>2. manifest.redis = raw.redis
    BY FilledIs
  <1> QED BY <1>1, <1>2 DEF TheRedis, updateDefaultRedisValues

LEMMA RedisQuantities ==
    ASSUME Filled
    PROVE  manifest.redis.enabled /\ ~AdmitsResources(TheRedis.requests, TheRedis.limits)
             <=> RedisBadAmounts
  <1> DEFINE default == [cpu |-> 100, memory |-> 128]
             requests == raw.redis.requests
             limits == raw.redis.limits
  <1>1. /\ requests \in Lists /\ limits \in Lists /\ manifest.redis = raw.redis
        /\ TheRedis.requests = MergedList(requests, AsQuantities(default))
        /\ TheRedis.limits = MergedList(limits, AsQuantities(default))
        /\ default \in Numbers
    BY RedisFields, DefaultsAreNumbers
  <1>2. RedisBadAmounts <=> raw.redis.enabled /\ AmountsAreBad(requests, limits, default, default)
    BY Zenon DEF RedisBadAmounts
  <1> HIDE DEF default, requests, limits
  <1>3. ~AdmitsResources(MergedList(requests, AsQuantities(default)),
                         MergedList(limits, AsQuantities(default)))
          <=> AmountsAreBad(requests, limits, default, default)
    BY <1>1, BadIsRefused
  <1> QED BY <1>1, <1>2, <1>3, Zenon

\* What the validations say of the lists of Redis.
LEMMA RedisChecks ==
    ASSUME Filled
    PROVE  LET limits == raw.redis.limits
               requests == raw.redis.requests
           IN /\ validateRedisRequestMemoryQuantity(manifest) <=> ~IsNonsense(requests.memory)
              /\ validateRedisLimitsCpuQuantity(manifest) <=> ~IsNonsense(limits.cpu)
              /\ validateRedisLimitsMemoryQuantity(manifest)
                   <=> ~(IsNonsense(limits.memory) /\ ~IsEmpty(requests))
              /\ validateRedisRequestCpuQuantity(manifest)
                   <=> ~(IsNonsense(requests.cpu) /\ ~IsEmpty(limits))
  <1> DEFINE limits == raw.redis.limits
             requests == raw.redis.requests
  <1>1. limits \in Lists /\ requests \in Lists /\ manifest.redis = raw.redis
    BY RedisFields
  <1>2. ASSUME NEW list \in Lists, NEW quantity \in Quantities
        PROVE  Checked(quantity, list) <=> ~(IsNonsense(quantity) /\ ~IsEmpty(list))
    BY DEF Checked, IsNonsense, IsEmpty, Parses, Quantities
  <1>3. ASSUME NEW list \in Lists
        PROVE  /\ list.cpu \in Quantities /\ list.memory \in Quantities
               /\ IsNonsense(list.cpu) \/ IsNonsense(list.memory) => ~IsEmpty(list)
    BY DEF Lists, Quantities, IsNonsense, IsEmpty
  <1> HIDE DEF limits, requests
  <1>4. /\ validateRedisRequestMemoryQuantity(manifest) <=> Checked(requests.memory, requests)
        /\ validateRedisLimitsMemoryQuantity(manifest) <=> Checked(limits.memory, requests)
        /\ validateRedisRequestCpuQuantity(manifest) <=> Checked(requests.cpu, limits)
        /\ validateRedisLimitsCpuQuantity(manifest) <=> Checked(limits.cpu, limits)
    BY <1>1 DEF validateRedisRequestMemoryQuantity, validateRedisLimitsMemoryQuantity,
                validateRedisRequestCpuQuantity, validateRedisLimitsCpuQuantity, limits, requests
  <1>5. /\ Checked(requests.memory, requests) <=> ~IsNonsense(requests.memory)
        /\ Checked(limits.cpu, limits) <=> ~IsNonsense(limits.cpu)
        /\ Checked(limits.memory, requests) <=> ~(IsNonsense(limits.memory) /\ ~IsEmpty(requests))
        /\ Checked(requests.cpu, limits) <=> ~(IsNonsense(requests.cpu) /\ ~IsEmpty(limits))
    BY <1>1, <1>2, <1>3
  <1> QED BY <1>4, <1>5 DEF limits, requests

\* Of what the validations of Redis leave, only nonsense beside an empty list panics.
LEMMA RedisPanic ==
    ASSUME Passing
    PROVE  manifest.redis.enabled /\ createRedisPodSpec(manifest.redis) = "panic" <=> RedisPanics
  <1> DEFINE limits == raw.redis.limits
             requests == raw.redis.requests
             Parse(list) == ~IsNonsense(list.cpu) /\ ~IsNonsense(list.memory)
             l == MergedList(limits, RedisDefaults)
             r == MergedList(requests, RedisDefaults)
  <1>1. /\ limits \in Lists /\ requests \in Lists /\ manifest.redis = raw.redis
        /\ TheRedis.requests = r /\ TheRedis.limits = l
    BY RedisFields DEF Passing
  <1>2. /\ ~IsNonsense(requests.memory) /\ ~IsNonsense(limits.cpu)
        /\ ~(IsNonsense(limits.memory) /\ ~IsEmpty(requests))
        /\ ~(IsNonsense(requests.cpu) /\ ~IsEmpty(limits))
    BY RedisChecks DEF Passing, ValidateManifest
  <1>3. /\ Parses(r.cpu) /\ Parses(r.memory) <=> Parse(requests)
        /\ Parses(l.cpu) /\ Parses(l.memory) <=> Parse(limits)
    BY <1>1, MergedLists, DefaultsAreNumbers
  <1>4. createRedisPodSpec(manifest.redis) = createResourceLimits(r, l)
    BY <1>1, Zenon DEF createRedisPodSpec, TheRedis
  <1> HIDE DEF l, r
  <1>5. createResourceLimits(r, l) = "panic"
          <=> ~(Parses(r.cpu) /\ Parses(r.memory) /\ Parses(l.cpu) /\ Parses(l.memory))
    BY DEF createResourceLimits
  <1> QED BY <1>1, <1>2, <1>3, <1>4, <1>5 DEF RedisPanics

\* A manifest is valid if and only if it breaks none of the rules told of it as it was
\* written.
LEMMA ValidityIsTold ==
    ASSUME Filled
    PROVE  ValidateManifest(manifest) <=> ~Invalid
  <1>1. /\ raw.min \in Int /\ raw.max \in Int /\ raw.cpuThreshold \in Int
        /\ raw.image.tagged \in BOOLEAN /\ raw.limits \in Lists /\ raw.requests \in Lists
    BY DEF Filled, IsManifest
  <1>2. /\ manifest.min = Merged(raw.min, 0, 2) /\ manifest.max = Merged(raw.max, 0, 4)
        /\ manifest.cpuThreshold = Merged(raw.cpuThreshold, 0, 50)
        /\ manifest.strategy = Merged(raw.strategy, "", "RollingUpdate")
        /\ manifest.image = Merged(raw.image, NoImage, Image0(request.application))
        /\ manifest.limits = MergedList(raw.limits, AppLimits0)
        /\ manifest.requests = MergedList(raw.requests, AppRequests0)
        /\ manifest.used = raw.used /\ manifest.exposed = raw.exposed
        /\ manifest.alerts = raw.alerts
    BY FilledIs
  <1> DEFINE Min == IF raw.min = 0 THEN 2 ELSE raw.min
             Max == IF raw.max = 0 THEN 4 ELSE raw.max
  <1>3. validateImage(manifest) <=> ~raw.image.tagged
    <2>1. NoImage.tagged = FALSE /\ Image0(request.application).tagged = FALSE
      BY DEF NoImage, Image0
    <2>2. manifest.image.tagged = raw.image.tagged
      BY <1>2, <2>1 DEF Merged
    <2> QED BY <2>2 DEF validateImage
  <1>4. /\ validateReplicasMin(manifest) /\ validateReplicasMax(manifest)
        /\ validateMinIsSmallerThanMax(manifest) <=> ~(Min > Max)
    <2>1. manifest.min = Min /\ manifest.max = Max
      BY <1>2, Zenon DEF Merged
    <2>2. Min \in Int \ {0} /\ Max \in Int \ {0}
      BY <1>1
    <2> HIDE DEF Min, Max
    <2> QED BY <2>1, <2>2
        DEF validateReplicasMin, validateReplicasMax, validateMinIsSmallerThanMax
  <1>5. validateCpuThreshold(manifest) <=> ~(raw.cpuThreshold \notin {0} \cup 10 .. 90)
    <2>1. manifest.cpuThreshold = IF raw.cpuThreshold = 0 THEN 50 ELSE raw.cpuThreshold
      BY <1>2, Zenon DEF Merged
    <2> QED BY <1>1, <2>1 DEF validateCpuThreshold
  <1>6. validateDeploymentStrategy(manifest)
          <=> ~(raw.strategy \notin {"", "RollingUpdate", "Recreate"})
    BY <1>2 DEF validateDeploymentStrategy, Merged
  <1>7. (/\ validateRequestMemoryQuantity(manifest) /\ validateLimitsMemoryQuantity(manifest)
         /\ validateRequestCpuQuantity(manifest) /\ validateLimitsCpuQuantity(manifest))
          <=> ~(\E list \in {raw.limits, raw.requests} :
                   IsNonsense(list.cpu) \/ IsNonsense(list.memory))
    <2>1. ASSUME NEW list \in Lists, NEW default \in {AppLimits0, AppRequests0}
          PROVE  /\ Parses(MergedList(list, default).cpu) <=> ~IsNonsense(list.cpu)
                 /\ Parses(MergedList(list, default).memory) <=> ~IsNonsense(list.memory)
      <3>1. PICK numbers \in Numbers : default = AsQuantities(numbers)
        BY DefaultsAreNumbers
      <3> QED BY <3>1, MergedLists
    <2>2. /\ Parses(manifest.limits.cpu) <=> ~IsNonsense(raw.limits.cpu)
          /\ Parses(manifest.limits.memory) <=> ~IsNonsense(raw.limits.memory)
          /\ Parses(manifest.requests.cpu) <=> ~IsNonsense(raw.requests.cpu)
          /\ Parses(manifest.requests.memory) <=> ~IsNonsense(raw.requests.memory)
      <3>1. /\ Parses(MergedList(raw.limits, AppLimits0).cpu) <=> ~IsNonsense(raw.limits.cpu)
            /\ Parses(MergedList(raw.limits, AppLimits0).memory) <=> ~IsNonsense(raw.limits.memory)
        BY <1>1, <2>1
      <3>2. /\ Parses(MergedList(raw.requests, AppRequests0).cpu) <=> ~IsNonsense(raw.requests.cpu)
            /\ Parses(MergedList(raw.requests, AppRequests0).memory)
                 <=> ~IsNonsense(raw.requests.memory)
        BY <1>1, <2>1
      <3> QED BY <1>2, <3>1, <3>2, Zenon
    <2> QED BY <2>2
        DEF validateRequestMemoryQuantity, validateLimitsMemoryQuantity,
            validateRequestCpuQuantity, validateLimitsCpuQuantity
  <1>8. validateResources(manifest) <=>
          ~(\E r \in InRange(raw.exposed) \cup InRange(raw.used) : r.type = "" \/ r.alias = <<>>)
    BY <1>2 DEF validateResources
  <1>9. validateAlertRules(manifest)
          <=> ~(\E alert \in InRange(raw.alerts) : alert # "complete")
    BY <1>2 DEF validateAlertRules
  <1> HIDE DEF Min, Max
  <1>10. Invalid <=>
           \/ raw.image.tagged
           \/ raw.strategy \notin {"", "RollingUpdate", "Recreate"}
           \/ Min > Max
           \/ raw.cpuThreshold \notin {0} \cup 10 .. 90
           \/ \E list \in {raw.limits, raw.requests} :
                 IsNonsense(list.cpu) \/ IsNonsense(list.memory)
           \/ \E r \in InRange(raw.exposed) \cup InRange(raw.used) : r.type = "" \/ r.alias = <<>>
           \/ \E alert \in InRange(raw.alerts) : alert # "complete"
           \/ IsNonsense(raw.redis.limits.cpu) \/ IsNonsense(raw.redis.requests.memory)
           \/ IsNonsense(raw.redis.limits.memory) /\ ~IsEmpty(raw.redis.requests)
           \/ IsNonsense(raw.redis.requests.cpu) /\ ~IsEmpty(raw.redis.limits)
    BY Zenon DEF Invalid, Min, Max
  <1> QED BY <1>3, <1>4, <1>5, <1>6, <1>7, <1>8, <1>9, <1>10, RedisChecks, Zenon
      DEF ValidateManifest

LEMMA AutoscalerIsRefused ==
    ASSUME Passing
    PROVE  ~AdmitsAutoscaler(manifest) <=> raw.min < 0
  <1>1. manifest.min = Merged(raw.min, 0, 2) /\ manifest.max = Merged(raw.max, 0, 4)
    BY FilledIs DEF Passing
  <1>2. raw.min \in Int /\ raw.max \in Int
    BY DEF Passing, Filled, IsManifest
  <1>3. manifest.min <= manifest.max
    BY DEF Passing, ValidateManifest, validateMinIsSmallerThanMax
  <1> QED BY <1>1, <1>2, <1>3 DEF AdmitsAutoscaler, Merged

-------------------------------------------------------------------------------
\* Causes: the pod is not built.

LEMMA AsWritten ==
    ASSUME Passing
    PROVE  /\ manifest.redis = raw.redis /\ manifest.vault = raw.vault
           /\ manifest.secrets = raw.secrets /\ manifest.webproxy = raw.webproxy
           /\ manifest.leaderElection = raw.leaderElection
           /\ UsesVault(manifest, daemon) <=> UsesVault(raw, daemon)
           /\ OwnNames = {v.name : v \in Existing}
  <1>1. /\ manifest.redis = raw.redis /\ manifest.vault = raw.vault
        /\ manifest.secrets = raw.secrets /\ manifest.webproxy = raw.webproxy
        /\ manifest.leaderElection = raw.leaderElection
    BY FilledIs DEF Passing
  <1>2. UsesVault(manifest, daemon) <=> UsesVault(raw, daemon)
    BY <1>1, Zenon DEF UsesVault
  <1>3. RedisVariables(request, raw) = RedisVariables(request, manifest)
    BY <1>1, Zenon DEF RedisVariables
  <1>4. OwnNames = {v.name : v \in Existing}
    BY <1>3, Zenon DEF OwnNames, Existing
  <1> QED BY <1>1, <1>2, <1>4

\* The variable of a resource's key.
ValueOf(i, key) ==
    IF key[1] = "property" THEN Text(resources[i].properties[key[2]])
    ELSE IF key[1] = "secret" THEN SecretKey(ToResourceVariable(resources[i], key[2]))
    ELSE MountPoint(resources[i], key[2])
VariableOf(i, key) == DeclaredAs(i, key[2], ValueOf(i, key))

LEMMA KindsOfKeys ==
    ASSUME NEW i, NEW key \in KeysOf(resources[i])
    PROVE  \E k : \/ key = <<"property", k>> /\ k \in DOMAIN resources[i].properties
                  \/ key = <<"secret", k>> /\ k \in DOMAIN resources[i].secret
                  \/ key = <<"file", k>> /\ k \in DOMAIN resources[i].certificates
  BY DEF KeysOf

\* The value says the kind of its key.
LEMMA KindsOfValues ==
    ASSUME NEW i, NEW key \in KeysOf(resources[i])
    PROVE  /\ key = <<key[1], key[2]>> /\ key[1] \in {"property", "secret", "file"}
           /\ key[1] = "property" <=> ValueOf(i, key)[1] = "text"
           /\ key[1] = "secret" <=> ValueOf(i, key)[1] = "secret"
           /\ key[1] = "secret" => ValueOf(i, key)[2] = ToResourceVariable(resources[i], key[2])
  <1>1. PICK kind, k : key = <<kind, k>> /\ kind \in {"property", "secret", "file"}
    BY KindsOfKeys
  <1>2. key[1] = kind /\ key[2] = k
    BY <1>1
  <1>3. \A x : /\ Text(x)[1] = "text" /\ SecretKey(x)[1] = "secret" /\ SecretKey(x)[2] = x
               /\ MountPoint(resources[i], x)[1] = "/var/run/secrets/naisd.io/"
    BY DEF Text, SecretKey, MountPoint
  <1> QED BY <1>1, <1>2, <1>3 DEF ValueOf

LEMMA VariableOfFields ==
    ASSUME NEW i, NEW key
    PROVE  /\ VariableOf(i, key).name = ToEnvironmentVariable(resources[i], key[2])
           /\ VariableOf(i, key).value = ValueOf(i, key)
           /\ VariableOf(i, key).by = <<i, key[2]>>
  BY DEF VariableOf, DeclaredAs

LEMMA VariablesOfKeys ==
    ASSUME NEW v
    PROVE  v \in ResourceVariables(resources) <=>
             \E i \in DOMAIN resources : \E key \in KeysOf(resources[i]) : v = VariableOf(i, key)
  <1>1. ASSUME NEW i, NEW k
        PROVE  /\ VariableOf(i, <<"property", k>>)
                    = DeclaredAs(i, k, Text(resources[i].properties[k]))
               /\ VariableOf(i, <<"secret", k>>)
                    = DeclaredAs(i, k, SecretKey(ToResourceVariable(resources[i], k)))
               /\ VariableOf(i, <<"file", k>>) = DeclaredAs(i, k, MountPoint(resources[i], k))
    BY DEF VariableOf, ValueOf
  <1>2. ASSUME NEW i, NEW k
        PROVE  /\ <<"property", k>> \in KeysOf(resources[i]) <=> k \in DOMAIN resources[i].properties
               /\ <<"secret", k>> \in KeysOf(resources[i]) <=> k \in DOMAIN resources[i].secret
               /\ <<"file", k>> \in KeysOf(resources[i]) <=> k \in DOMAIN resources[i].certificates
    BY DEF KeysOf
  <1>3. ASSUME NEW i \in DOMAIN resources, NEW key \in KeysOf(resources[i]), v = VariableOf(i, key)
        PROVE  v \in ResourceVariables(resources)
    <2>1. PICK k : \/ key = <<"property", k>> /\ k \in DOMAIN resources[i].properties
                   \/ key = <<"secret", k>> /\ k \in DOMAIN resources[i].secret
                   \/ key = <<"file", k>> /\ k \in DOMAIN resources[i].certificates
      BY KindsOfKeys
    <2>2. \/ /\ k \in DOMAIN resources[i].properties
             /\ v = DeclaredAs(i, k, Text(resources[i].properties[k]))
          \/ /\ k \in DOMAIN resources[i].secret
             /\ v = DeclaredAs(i, k, SecretKey(ToResourceVariable(resources[i], k)))
          \/ /\ k \in DOMAIN resources[i].certificates
             /\ v = DeclaredAs(i, k, MountPoint(resources[i], k))
      BY <1>1, <1>3, <2>1
    <2> QED BY <2>2, WhatIsDeclared
  <1>4. ASSUME v \in ResourceVariables(resources)
        PROVE  \E i \in DOMAIN resources : \E key \in KeysOf(resources[i]) : v = VariableOf(i, key)
    <2>1. PICK i \in DOMAIN resources :
            \/ \E k \in DOMAIN resources[i].properties :
                 v = DeclaredAs(i, k, Text(resources[i].properties[k]))
            \/ \E k \in DOMAIN resources[i].secret :
                 v = DeclaredAs(i, k, SecretKey(ToResourceVariable(resources[i], k)))
            \/ \E k \in DOMAIN resources[i].certificates :
                 v = DeclaredAs(i, k, MountPoint(resources[i], k))
      BY <1>4, WhatIsDeclared
    <2>2. \E k : \/ <<"property", k>> \in KeysOf(resources[i]) /\ v = VariableOf(i, <<"property", k>>)
                 \/ <<"secret", k>> \in KeysOf(resources[i]) /\ v = VariableOf(i, <<"secret", k>>)
                 \/ <<"file", k>> \in KeysOf(resources[i]) /\ v = VariableOf(i, <<"file", k>>)
      BY <1>1, <1>2, <2>1
    <2> QED BY <2>2
  <1> QED BY <1>3, <1>4

\* Two keys have two variables.
LEMMA VariablesDiffer ==
    ASSUME NEW i, NEW j, NEW key \in KeysOf(resources[i]), NEW other \in KeysOf(resources[j]),
           VariableOf(i, key) = VariableOf(j, other)
    PROVE  i = j /\ key = other
  <1>1. i = j /\ key[2] = other[2] /\ ValueOf(i, key) = ValueOf(j, other)
    BY VariableOfFields
  <1>2. /\ key = <<key[1], key[2]>> /\ key[1] \in {"property", "secret", "file"}
        /\ key[1] = "property" <=> ValueOf(i, key)[1] = "text"
        /\ key[1] = "secret" <=> ValueOf(i, key)[1] = "secret"
    BY KindsOfValues
  <1>3. /\ other = <<other[1], other[2]>> /\ other[1] \in {"property", "secret", "file"}
        /\ other[1] = "property" <=> ValueOf(j, other)[1] = "text"
        /\ other[1] = "secret" <=> ValueOf(j, other)[1] = "secret"
    BY KindsOfValues
  <1> QED BY <1>1, <1>2, <1>3

\* Variables with the same key in the Secret have the same name.
LEMMA SameKeySameName ==
    ASSUME NEW v \in Existing \cup ResourceVariables(resources),
           NEW w \in ResourceVariables(resources), SameKey(v, w)
    PROVE  SameName(v, w)
  <1>1. ASSUME NEW x \in ResourceVariables(resources), x.value[1] = "secret"
        PROVE  x.name = ToUpper(x.value[2])
    <2>1. PICK i \in DOMAIN resources : \E key \in KeysOf(resources[i]) : x = VariableOf(i, key)
      BY VariablesOfKeys
    <2>2. PICK key \in KeysOf(resources[i]) : x = VariableOf(i, key)
      BY <2>1
    <2>3. /\ x.name = ToEnvironmentVariable(resources[i], key[2])
          /\ x.value = ValueOf(i, key)
      BY <2>2, VariableOfFields
    <2>4. x.value[2] = ToResourceVariable(resources[i], key[2])
      BY <1>1, <2>3, KindsOfValues
    <2> QED BY <2>3, <2>4 DEF ToEnvironmentVariable
  <1>2. v.value[1] = "secret" /\ w.value[1] = "secret" /\ v.value[2] = w.value[2]
    BY DEF SameKey
  <1>3. v \in ResourceVariables(resources)
    BY <1>2, Stages
  <1> QED BY <1>1, <1>2, <1>3 DEF SameName

LEMMA GiversAre ==
    ASSUME NEW name, NEW x
    PROVE  x \in Givers(name) <=>
             \E i \in DOMAIN resources : \E key \in KeysOf(resources[i]) :
                x = <<i, key>> /\ VariableOf(i, key).name = name
  <1>1. \A i, key : <<i, key>>[1] = i /\ <<i, key>>[2] = key
    OBVIOUS
  <1>2. x \in UNION {{<<i, key>> : key \in KeysOf(resources[i])} : i \in DOMAIN resources}
          <=> \E i \in DOMAIN resources : \E key \in KeysOf(resources[i]) : x = <<i, key>>
    OBVIOUS
  <1>3. x \in Givers(name)
          <=> \E i \in DOMAIN resources : \E key \in KeysOf(resources[i]) :
                 x = <<i, key>> /\ ToEnvironmentVariable(resources[x[1]], x[2][2]) = name
    BY <1>2 DEF Givers
  <1>4. \A i, key : VariableOf(i, key).name = ToEnvironmentVariable(resources[i], key[2])
    BY VariableOfFields
  <1> QED BY <1>1, <1>3, <1>4

LEMMA ClashIsDuplicate ==
    ASSUME Passing
    PROVE  checkForDuplicates(Existing, ResourceVariables(resources)) <=> NamesClash
  <1> DEFINE Added == ResourceVariables(resources)
             OfADefault == \E v \in Existing, w \in Added : v.name = w.name
             OfAnother == \E v, w \in Added : v # w /\ v.name = w.name
  <1>1. checkForDuplicates(Existing, Added) <=> OfADefault \/ OfAnother
    <2>1. \A v \in Existing \cup Added, w \in Added :
             SameName(v, w) \/ SameKey(v, w) <=> v.name = w.name
      BY SameKeySameName DEF SameName
    <2>2. \A v \in Existing, w \in Added : v # w
      BY Stages
    <2> HIDE DEF Added
    <2> QED BY <2>1, <2>2, Zenon DEF checkForDuplicates
  <1>2. OfADefault <=> \E name \in OwnNames : Givers(name) # {}
    <2>1. ASSUME NEW v \in Existing, NEW w \in Added, v.name = w.name
          PROVE  \E name \in OwnNames : Givers(name) # {}
      <3>1. PICK i \in DOMAIN resources : \E key \in KeysOf(resources[i]) : w = VariableOf(i, key)
        BY VariablesOfKeys
      <3>2. PICK key \in KeysOf(resources[i]) : w = VariableOf(i, key)
        BY <3>1
      <3>3. <<i, key>> \in Givers(v.name)
        BY <2>1, <3>2, GiversAre
      <3>4. v.name \in OwnNames
        BY AsWritten
      <3> QED BY <3>3, <3>4
    <2>2. ASSUME NEW name \in OwnNames, NEW x \in Givers(name)
          PROVE  OfADefault
      <3>1. PICK v \in Existing : v.name = name
        BY AsWritten
      <3>2. PICK i \in DOMAIN resources : \E key \in KeysOf(resources[i]) :
                    VariableOf(i, key).name = name
        BY GiversAre
      <3>3. PICK key \in KeysOf(resources[i]) : VariableOf(i, key).name = name
        BY <3>2
      <3>4. VariableOf(i, key) \in Added
        BY VariablesOfKeys
      <3> QED BY <3>1, <3>3, <3>4
    <2> QED BY <2>1, <2>2
  <1>3. OfAnother <=>
          \E i \in DOMAIN resources : \E key \in KeysOf(resources[i]) :
             \E other \in Givers(ToEnvironmentVariable(resources[i], key[2])) : other # <<i, key>>
    <2>1. ASSUME NEW v \in Added, NEW w \in Added, v # w, v.name = w.name
          PROVE  \E i \in DOMAIN resources : \E key \in KeysOf(resources[i]) :
                   \E other \in Givers(ToEnvironmentVariable(resources[i], key[2])) :
                      other # <<i, key>>
      <3>1. PICK i \in DOMAIN resources : \E key \in KeysOf(resources[i]) : v = VariableOf(i, key)
        BY VariablesOfKeys
      <3>2. PICK key \in KeysOf(resources[i]) : v = VariableOf(i, key)
        BY <3>1
      <3>3. PICK j \in DOMAIN resources : \E l \in KeysOf(resources[j]) : w = VariableOf(j, l)
        BY VariablesOfKeys
      <3>4. PICK l \in KeysOf(resources[j]) : w = VariableOf(j, l)
        BY <3>3
      <3>5. <<j, l>> \in Givers(v.name) /\ <<j, l>> # <<i, key>>
        BY <2>1, <3>2, <3>4, GiversAre
      <3>6. v.name = ToEnvironmentVariable(resources[i], key[2])
        BY <3>2, VariableOfFields
      <3> QED BY <3>5, <3>6
    <2>2. ASSUME NEW i \in DOMAIN resources, NEW key \in KeysOf(resources[i]),
                 NEW other \in Givers(ToEnvironmentVariable(resources[i], key[2])),
                 other # <<i, key>>
          PROVE  OfAnother
      <3>1. PICK j \in DOMAIN resources : \E l \in KeysOf(resources[j]) :
                   /\ other = <<j, l>>
                   /\ VariableOf(j, l).name = ToEnvironmentVariable(resources[i], key[2])
        BY GiversAre
      <3>2. PICK l \in KeysOf(resources[j]) :
                   /\ other = <<j, l>>
                   /\ VariableOf(j, l).name = ToEnvironmentVariable(resources[i], key[2])
        BY <3>1
      <3>3. VariableOf(j, l).name = VariableOf(i, key).name
        BY <3>2, VariableOfFields
      <3>4. VariableOf(j, l) # VariableOf(i, key)
        BY <2>2, <3>2, VariablesDiffer
      <3>5. VariableOf(j, l) \in Added /\ VariableOf(i, key) \in Added
        BY VariablesOfKeys
      <3> QED BY <3>3, <3>4, <3>5
    <2> QED BY <2>1, <2>2
  <1> QED BY <1>1, <1>2, <1>3, Zenon DEF NamesClash

LEMMA PodFailsForCauses ==
    ASSUME Passing, daemon.vaultSettings \subseteq VaultSettings
    PROVE  PodFails <=> NamesClash \/ DaemonIsMisconfigured
  <1>1. PodFails <=> \/ checkForDuplicates(Existing, ResourceVariables(resources))
                     \/ manifest.webproxy /\ JavaProxyOptionsFail(daemon.proxyURL)
                     \/ UsesVault(manifest, daemon) /\ ~validateVault(daemon)
    BY Zenon DEF PodFails, createPodSpecFails, EnvironmentFails, Existing
  <1>2. ~validateVault(daemon) <=> \E setting \in VaultSettings : setting \notin daemon.vaultSettings
    BY DEF validateVault, VaultSettings
  <1>3. JavaProxyOptionsFail(daemon.proxyURL) <=> daemon.proxyURL \notin {"", "host:port"}
    BY DEF JavaProxyOptionsFail
  <1> QED BY <1>1, <1>2, <1>3, ClashIsDuplicate, AsWritten, Zenon DEF DaemonIsMisconfigured

-------------------------------------------------------------------------------
\* Causes: the API server refuses the pod.

\* What one element more does to the names in a sequence, and what it does if it may
\* not be there.
LEMMA NextName ==
    ASSUME NEW S, NEW s \in Seq(S), NEW x
    PROVE  /\ Append(s, x) \in Seq(S \cup {x})
           /\ InRange(Names(Append(s, x))) = InRange(Names(s)) \cup {x.name}
           /\ Distinct(Names(Append(s, x)))
                <=> Distinct(Names(s)) /\ x.name \notin InRange(Names(s))
  <1> DEFINE more == Append(s, x)
             old == Names(s)
             new == Names(more)
             n == Len(s)
  <1>1. s \in Seq(S \cup {x}) /\ x \in S \cup {x}
    OBVIOUS
  <1>2. /\ more \in Seq(S \cup {x}) /\ Len(more) = Len(s) + 1 /\ more[Len(s) + 1] = x
        /\ \A i \in 1 .. Len(s) : more[i] = s[i]
    BY <1>1, OneMore
  <1> HIDE DEF more
  <1>3. /\ DOMAIN old = 1 .. n /\ DOMAIN new = 1 .. n + 1 /\ n \in Nat
        /\ new[n + 1] = x.name /\ \A i \in 1 .. n : new[i] = old[i]
    BY <1>2 DEF Names
  <1> HIDE DEF old, new, n
  <1>4. InRange(new) = InRange(old) \cup {x.name}
    BY <1>3 DEF InRange
  <1>5. ASSUME Distinct(new) PROVE Distinct(old) /\ x.name \notin InRange(old)
    BY <1>3, <1>5 DEF Distinct, InRange
  <1>6. ASSUME Distinct(old), x.name \notin InRange(old) PROVE Distinct(new)
    BY <1>3, <1>6 DEF Distinct, InRange
  <1> QED BY <1>2, <1>4, <1>5, <1>6 DEF old, new, more

LEMMA MoreNames ==
    ASSUME NEW S, NEW s \in Seq(S), NEW condition, NEW x
    PROVE  /\ s \o OneIf(condition, x) \in Seq(S \cup {x})
           /\ \A name : name \in InRange(Names(s \o OneIf(condition, x)))
                         <=> name \in InRange(Names(s)) \/ (condition /\ name = x.name)
           /\ Distinct(Names(s \o OneIf(condition, x)))
                <=> Distinct(Names(s)) /\ (condition => x.name \notin InRange(Names(s)))
  <1> DEFINE more == s \o OneIf(condition, x)
  <1>1. s \o <<>> = s /\ s \o <<x>> = Append(s, x) /\ s \in Seq(S \cup {x})
    OBVIOUS
  <1>2. CASE ~condition
    <2>1. more = s
      BY <1>1, <1>2, Zenon DEF OneIf
    <2> HIDE DEF more
    <2>2. /\ more \in Seq(S \cup {x})
          /\ \A name : name \in InRange(Names(more))
                        <=> name \in InRange(Names(s)) \/ (condition /\ name = x.name)
          /\ Distinct(Names(more))
               <=> Distinct(Names(s)) /\ (condition => x.name \notin InRange(Names(s)))
      BY <1>1, <1>2, <2>1, Zenon
    <2> QED BY <2>2, Zenon DEF more
  <1>3. CASE condition
    <2>1. more = Append(s, x)
      BY <1>1, <1>3, Zenon DEF OneIf
    <2>2. \A name : name \in InRange(Names(s)) \cup {x.name}
                     <=> name \in InRange(Names(s)) \/ name = x.name
      OBVIOUS
    <2> HIDE DEF more
    <2>3. more \in Seq(S \cup {x})
      BY <2>1, NextName, Zenon
    <2>4. \A name : name \in InRange(Names(more))
                     <=> name \in InRange(Names(s)) \/ (condition /\ name = x.name)
      <3>1. InRange(Names(more)) = InRange(Names(s)) \cup {x.name}
        BY <2>1, NextName
      <3> QED BY <1>3, <2>2, <3>1
    <2>5. Distinct(Names(more))
            <=> Distinct(Names(s)) /\ (condition => x.name \notin InRange(Names(s)))
      BY <1>3, <2>1, NextName
    <2> QED BY <2>3, <2>4, <2>5, Zenon DEF more
  <1> QED BY <1>2, <1>3

LEMMA OneName ==
    ASSUME NEW x
    PROVE  /\ InRange(Names(<<x>>)) = {x.name} /\ Distinct(Names(<<x>>))
           /\ Distinct(Names(<<>>)) /\ InRange(Names(<<>>)) = {} /\ <<>> \in Seq({})
  <1>1. <<>> \in Seq({})
    OBVIOUS
  <1>2. Distinct(Names(<<>>)) /\ InRange(Names(<<>>)) = {}
    BY DEF Names, Distinct, InRange
  <1>3. DOMAIN Names(<<x>>) = {1} /\ Names(<<x>>)[1] = x.name
    BY DEF Names
  <1> QED BY <1>1, <1>2, <1>3 DEF Distinct, InRange

LEMMA ContainerNames ==
    /\ AppContainer.name = request.application /\ Elector.name = "elector"
    /\ Sidecar.name = "vks-sidecar" /\ VaultInit.name = "vks-init"
    /\ createCertificateVolume(request, resources).name = request.application
    /\ VaultVolume.name = "vault-secrets"
    /\ \A mounts : /\ [AppContainer EXCEPT !.mounts = mounts].name = AppContainer.name
                   /\ [Elector EXCEPT !.mounts = mounts].name = Elector.name
  BY DEF AppContainer, Elector, Sidecar, VaultInit, Container, createCertificateVolume, VaultVolume

\* Vault's mounts change no names.
LEMMA MountedNames ==
    LET mounted == MountVault(WithoutVault.containers, request.application)
    IN mounted \in Seq(InRange(mounted)) /\ Names(mounted) = Names(WithoutVault.containers)
  <1> DEFINE old == WithoutVault.containers
             mounted == MountVault(old, request.application)
  <1>1. old \in Seq({AppContainer, Elector})
    BY PlainContainers
  <1> HIDE DEF old
  <1>2. /\ DOMAIN old = 1 .. Len(old) /\ Len(old) \in Nat
        /\ \A i \in 1 .. Len(old) : old[i] \in {AppContainer, Elector}
    BY <1>1
  <1>3. mounted = [i \in 1 .. Len(old) |->
                     IF old[i].name = request.application
                     THEN [old[i] EXCEPT !.mounts = Append(@, "vault-secrets")] ELSE old[i]]
    BY <1>2, Zenon DEF MountVault
  <1>4. \A i \in 1 .. Len(old) : mounted[i].name = old[i].name
    <2> SUFFICES ASSUME NEW i \in 1 .. Len(old) PROVE mounted[i].name = old[i].name
      OBVIOUS
    <2>1. CASE old[i].name = request.application
      <3>1. mounted[i] = [old[i] EXCEPT !.mounts = Append(@, "vault-secrets")]
        BY <1>3, <2>1
      <3>2. old[i] = AppContainer \/ old[i] = Elector
        BY <1>2
      <3>3. [old[i] EXCEPT !.mounts = Append(@, "vault-secrets")].name = old[i].name
        BY <3>2, ContainerNames
      <3> QED BY <3>1, <3>3
    <2>2. CASE old[i].name # request.application
      BY <1>3, <2>2
    <2> QED BY <2>1, <2>2
  <1>5. DOMAIN mounted = 1 .. Len(old)
    BY <1>3
  <1>6. mounted = [i \in 1 .. Len(old) |-> mounted[i]]
    BY <1>3
  <1> HIDE DEF mounted
  <1>7. mounted \in Seq(InRange(mounted))
    <2>1. \A i \in 1 .. Len(old) : mounted[i] \in InRange(mounted)
      BY <1>5 DEF InRange
    <2> QED BY <1>2, <1>6, <2>1
  <1>8. Names(mounted) = Names(old)
    BY <1>2, <1>4, <1>5 DEF Names
  <1> QED BY <1>7, <1>8 DEF mounted, old

\* The names of the containers without Vault.
LEMMA PlainNames ==
    /\ \A name : name \in InRange(Names(WithoutVault.containers)) <=>
                    name = request.application \/ (manifest.leaderElection /\ name = "elector")
    /\ Distinct(Names(WithoutVault.containers))
         <=> (manifest.leaderElection => request.application # "elector")
  <1>1. <<AppContainer>> \in Seq({AppContainer})
    OBVIOUS
  <1>2. /\ InRange(Names(<<AppContainer>>)) = {request.application}
        /\ Distinct(Names(<<AppContainer>>))
    BY OneName, ContainerNames
  <1> DEFINE first == <<AppContainer>>
             led == manifest.leaderElection
             both == first \o OneIf(led, Elector)
  <1>3. WithoutVault.containers = both /\ Elector.name = "elector"
    BY PlainPod, ContainerNames
  <1>4. \A name : name \in InRange(Names(both))
                   <=> name \in InRange(Names(first)) \/ (led /\ name = Elector.name)
    BY <1>1, MoreNames, Zenon
  <1>5. Distinct(Names(both))
          <=> Distinct(Names(first)) /\ (led => Elector.name \notin InRange(Names(first)))
    BY <1>1, MoreNames
  <1> HIDE DEF both, first
  <1>6. "elector" \notin {request.application} <=> request.application # "elector"
    OBVIOUS
  <1> QED BY <1>2, <1>3, <1>4, <1>5, <1>6, Zenon DEF first

LEMMA ContainersWithVault ==
    ASSUME UsesVault(manifest, daemon)
    PROVE  Distinct(Names(ThePod.containers \o ThePod.initContainers)) <=>
             ~(\/ request.application = "vks-init"
               \/ manifest.leaderElection /\ request.application = "elector"
               \/ manifest.vault.sidecar /\ request.application = "vks-sidecar")
  <1> DEFINE mounted == MountVault(WithoutVault.containers, request.application)
             beside == mounted \o OneIf(manifest.vault.sidecar, Sidecar)
  <1>1. ThePod.containers = beside /\ ThePod.initContainers = Append(<<>>, VaultInit)
    BY PlainOrVault, VaultPod, PlainPod
  <1>2. mounted \in Seq(InRange(mounted)) /\ Names(mounted) = Names(WithoutVault.containers)
    BY MountedNames
  <1> HIDE DEF mounted
  <1>3. /\ beside \in Seq(InRange(mounted) \cup {Sidecar})
        /\ \A name : name \in InRange(Names(beside)) <=>
               name \in InRange(Names(mounted)) \/ (manifest.vault.sidecar /\ name = "vks-sidecar")
        /\ Distinct(Names(beside))
             <=> /\ Distinct(Names(mounted))
                 /\ manifest.vault.sidecar => "vks-sidecar" \notin InRange(Names(mounted))
    <2>1. Sidecar.name = "vks-sidecar"
      BY ContainerNames
    <2> DEFINE T == InRange(mounted)
               has == manifest.vault.sidecar
               more == mounted \o OneIf(has, Sidecar)
    <2>2. mounted \in Seq(T)
      BY <1>2
    <2> HIDE DEF T, has
    <2>3. more \in Seq(T \cup {Sidecar})
      BY <2>2, MoreNames, Zenon
    <2>4. \A name : name \in InRange(Names(more))
                     <=> name \in InRange(Names(mounted)) \/ (has /\ name = Sidecar.name)
      BY <2>2, MoreNames, Zenon
    <2>5. Distinct(Names(more))
            <=> Distinct(Names(mounted)) /\ (has => Sidecar.name \notin InRange(Names(mounted)))
      BY <2>2, MoreNames, Zenon
    <2> QED BY <2>1, <2>3, <2>4, <2>5, Zenon DEF T, has
  <1> HIDE DEF beside
  <1>4. ThePod.containers \o ThePod.initContainers = Append(beside, VaultInit)
    BY <1>1, <1>3
  <1>5. Distinct(Names(Append(beside, VaultInit)))
          <=> Distinct(Names(beside)) /\ "vks-init" \notin InRange(Names(beside))
    <2>1. VaultInit.name = "vks-init"
      BY ContainerNames
    <2>2. Distinct(Names(Append(beside, VaultInit)))
            <=> Distinct(Names(beside)) /\ VaultInit.name \notin InRange(Names(beside))
      BY <1>3, NextName, Zenon
    <2> QED BY <2>1, <2>2, Zenon
  <1> QED BY <1>2, <1>3, <1>4, <1>5, PlainNames

LEMMA Volumes ==
    /\ Distinct(Names(WithoutVault.volumes))
    /\ Distinct(Names(Append(WithoutVault.volumes, VaultVolume)))
         <=> (hasCertificate(resources) => request.application # "vault-secrets")
  <1> DEFINE volume == createCertificateVolume(request, resources)
             own == OneIf(hasCertificate(resources), volume)
  <1>1. WithoutVault.volumes = own /\ own \in Seq({volume}) /\ volume.name = request.application
    BY PlainPod, OneOrNone, ContainerNames
  <1> HIDE DEF volume
  <1>2. Distinct(Names(own)) /\ InRange(Names(own)) =
          IF hasCertificate(resources) THEN {request.application} ELSE {}
    <2>1. CASE hasCertificate(resources)
      <3>1. own = <<volume>>
        BY <2>1, OneOrNone
      <3> QED BY <1>1, <2>1, <3>1, OneName
    <2>2. CASE ~hasCertificate(resources)
      <3>1. own = <<>>
        BY <2>2, OneOrNone
      <3> QED BY <2>2, <3>1, OneName
    <2> QED BY <2>1, <2>2
  <1> HIDE DEF own
  <1>3. Distinct(Names(Append(own, VaultVolume)))
          <=> Distinct(Names(own)) /\ "vault-secrets" \notin InRange(Names(own))
    <2>1. VaultVolume.name = "vault-secrets"
      BY ContainerNames
    <2>2. Distinct(Names(Append(own, VaultVolume)))
            <=> Distinct(Names(own)) /\ VaultVolume.name \notin InRange(Names(own))
      BY <1>1, NextName, Zenon
    <2> QED BY <2>1, <2>2, Zenon
  <1> QED BY <1>1, <1>2, <1>3

\* The API server refuses a pod whose application has a name that is taken, or whose
\* amounts are bad.
LEMMA PodIsRefused ==
    ASSUME Passing
    PROVE  ~AdmitsPod(ThePod) <=> NameTaken \/ BadAmounts
  <1>1. ThePod.requests = manifest.requests /\ ThePod.limits = manifest.limits
    BY PlainPod, VaultPod, PlainOrVault
  <1>2. ~AdmitsResources(ThePod.requests, ThePod.limits) <=> BadAmounts
    BY <1>1, AppQuantities DEF Passing
  <1>3. /\ manifest.leaderElection = raw.leaderElection /\ manifest.vault = raw.vault
        /\ UsesVault(manifest, daemon) <=> UsesVault(raw, daemon)
    BY AsWritten
  <1>4. CASE UsesVault(manifest, daemon)
    <2>1. ThePod.volumes = Append(WithoutVault.volumes, VaultVolume)
      BY <1>4, PlainOrVault, VaultPod
    <2>2. Distinct(Names(ThePod.containers \o ThePod.initContainers))
            /\ Distinct(Names(ThePod.volumes)) <=> ~NameTaken
      <3>1. NameTaken <=>
              \/ request.application = "vks-init"
              \/ manifest.leaderElection /\ request.application = "elector"
              \/ manifest.vault.sidecar /\ request.application = "vks-sidecar"
              \/ hasCertificate(resources) /\ request.application = "vault-secrets"
        BY <1>3, <1>4 DEF NameTaken
      <3> QED BY <1>4, <2>1, <3>1, ContainersWithVault, Volumes, Zenon
    <2> QED BY <1>2, <2>2 DEF AdmitsPod
  <1>5. CASE ~UsesVault(manifest, daemon)
    <2>1. ThePod = WithoutVault
      BY <1>5, PlainOrVault
    <2>2. WithoutVault.containers \o WithoutVault.initContainers = WithoutVault.containers
      BY PlainPod, PlainContainers
    <2>3. NameTaken <=> manifest.leaderElection /\ request.application = "elector"
      BY <1>3, <1>5 DEF NameTaken
    <2>4. Distinct(Names(ThePod.containers \o ThePod.initContainers))
            /\ Distinct(Names(ThePod.volumes)) <=> ~NameTaken
      BY <2>1, <2>2, <2>3, PlainNames, Volumes, Zenon
    <2> QED BY <1>2, <2>4 DEF AdmitsPod
  <1> QED BY <1>4, <1>5

\* A deploy that goes on has every resource it asked for.
LEMMA NoneIsMissing ==
    ASSUME DeployIsMade, pc = "deployed"
    PROVE  ~ResourceIsMissing
  <1> SUFFICES ASSUME ~request.skipFasit, NEW q \in InRange(Wanted) PROVE Found(q) # {}
    BY DEF ResourceIsMissing, Wanted
  <1>1. PICK i \in DOMAIN Wanted : q = Wanted[i]
    BY DEF InRange
  <1>2. Wanted \in Seq(InRange(Wanted))
    BY WantedIsSequence DEF DeployIsMade, ManifestIsKept
  <1>3. Len(Wanted) <= Len(resources) /\ resources \in Seq(OfFasit)
    BY DEF DeployIsMade, ResourcesAreWanted, Building, AfterRedis, AfterPod, AfterSecret,
           AfterAutoscaler
  <1>4. i \in DOMAIN resources /\ i <= Len(Wanted)
    BY <1>2, <1>3
  <1>5. resources[i] \in Comes(q)
    BY <1>1, <1>4, OneOrTheOther DEF DeployIsMade
  <1>6. PICK page : resources[i] \in Outcomes(q, page)
    BY <1>5, Zenon DEF Comes
  <1> QED BY <1>6, OutcomeIs

\* A deploy ends early only for a cause told from what it was given, and one that deploys
\* was given none.
THEOREM EndsCorrect == Spec => []EndsHaveCauses
  <1>1. DeployIsMade => EndsHaveCauses
    <2> SUFFICES ASSUME DeployIsMade PROVE EndsHaveCauses
      OBVIOUS
    <2> USE DEF Early, WithoutObjects, AfterRedis, AfterPod, AfterSecret, AfterAutoscaler
    <2>1. pc \in {"no manifest", "rejected", "no resources"} => cluster = NoObjects
      BY DEF DeployIsMade, ObjectsAreBuilt
    <2>2. pc \in {"panicked", "not built", "refused", "deployed"} => Passing
      BY DEF DeployIsMade, ManifestIsKept, Passing, Filled
    <2>3. daemon.vaultSettings \subseteq VaultSettings
      BY SituationAssumption DEF DeployIsMade, ManifestIsKept, daemon
    <2>4. Passing =>
            /\ (manifest.redis.enabled /\ createRedisPodSpec(manifest.redis) = "panic"
                 <=> RedisPanics)
            /\ (manifest.redis.enabled /\ ~AdmitsResources(TheRedis.requests, TheRedis.limits)
                 <=> RedisBadAmounts)
            /\ (PodFails <=> NamesClash \/ DaemonIsMisconfigured)
            /\ (~AdmitsPod(ThePod) <=> NameTaken \/ BadAmounts)
            /\ (~AdmitsAutoscaler(manifest) <=> raw.min < 0)
      BY <2>3, RedisPanic, RedisQuantities, PodFailsForCauses, PodIsRefused,
         AutoscalerIsRefused, Zenon DEF Passing
    <2>5. pc = "panicked" => RedisPanics
      BY <2>2, <2>4 DEF DeployIsMade, ObjectsAreBuilt
    <2>6. pc = "not built" => NamesClash \/ DaemonIsMisconfigured
      BY <2>2, <2>4 DEF DeployIsMade, ObjectsAreBuilt
    <2>7. pc = "refused" => BadAmounts \/ RedisBadAmounts \/ NameTaken \/ raw.min < 0
      BY <2>2, <2>4 DEF DeployIsMade, ObjectsAreBuilt
    <2>8. pc = "no manifest" => faults > 0 \/ SomethingUnreadable
      BY DEF DeployIsMade, SearchIsTold, WasPassedBy, SomethingUnreadable
    <2>9. pc = "no resources" => faults > 0 \/ ResourceIsMissing
      BY DEF DeployIsMade, SearchIsTold
    <2>10. pc = "rejected" => Invalid
      <3>1. pc = "rejected" => Filled /\ ~ValidateManifest(manifest)
        BY DEF DeployIsMade, ManifestIsKept, Filled
      <3> QED BY <3>1, ValidityIsTold
    <2>11. ASSUME pc = "deployed"
           PROVE  ~(\/ NothingToRead \/ Invalid \/ ResourceIsMissing
                    \/ RedisPanics \/ NamesClash \/ DaemonIsMisconfigured
                    \/ BadAmounts \/ RedisBadAmounts \/ NameTaken \/ raw.min < 0)
      <3>1. /\ manifest.redis.enabled => createRedisPodSpec(manifest.redis) # "panic"
            /\ manifest.redis.enabled => AdmitsResources(TheRedis.requests, TheRedis.limits)
            /\ ~PodFails /\ AdmitsPod(ThePod) /\ AdmitsAutoscaler(manifest)
        BY <2>11 DEF DeployIsMade, ObjectsAreBuilt
      <3>2. ~Invalid
        BY <2>2, <2>11, ValidityIsTold DEF Passing
      <3>3. ~NothingToRead
        BY <2>11 DEF DeployIsMade, SearchIsTold, Search
      <3>4. ~ResourceIsMissing
        BY <2>11, NoneIsMissing
      <3> QED BY <2>2, <2>4, <2>11, <3>1, <3>2, <3>3, <3>4
    <2> QED BY <2>1, <2>5, <2>6, <2>7, <2>8, <2>9, <2>10, <2>11 DEF EndsHaveCauses
  <1> QED BY <1>1, DeployMade, PTL
===============================================================================
