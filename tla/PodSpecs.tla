-------------------------------- MODULE PodSpecs --------------------------------
(***************************************************************************)
(* The objects the daemon makes of a manifest and its Fasit resources:     *)
(* the pod with its variables, volumes and containers, the Secret it       *)
(* reads, and the rules of the ingress (api/resourcecreator.go,            *)
(* internal/vault, internal/proxyopts).                                    *)
(*                                                                         *)
(* The variables of a container are a set: for each its name, its value,   *)
(* which resource declares it and the stage at which it is added.  Of      *)
(* variables with the same name the container sees the one added last.     *)
(***************************************************************************)
EXTENDS FasitResources, Manifests

Text(value) == <<"text", value>>
Says(words) == Text(Value(words, {}))
SecretKey(key) == <<"secret", key>>

\* A variable the daemon itself adds.
Variable(stage, name, value) ==
    [name |-> name, value |-> value, stage |-> stage, by |-> <<>>]

createDefaultEnvironmentVariables(request) ==
    {Variable(1, <<"APP", "_", "NAME">>, Says(request.application)),
     Variable(1, <<"APP", "_", "VERSION">>, <<"version", request.version>>),
     Variable(1, <<"APP", "_", "ENVIRONMENT">>, Says(request.namespace)),
     Variable(1, <<"NAIS", "_", "NAMESPACE">>, Says(request.namespace)),
     Variable(1, <<"NAIS", "_", "APP", "_", "NAME">>, Says(request.application)),
     Variable(1, <<"NAIS", "_", "APP", "_", "IMAGE">>, <<"version", request.version>>),
     Variable(1, <<"NAIS", "_", "CLUSTER", "_", "NAME">>, Says(request.cluster))}
    \cup IF request.skipFasit THEN {}
         ELSE {Variable(1, <<"FASIT", "_", "ENVIRONMENT", "_", "NAME">>,
                        Says(request.environment))}

RedisVariables(request, m) ==
    IF m.redis.enabled
    THEN {Variable(1, <<"REDIS", "_", "HOST">>, <<"rfs-", request.application>>)} ELSE {}

-------------------------------------------------------------------------------
\* The variables of a resource: its properties, its secret and its files.

Declared(i, resource, values) ==
    {[name |-> ToEnvironmentVariable(resource, key), value |-> values[key],
      stage |-> 2, by |-> <<i, key>>] : key \in DOMAIN values}

PropertyVariables(i, r) ==
    Declared(i, r, [key \in DOMAIN r.properties |-> Text(r.properties[key])])
SecretVariables(i, r) ==
    Declared(i, r, [key \in DOMAIN r.secret |-> SecretKey(ToResourceVariable(r, key))])
FileVariables(i, r) ==
    Declared(i, r, [key \in DOMAIN r.certificates |-> MountPoint(r, key)])

ResourceVariables(resources) ==
    UNION {PropertyVariables(i, resources[i]) \cup SecretVariables(i, resources[i])
             \cup FileVariables(i, resources[i]) : i \in DOMAIN resources}
SameName(v, w) == v.name = w.name
SameKey(v, w) == v.value[1] = "secret" /\ w.value[1] = "secret" /\ v.value[2] = w.value[2]

\* A plausible bug: variables are compared with those of the resources only.
checkForSomeDuplicates(existing, added) ==
    \E w \in added : \E v \in added \ {w} : SameName(v, w) \/ SameKey(v, w)

\* Whether a variable of a resource has the name or the secret key of an earlier one.
checkForDuplicates(existing, added) ==
    \E w \in added : \E v \in (existing \cup added) \ {w} : SameName(v, w) \/ SameKey(v, w)

-------------------------------------------------------------------------------
\* The web proxy, which goes to the pod in both cases, and as options for Java.

\* Names of hosts that begin with a dot get a star.
mangleWildcard(hosts) ==
    [i \in DOMAIN hosts |-> IF hosts[i][1] = "." THEN <<"*">> \o hosts[i] ELSE hosts[i]]

\* A URL without a host and a port is an error.
JavaProxyOptionsFail(proxyURL) == proxyURL \notin {"", "host:port"}
JavaProxyOptions(proxyURL, noProxy) == <<"java", proxyURL, mangleWildcard(noProxy)>>

BothCases(name, value) == {Variable(3, name, value), Variable(3, ToLower(name), value)}

createProxyEnvironmentVariables(daemon) ==
    (IF daemon.proxyURL = "" THEN {}
     ELSE BothCases(<<"HTTP", "_", "PROXY">>, Says(daemon.proxyURL))
            \cup BothCases(<<"HTTPS", "_", "PROXY">>, Says(daemon.proxyURL)))
    \cup (IF daemon.noProxy = <<>> THEN {}
          ELSE BothCases(<<"NO", "_", "PROXY">>, <<"hosts", daemon.noProxy>>))
    \cup (IF daemon.proxyURL = "" /\ daemon.noProxy = <<>> THEN {}
          ELSE {Variable(3, <<"JAVA", "_", "PROXY", "_", "OPTIONS">>,
                         JavaProxyOptions(daemon.proxyURL, daemon.noProxy))})

EnvironmentFails(request, m, resources, daemon) ==
    \/ checkForDuplicates(createDefaultEnvironmentVariables(request)
                            \cup RedisVariables(request, m),
                          ResourceVariables(resources))
    \/ m.webproxy /\ JavaProxyOptionsFail(daemon.proxyURL)

createEnvironmentVariables(request, m, resources, daemon) ==
    createDefaultEnvironmentVariables(request) \cup RedisVariables(request, m)
      \cup ResourceVariables(resources)
      \cup (IF m.webproxy THEN createProxyEnvironmentVariables(daemon) ELSE {})

-------------------------------------------------------------------------------
\* Certificates and the Secret.

hasCertificate(resources) == \E r \in InRange(resources) : r.certificates # NoEntries

\* The keys of the Secret that are files in the pod.
Items(resources) ==
    UNION {{ToResourceVariable(r, file) : file \in DOMAIN r.certificates}
             : r \in InRange(resources)}

createCertificateVolume(request, resources) ==
    [name |-> request.application, items |-> Items(resources)]

KeyedBy(resource, entries) ==
    [key \in {ToResourceVariable(resource, k) : k \in DOMAIN entries} |->
        entries[CHOOSE k \in DOMAIN entries : ToResourceVariable(resource, k) = key]]

\* All entries of a sequence of maps, later ones over earlier ones.
With(data, key) == {i \in DOMAIN data : key \in DOMAIN data[i]}
Together(data) == [key \in UNION {DOMAIN data[i] : i \in DOMAIN data}
                     |-> data[Latest(With(data, key))][key]]

\* A plausible bug: the files of certificates are not put into the Secret.
createSecretDataOfSecrets(resources) ==
    Together([i \in DOMAIN resources |-> KeyedBy(resources[i], resources[i].secret)])

\* The secrets and the files of all resources.
createSecretData(resources) ==
    Together([i \in DOMAIN resources |->
                Under(KeyedBy(resources[i], resources[i].secret),
                      KeyedBy(resources[i], resources[i].certificates))])

-------------------------------------------------------------------------------
\* The pod.

\* A container's name, the names of the volumes it mounts, and its variables.
Container(name, mounts, env) == [name |-> name, mounts |-> mounts, env |-> env]

ElectorPath == Variable(4, <<"ELECTOR", "_", "PATH">>, Says("localhost:4040"))

UsesVault(m, daemon) == daemon.vaultEnabled /\ (m.secrets \/ m.vault.enabled)

\* Vault has to be configured in full.
validateVault(daemon) == daemon.vaultSettings = {"addr", "image", "auth path", "kv path"}

createPodSpecFails(request, m, resources, daemon) ==
    \/ EnvironmentFails(request, m, resources, daemon)
    \/ UsesVault(m, daemon) /\ ~validateVault(daemon)

\* A sequence of what is there only under a condition.
OneIf(condition, element) == IF condition THEN <<element>> ELSE <<>>

PodSpecOf(request, m, resources, daemon) ==
    [containers |->
       <<Container(request.application, OneIf(hasCertificate(resources), request.application),
                   createEnvironmentVariables(request, m, resources, daemon)
                     \cup IF m.leaderElection THEN {ElectorPath} ELSE {})>>
       \o OneIf(m.leaderElection, Container("elector", <<>>, {})),
     initContainers |-> <<>>,
     volumes |-> OneIf(hasCertificate(resources), createCertificateVolume(request, resources)),
     image |-> [name |-> m.image, version |-> request.version],
     requests |-> m.requests, limits |-> m.limits]

\* The volume of Vault is mounted in the container named like the application and
\* in those of Vault.
VaultVolume == [name |-> "vault-secrets", items |-> {}]
MountVault(containers, name) ==
    [i \in DOMAIN containers |->
        IF containers[i].name = name
        THEN [containers[i] EXCEPT !.mounts = Append(@, "vault-secrets")]
        ELSE containers[i]]

AddVaultContainers(pod, request, m) ==
    [pod EXCEPT
       !.volumes = Append(@, VaultVolume),
       !.containers = MountVault(@, request.application)
                        \o OneIf(m.vault.sidecar,
                                 Container("vks-sidecar", <<"vault-secrets">>, {})),
       !.initContainers = Append(@, Container("vks-init", <<"vault-secrets">>, {}))]

createPodSpec(request, m, resources, daemon) ==
    LET pod == PodSpecOf(request, m, resources, daemon)
    IN IF UsesVault(m, daemon) THEN AddVaultContainers(pod, request, m) ELSE pod

\* What the API server asks of a pod: every name once, and limits above requests.
Names(sequence) == [i \in DOMAIN sequence |-> sequence[i].name]
Distinct(sequence) == \A i, j \in DOMAIN sequence : sequence[i] = sequence[j] => i = j
AdmitsPod(pod) ==
    /\ Distinct(Names(pod.containers \o pod.initContainers))
    /\ Distinct(Names(pod.volumes))
    /\ AdmitsResources(pod.requests, pod.limits)

-------------------------------------------------------------------------------
\* The ingress.

\* Hosts are what they are made of; a path is the number of slashes before a name.
createIngressHostname(request, subdomain) ==
    IF request.namespace = "default" THEN <<request.application, ".", subdomain>>
    ELSE <<request.application, "-", request.namespace, ".", subdomain>>

\* A plausible bug: the name of an environment is compared in the wrong case.
createSBSPublicHostnameOfP(request) ==
    IF request.environment # "P" THEN <<"tjenester-", request.environment, ".nav.no">>
    ELSE <<"tjenester.nav.no">>

createSBSPublicHostname(request) ==
    IF request.environment # "p" THEN <<"tjenester-", request.environment, ".nav.no">>
    ELSE <<"tjenester.nav.no">>

\* A plausible bug: of two slashes none is left, as if the path had none.
createIngressRuleWithout(host, path) ==
    [host |-> host, slashes |-> IF path.slashes = 1 THEN 0 ELSE path.slashes,
     path |-> path.name]

\* A slash goes before the path, and the first two slashes become one.
createIngressRule(host, path) ==
    [host |-> host, slashes |-> IF path.slashes = 0 THEN 1 ELSE path.slashes,
     path |-> path.name]

NoPath == [slashes |-> 0, name |-> ""]

createIngressRules(request, daemon, resources) ==
    {createIngressRule(createIngressHostname(request, daemon.subdomain), NoPath)}
    \cup (IF request.zone = "sbs"
          THEN {createIngressRule(createSBSPublicHostname(request),
                                  [slashes |-> 0, name |-> request.application])} ELSE {})
    \cup {createIngressRule(ingress.host, ingress.path)
             : ingress \in UNION {r.ingresses : r \in InRange(resources)}}
===============================================================================
