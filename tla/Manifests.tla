------------------------------- MODULE Manifests -------------------------------
(***************************************************************************)
(* A manifest on its way from nais.yaml to what is built from it: the      *)
(* defaults merged into it, the sixteen validations, and the quantities    *)
(* Kubernetes objects are made of (api/manifest.go, defaults.go, redis.go).*)
(*                                                                         *)
(* A quantity is unset for "", nonsense, or an amount, which may be zero   *)
(* or negative.  An image is the host of its registry, "" for none, the    *)
(* names that follow, and whether it has a tag.  A strategy is "" when the *)
(* manifest does not have it, and a number is 0.                           *)
(***************************************************************************)
EXTENDS Integers, Sequences

Quantities == [kind : {"unset", "nonsense", "amount"}, amount : Int]
Unset == [kind |-> "unset", amount |-> 0]
Amount(n) == [kind |-> "amount", amount |-> n]
Parses(quantity) == quantity.kind = "amount"

Lists == [cpu : Quantities, memory : Quantities]
NoList == [cpu |-> Unset, memory |-> Unset]
IsEmpty(list) == list.cpu.kind = "unset" /\ list.memory.kind = "unset"

NoImage == [registry |-> "", path |-> <<>>, tagged |-> FALSE]

\* A manifest that says nothing; of its shape only what decides how it is treated.
EmptyManifest ==
    [image |-> NoImage, strategy |-> "", min |-> 0, max |-> 0, cpuThreshold |-> 0,
     limits |-> NoList, requests |-> NoList,
     redis |-> [enabled |-> FALSE, limits |-> NoList, requests |-> NoList],
     used |-> <<>>, exposed |-> <<>>, alerts |-> <<>>,
     ingressDisabled |-> FALSE, leaderElection |-> FALSE, webproxy |-> FALSE,
     secrets |-> FALSE, vault |-> [enabled |-> FALSE, sidecar |-> FALSE]]

-------------------------------------------------------------------------------
\* Defaults.

\* mergo.Merge: a field with Go's zero value takes the default, whether it was left
\* out or written down.  A quantity is text: only "" takes it, and "0" stays.
Merged(value, zero, default) == IF value = zero THEN default ELSE value
MergedQuantity(quantity, default) == IF quantity.kind = "unset" THEN default ELSE quantity
MergedList(list, default) == [cpu |-> MergedQuantity(list.cpu, default.cpu),
                              memory |-> MergedQuantity(list.memory, default.memory)]

GetDefaultManifest(application) ==
    [EmptyManifest EXCEPT
       !.image = [registry |-> "docker.adeo.no:5000", path |-> <<application>>, tagged |-> FALSE],
       !.strategy = "RollingUpdate",
       !.min = 2, !.max = 4, !.cpuThreshold = 50,
       !.limits = [cpu |-> Amount(500), memory |-> Amount(512)],
       !.requests = [cpu |-> Amount(200), memory |-> Amount(256)]]

AddDefaultManifestValues(m, application) ==
    LET default == GetDefaultManifest(application)
    IN [m EXCEPT !.image = Merged(@, NoImage, default.image),
                 !.strategy = Merged(@, "", default.strategy),
                 !.min = Merged(@, 0, default.min),
                 !.max = Merged(@, 0, default.max),
                 !.cpuThreshold = Merged(@, 0, default.cpuThreshold),
                 !.limits = MergedList(@, default.limits),
                 !.requests = MergedList(@, default.requests)]

\* What Redis gets that the manifest does not ask for.
RedisDefaults == [cpu |-> Amount(100), memory |-> Amount(128)]
updateDefaultRedisValues(redis) ==
    [redis EXCEPT !.limits = MergedList(@, RedisDefaults),
                  !.requests = MergedList(@, RedisDefaults)]

-------------------------------------------------------------------------------
\* Validations, of a manifest with its defaults.

validateImage(m) == ~m.image.tagged
validateReplicasMax(m) == m.max # 0
validateReplicasMin(m) == m.min # 0
validateMinIsSmallerThanMax(m) == m.min <= m.max
validateCpuThreshold(m) == m.cpuThreshold \in 10 .. 90
validateRequestMemoryQuantity(m) == Parses(m.requests.memory)
validateLimitsMemoryQuantity(m) == Parses(m.limits.memory)
validateRequestCpuQuantity(m) == Parses(m.requests.cpu)
validateLimitsCpuQuantity(m) == Parses(m.limits.cpu)
validateDeploymentStrategy(m) == m.strategy \in {"RollingUpdate", "Recreate"}

InRange(s) == {s[i] : i \in DOMAIN s}
validateResources(m) ==
    \A r \in InRange(m.exposed) \cup InRange(m.used) : r.type # "" /\ r.alias # <<>>

\* Every alert has a name, an expression and an action.
validateAlertRules(m) == \A alert \in InRange(m.alerts) : alert = "complete"

\* The quantities of Redis are validated if there are any, but two of the four look
\* for them in the other list: the limits are taken to be there if there are requests.
Checked(quantity, list) == ~IsEmpty(list) /\ quantity.kind # "unset" => Parses(quantity)

validateRedisRequestMemoryQuantity(m) == Checked(m.redis.requests.memory, m.redis.requests)
validateRedisLimitsMemoryQuantity(m) == Checked(m.redis.limits.memory, m.redis.requests)
validateRedisRequestCpuQuantity(m) == Checked(m.redis.requests.cpu, m.redis.limits)

\* A plausible bug: this one too looks in the other list.
validateRedisLimitsCpuElsewhere(m) == Checked(m.redis.limits.cpu, m.redis.requests)

validateRedisLimitsCpuQuantity(m) == Checked(m.redis.limits.cpu, m.redis.limits)

ValidateManifest(m) ==
    /\ validateImage(m) /\ validateReplicasMax(m) /\ validateReplicasMin(m)
    /\ validateMinIsSmallerThanMax(m) /\ validateCpuThreshold(m)
    /\ validateRequestMemoryQuantity(m) /\ validateLimitsMemoryQuantity(m)
    /\ validateRequestCpuQuantity(m) /\ validateLimitsCpuQuantity(m)
    /\ validateResources(m) /\ validateAlertRules(m) /\ validateDeploymentStrategy(m)
    /\ validateRedisRequestMemoryQuantity(m) /\ validateRedisLimitsMemoryQuantity(m)
    /\ validateRedisRequestCpuQuantity(m) /\ validateRedisLimitsCpuQuantity(m)

-------------------------------------------------------------------------------
\* What is built from it.

\* createResourceLimits parses with MustParse, which panics.
createResourceLimits(requests, limits) ==
    IF \A list \in {requests, limits} : Parses(list.cpu) /\ Parses(list.memory)
    THEN "built" ELSE "panic"

createRedisPodSpec(redis) ==
    LET filled == updateDefaultRedisValues(redis)
    IN createResourceLimits(filled.requests, filled.limits)

\* The API server's rules for what naisd sends it: no quantity is negative, and none
\* that is requested above its limit.
AdmitsQuantities(requested, limit) ==
    0 <= requested.amount /\ 0 <= limit.amount /\ requested.amount <= limit.amount
AdmitsResources(requests, limits) ==
    /\ AdmitsQuantities(requests.cpu, limits.cpu)
    /\ AdmitsQuantities(requests.memory, limits.memory)
AdmitsAutoscaler(m) == 1 <= m.min /\ m.min <= m.max
===============================================================================
