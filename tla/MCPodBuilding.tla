----------------------------- MODULE MCPodBuilding -----------------------------
(***************************************************************************)
(* Situations for model checking PodBuilding: each family varies one part  *)
(* of an ordinary deploy and goes through all combinations of that part.   *)
(***************************************************************************)
EXTENDS PodBuilding

InBothCases == {<<"app", "APP">>, <<"name", "NAME">>, <<"db", "DB">>, <<"url", "URL">>,
                <<"nav", "NAV">>, <<"truststore", "TRUSTSTORE">>, <<"keystore", "KEYSTORE">>,
                <<"path", "PATH">>, <<"password", "PASSWORD">>, <<"redis", "REDIS">>,
                <<"host", "HOST">>, <<"http", "HTTP">>, <<"https", "HTTPS">>,
                <<"proxy", "PROXY">>, <<"no", "NO">>, <<"elector", "ELECTOR">>,
                <<"flag", "FLAG">>, <<"applicationProperties", "APPLICATIONPROPERTIES">>}
AllWords == UNION {{p[1], p[2]} : p \in InBothCases} \cup {"_", ".", ":", "-"}
Lower == [w \in AllWords |-> IF \E p \in InBothCases : p[2] = w
                             THEN (CHOOSE p \in InBothCases : p[2] = w)[1] ELSE w]
Upper == [w \in AllWords |-> IF \E p \in InBothCases : p[1] = w
                             THEN (CHOOSE p \in InBothCases : p[1] = w)[2] ELSE w]

Pass == <<"password">>
AppProperties == <<"applicationProperties">>

-------------------------------------------------------------------------------
\* An ordinary deploy.

Resource(alias, type, properties) ==
    [alias |-> alias, type |-> type, properties |-> properties, lines |-> <<>>,
     secrets |-> NoEntries, files |-> NoEntries]
One(key, value) == [k \in {key} |-> value]
V(says) == Value(says, {})

Truststore == [Resource(<<"nav", "_", "truststore">>, "certificate", NoEntries)
                 EXCEPT !.files = One(<<"keystore">>, "certificates"),
                        !.secrets = One(Pass, V("changeit"))]
Database == [Resource(<<"db">>, "datasource", One(<<"url">>, V("jdbc")))
               EXCEPT !.secrets = One(Pass, V("hunter2"))]

\* Resources that are unlike the database in one way or another.
AppNamed == Resource(<<"app">>, "baseurl", One(<<"name">>, V("theirs")))
RedisNamed == Resource(<<"redis">>, "baseurl", One(<<"host">>, V("theirs")))
ProxyNamed == Resource(<<"http">>, "baseurl", One(<<"proxy">>, V("theirs")))
ElectorNamed == Resource(<<"elector">>, "baseurl", One(<<"path">>, V("theirs")))
TwoSecrets == [Resource(<<"app", ".", "db">>, "datasource", NoEntries)
                 EXCEPT !.secrets = [k \in {Pass, <<"keystore">>} |->
                                       IF k = Pass THEN V("first") ELSE V("second")]]
DashedTwin == [Resource(<<"app", "-", "db">>, "credential", NoEntries)
                 EXCEPT !.secrets = One(Pass, Value("other", {"%"}))]
AppLines == [Resource(<<"flag">>, "applicationproperties", One(AppProperties, V("the lines")))
               EXCEPT !.lines = <<[key |-> <<"flag", ".", "db">>, value |-> V("old")],
                                  [key |-> <<"flag", ".", "db">>, value |-> Value("new", {"'"})],
                                  [key |-> <<"flag", "-", "db">>, value |-> V("no key")],
                                  [key |-> <<"flag">>, value |-> V("")]>>]
Certificate == [Resource(<<"app">>, "certificate", NoEntries)
                  EXCEPT !.files = One(<<"keystore">>, "own"), !.secrets = One(Pass, V("key"))]
Unusual == {AppNamed, RedisNamed, ProxyNamed, ElectorNamed, TwoSecrets, DashedTwin, AppLines,
            Certificate}

Use(r) == [alias |-> r.alias, type |-> r.type, propertyMap |-> NoEntries]
UseAs(r, key, name) == [Use(r) EXCEPT !.propertyMap = One(key, name)]

Usual == [EmptyManifest EXCEPT !.used = <<Use(Database)>>]

Request == [application |-> "app", version |-> [tag |-> "1", digest |-> ""],
            namespace |-> "default", environment |-> "t0", zone |-> "fss", cluster |-> "dev",
            skipFasit |-> FALSE, hasManifestUrl |-> FALSE]
Daemons == [proxyURL |-> "host:port", noProxy |-> << <<".", "local">>, <<"host">> >>,
            vaultEnabled |-> TRUE, vaultSettings |-> {"addr", "image", "auth path", "kv path"},
            subdomain |-> "nais"]
Balanced == << [host |-> NoHost, paths |-> <<NoPath>>],
               [host |-> <<"big", "ip">>, paths |-> <<NoPath, [slashes |-> 1, name |-> "api"],
                                                      [slashes |-> 2, name |-> "web"]>>] >>

Only(place, m) == [p \in {"raw", "nexus", "named", "url"} |-> IF p = place THEN File(m) ELSE NoFile]
Deploying(m) == [request |-> Request, daemon |-> Daemons, found |-> {Truststore, Database},
                 balancers |-> Balanced, uploads |-> File(m), nexusUrlIsSet |-> FALSE,
                 store |-> Only("raw", m)]
-------------------------------------------------------------------------------
\* The families.

\* Where manifests are found and put: older ones, one that is no manifest, or none.
Older(n) == [Usual EXCEPT !.max = n]
Unreadable == [there |-> TRUE, parses |-> FALSE, manifest |-> EmptyManifest]
Downloads ==
    {[Deploying(Usual) EXCEPT
        !.store = [raw |-> r, nexus |-> x, named |-> n, url |-> File(Older(8))],
        !.request.hasManifestUrl = elsewhere, !.uploads = u, !.nexusUrlIsSet = set] :
       r \in {NoFile, Unreadable, File(Older(5))}, x \in {NoFile, File(Older(6))},
       n \in {NoFile, File(Older(7))}, elsewhere \in BOOLEAN, u \in {File(Usual), Unreadable},
       set \in BOOLEAN}

\* Every Redis, in all combinations of nonsense, nothing and too little.
Nonsense == [kind |-> "nonsense", amount |-> 0]
RedisLists == [cpu : {Unset, Nonsense, Amount(50), Amount(-50)},
               memory : {Unset, Nonsense, Amount(0)}]
RedisOf(enabled, l, r) ==
    Deploying([Usual EXCEPT !.redis = [enabled |-> enabled, limits |-> l, requests |-> r]])
Redises == {RedisOf(TRUE, l, r) : l \in RedisLists, r \in RedisLists}
           \cup {RedisOf(FALSE, l, NoList) : l \in RedisLists}

\* Limits and requests of the application, and its numbers of pods.
AppLists == [cpu : {Unset, Nonsense, Amount(0)},
             memory : {Unset, Amount(100), Amount(-100)}]
AppResourceLists == {Deploying([Usual EXCEPT !.limits = l, !.requests = r])
                       : l \in AppLists, r \in AppLists}
Scales == {Deploying([Usual EXCEPT !.min = x, !.max = y, !.cpuThreshold = t])
             : x \in {-1, 0, 3}, y \in {0, 1, 5}, t \in {0, 9, 90}}

\* Names of images, of which Docker Hub's may be written in several ways.
Hub == [registry |-> "", path |-> <<"nginx">>, tagged |-> FALSE]
Pulled == {Deploying([Usual EXCEPT !.image = [registry |-> r, path |-> p, tagged |-> FALSE]])
             : r \in {"", "docker.io", "internal.repo:12345"},
               p \in {<<"nginx">>, <<"library", "nginx">>, <<"org", "image">>}}

\* Manifests that are wrong in some other way.
Wrong == {Deploying(m) : m \in {[Usual EXCEPT !.image = [Hub EXCEPT !.tagged = TRUE]],
                                [Usual EXCEPT !.strategy = "Blue"],
                                [Usual EXCEPT !.strategy = "Recreate"],
                                [Usual EXCEPT !.alerts = <<"complete", "no action">>],
                                [Usual EXCEPT !.exposed = <<[type |-> "", alias |-> <<"app">>]>>],
                                [Usual EXCEPT !.ingressDisabled = TRUE]}}

\* Containers and volumes, and what the application is called.
Containers ==
    {[Deploying([Usual EXCEPT !.leaderElection = leader, !.secrets = way = "secrets",
                              !.vault = [enabled |-> way = "vault", sidecar |-> sidecar]])
        EXCEPT !.request.application = name, !.daemon.vaultEnabled = vault.on,
               !.daemon.vaultSettings = vault.settings] :
       name \in {"app", "elector", "vks-sidecar", "vks-init", "vault-secrets"},
       leader \in BOOLEAN, way \in {"neither", "secrets", "vault"}, sidecar \in BOOLEAN,
       vault \in {[on |-> FALSE, settings |-> {}], [on |-> TRUE, settings |-> {"addr", "image"}],
                 [on |-> TRUE, settings |-> Daemons.vaultSettings]}}

\* Any two resources, under their own name or as another's, beside variables of the
\* daemon that have such names.
Pairs == {<<Use(a), Use(b)>> : a \in Unusual, b \in Unusual}
         \cup {<<UseAs(Database, Pass, <<"APP", ".", "DB">>), Use(a)>> : a \in Unusual}
         \cup {<<UseAs(AppNamed, <<"name">>, <<"db", "-", "url">>), Use(Database)>>,
               <<Use(Database), Use([Database EXCEPT !.alias = <<"host">>])>>}
Variables ==
    {[Deploying([EmptyManifest EXCEPT !.used = pair, !.webproxy = on, !.leaderElection = on,
                                      !.redis.enabled = on])
        EXCEPT !.found = {Truststore, Database} \cup Unusual] :
       pair \in Pairs, on \in BOOLEAN}

\* Values that mean something to a format string or a shell.
Special(value) == [Database EXCEPT !.properties = One(<<"url">>, value)]
Values == {[Deploying(Usual) EXCEPT !.found = {Truststore, Special(Value("100%", signs))}]
             : signs \in SUBSET {"%", "'"}}

\* What the client asks for, and proxies.
Requests ==
    {[Deploying([Usual EXCEPT !.webproxy = TRUE])
        EXCEPT !.request.environment = e, !.request.zone = z, !.request.version = v,
               !.request.skipFasit = skip, !.request.namespace = n, !.daemon.proxyURL = url,
               !.balancers = IF skip THEN <<>> ELSE @] :
       e \in {"t0", "p"}, z \in {"fss", "sbs"}, skip \in BOOLEAN, n \in {"default", "team"},
       v \in {[tag |-> "1", digest |-> ""], [tag |-> "1", digest |-> "sha256"],
              [tag |-> "unparsable", digest |-> ""]},
       url \in {"", "host:port", "host"}}

AllSituations == Downloads \cup Redises \cup AppResourceLists \cup Scales \cup Pulled
                   \cup Wrong \cup Containers \cup Variables \cup Values \cup Requests
===============================================================================
