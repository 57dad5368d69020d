---------------------------- MODULE FasitResources ----------------------------
(***************************************************************************)
(* What the daemon and `nais env` make of a resource of Fasit, and the     *)
(* names its values get in a pod (api/fasit.go).                           *)
(*                                                                         *)
(* A name is a sequence of words and separators.  Case is a function on    *)
(* words, so that two names that differ only in case are different, and    *)
(* equal once both are in lower case.                                      *)
(***************************************************************************)
EXTENDS Integers, Sequences

CONSTANTS Words,         \* of which names are made, and separators
          LowerCase,     \* of each
          UpperCase,
          Password,      \* the name of the value of a secret
          Properties     \* the property applicationProperties

ASSUME WordAssumption == /\ {LowerCase, UpperCase} \subseteq [Words -> Words]
                         /\ {"_", ".", ":", "-"} \subseteq Words
                         /\ {Password, Properties} \subseteq Seq(Words)

ToLower(name) == [i \in DOMAIN name |-> LowerCase[name[i]]]
ToUpper(name) == [i \in DOMAIN name |-> UpperCase[name[i]]]

\* A Go map with no entries, and one with the entries of another over its own.
NoEntries == <<>>
Under(f, g) == [x \in DOMAIN f \cup DOMAIN g |-> IF x \in DOMAIN g THEN g[x] ELSE f[x]]

-------------------------------------------------------------------------------
\* Names.

normalizePropertyName(name) ==
    [i \in DOMAIN name |-> IF name[i] \in {".", ":", "-"} THEN "_" ELSE name[i]]

\* The key of a value in the application's Secret: what the manifest calls it, or the
\* resource's alias and the property; properties of the application have no alias.
ToResourceVariable(resource, property) ==
    LET named == IF property \in DOMAIN resource.propertyMap
                 THEN resource.propertyMap[property]
                 ELSE IF resource.type = "applicationproperties" THEN property
                 ELSE resource.name \o <<"_">> \o property
    IN ToLower(normalizePropertyName(named))

\* The name of the variable.
ToEnvironmentVariable(resource, property) == ToUpper(ToResourceVariable(resource, property))

\* The path of a certificate in the pod: the directory and the file.
MountPoint(resource, file) == <<"/var/run/secrets/naisd.io/", ToResourceVariable(resource, file)>>

-------------------------------------------------------------------------------
\* Resources.

\* Of all secrets of a resource the daemon resolves one, whichever Go's map gives it
\* first, and calls it the password.
resolveSecrets(secrets) ==
    IF secrets = NoEntries THEN {NoEntries}
    ELSE {[name \in {Password} |-> secrets[key]] : key \in DOMAIN secrets}

\* Whatever is answered to the request for a file is the file.
resolveCertificates(files, page) ==
    IF page = "" THEN files ELSE [name \in DOMAIN files |-> page]

\* A value: what it says, which signs it has that mean something in a format string
\* ("%") or in quotes ("'"), and whether it went through a format string since.
Value(says, signs) == [says |-> says, signs |-> signs, formatted |-> FALSE]

\* The text of application properties: lines whose key has letters, digits, "_" and
\* "." only and whose value is not empty; the last line with a key counts.
Counts(line) == line.value.says # "" /\ {line.key[i] : i \in DOMAIN line.key} \cap {"-", ":"} = {}
LinesWith(lines, key) == {i \in DOMAIN lines : Counts(lines[i]) /\ lines[i].key = key}
Latest(positions) == CHOOSE i \in positions : \A j \in positions : j <= i
Parsed(lines) == [key \in {lines[i].key : i \in {j \in DOMAIN lines : Counts(lines[j])}}
                      |-> lines[Latest(LinesWith(lines, key))].value]
Without(f, key) == [x \in DOMAIN f \ {key} |-> f[x]]

\* What the daemon may make of a resource Fasit found, for a request with a property
\* map; page is what it got instead of a file, or "".
mapToNaisResource(found, propertyMap, page) ==
    {[name |-> found.alias, type |-> found.type, propertyMap |-> propertyMap,
      properties |-> IF found.type = "applicationproperties"
                     THEN Without(Under(found.properties, Parsed(found.lines)), Properties)
                     ELSE found.properties,
      secret |-> secret,
      certificates |-> IF found.type = "certificate" THEN resolveCertificates(found.files, page)
                                                     ELSE NoEntries,
      ingresses |-> {}] : secret \in resolveSecrets(found.secrets)}

\* Load balancer configurations without a host are passed over; if none is left that
\* is an error, which leads to no ingresses as well.  A host has a path for each root.
NoHost == <<>>
parseLoadBalancerConfig(configs) ==
    UNION {{[host |-> configs[n].host, path |-> configs[n].paths[i]]
              : i \in DOMAIN configs[n].paths}
             : n \in {k \in DOMAIN configs : configs[k].host # NoHost}}

\* The resource they are put in, if there are any.
LoadBalancers(configs) ==
    IF parseLoadBalancerConfig(configs) = {} THEN <<>>
    ELSE <<[name |-> <<>>, type |-> "LoadBalancerConfig", properties |-> NoEntries,
            propertyMap |-> NoEntries, secret |-> NoEntries, certificates |-> NoEntries,
            ingresses |-> parseLoadBalancerConfig(configs)]>>

\* Every application asks for the truststore, and then for what its manifest uses.
DefaultResourceRequests ==
    <<[alias |-> <<"nav", "_", "truststore">>, type |-> "certificate",
       propertyMap |-> [file \in {<<"keystore">>} |->
                            <<"NAV", "_", "TRUSTSTORE", "_", "PATH">>]]>>
ResourceRequests(used) == DefaultResourceRequests \o used
===============================================================================
