---------------------------- MODULE DeploymentEvents ----------------------------
(***************************************************************************)
(* What a deployment event says, and what its readers make of its time     *)
(* (api/deploymentevent.go, pkg/event/timestamp.go).                       *)
(*                                                                         *)
(* Times are whole numbers of ticks; a second has Second of them (10^9     *)
(* nanoseconds in the code) and the second part of a timestamp is Width    *)
(* ticks wide (2^32, of an int32).                                         *)
(***************************************************************************)
EXTENDS Integers, Sequences

CONSTANTS Second, Width

ASSUME TimeAssumption == Second \in Nat \ {0} /\ Width \in Nat /\ Width > Second

\* Conversion to a signed integer that wide.
Signed(x) == ((x + Width \div 2) % Width) - Width \div 2

\* A plausible bug: the conversion is to an unsigned integer.
convertTimestampUnsigned(now) == [seconds |-> now \div Second, nanos |-> now % Width]

\* The second part is all of the time, as much of it as fits.
convertTimestamp(now) == [seconds |-> now \div Second, nanos |-> Signed(now)]

GetTimestampAsTime(timestamp) == timestamp.seconds * Second + timestamp.nanos

environment(request) == IF request.environment = "p" THEN "production" ELSE "development"

\* A version is [tag, digest], each "" if there is none.  What follows an @ is the
\* digest, and takes the place of the tag.
hashtag(version) ==
    IF version.digest # "" THEN [hash |-> version.digest, tag |-> ""]
    ELSE [hash |-> "", tag |-> version.tag]

\* A plausible bug: the name is told as it is written.
RepositoryAsWritten(image) == [registry |-> image.registry, path |-> image.path]

\* The name in full: a name without a registry is one of Docker Hub, where one without
\* an organisation is in the library.
Repository(image) ==
    LET registry == IF image.registry = "" THEN "docker.io" ELSE image.registry
    IN [registry |-> registry,
        path |-> IF registry = "docker.io" /\ Len(image.path) = 1
                 THEN <<"library">> \o image.path ELSE image.path]

\* A reference that Docker cannot parse leads to an event with an empty image.
NoRepository == [registry |-> "", path |-> <<>>]
ContainerImage(image, version) ==
    IF version.tag = "unparsable" THEN [name |-> NoRepository, hash |-> "", tag |-> ""]
    ELSE [name |-> Repository(image), hash |-> hashtag(version).hash,
          tag |-> hashtag(version).tag]

NewDeploymentEvent(request, m, now) ==
    LET image == ContainerImage(m.image, request.version)
    IN [application |-> request.application, namespace |-> request.namespace,
        environment |-> environment(request), skyaEnvironment |-> request.environment,
        cluster |-> request.cluster, version |-> image.tag, image |-> image,
        timestamp |-> convertTimestamp(now)]
===============================================================================
