--------------------------- MODULE MCDeployRequests ---------------------------
(***************************************************************************)
(* Manifests and Fasit catalogues for model checking DeployRequests.       *)
(***************************************************************************)
EXTENDS DeployRequests, TLC

\* Uses one resource and exposes two.
Service == [skipFasit |-> FALSE, environment |-> TRUE, used |-> {"db"},
            exposed |-> <<"api", "ws">>, allZones |-> FALSE, ingress |-> TRUE]
\* Exposes one in all zones.
Wide == [Service EXCEPT !.used = {}, !.exposed = <<"api">>, !.allZones = TRUE,
                        !.ingress = FALSE]
\* Uses and exposes nothing.
Batch == [Wide EXCEPT !.exposed = <<>>, !.environment = FALSE]
\* Only uses something.
Consumer == [Service EXCEPT !.exposed = <<>>]
\* Leaves Fasit out.
Offline == [Service EXCEPT !.skipFasit = TRUE, !.environment = FALSE]
\* Forgets to name the environment.
Nowhere == [Service EXCEPT !.environment = FALSE]

Everything == {Service, Wide, Batch, Consumer, Offline, Nowhere}
Simple == {Wide, Offline}
Consumers == {Consumer}

\* Nothing, the default, what Service uses too, and one it exposes.
MCCatalogues == {<<>>, <<"truststore">>, <<"truststore", "db">>, <<"truststore", "db", "api">>}

Symmetry == Permutations(Requests)
===============================================================================
