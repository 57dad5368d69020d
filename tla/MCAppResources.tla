--------------------------- MODULE MCAppResources ---------------------------
(***************************************************************************)
(* Manifests for model checking AppResources.                              *)
(***************************************************************************)
EXTENDS AppResources, TLC

Full == [team |-> "aura", redis |-> TRUE, alerts |-> TRUE, ingress |-> TRUE,
         secrets |-> TRUE, builds |-> TRUE]
Teamless == [Full EXCEPT !.team = "none"]
Plain == [team |-> "aura", redis |-> FALSE, alerts |-> FALSE, ingress |-> TRUE,
          secrets |-> FALSE, builds |-> TRUE]
Broken == [Plain EXCEPT !.builds = FALSE]

\* For deploys that meet: with and without secrets, and no Redis, whose two
\* resources are written like the Service.
Rollouts == {[Full EXCEPT !.redis = FALSE], Plain}

\* What a team deploys and deletes.
Everything == {Full}

\* For a deploy and a delete: everything, and a manifest that does not build.
Lifecycles == {Teamless, Broken}

Symmetry == Permutations(Deploys)
===============================================================================
