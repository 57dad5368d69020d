----------------------------- MODULE MCAlertRules -----------------------------
(***************************************************************************)
(* Two applications in one namespace, of a team and of none, with names    *)
(* chosen so that no two of them share a prefix, and requests of either    *)
(* kind for any of them.                                                   *)
(***************************************************************************)
EXTENDS AlertRules, TLC

MCTeams == {<<"aura">>}
MCApps == {<<"web">>, <<"batch">>}
MCNamespaces == {<<"default">>}
MCAlertSets == {{}, {"down"}, {"slow"}}

Symmetry == Permutations(Requests)
===============================================================================
