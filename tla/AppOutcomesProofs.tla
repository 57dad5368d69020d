--------------------------- MODULE AppOutcomesProofs ---------------------------
(***************************************************************************)
(* How the deploys and deletes of AppResources end, for any number of      *)
(* them, of manifests, of scalings and of failed calls: a request fails    *)
(* only for a reason, a delete that answered 200 has removed what it is    *)
(* there to remove, a deploy that answered 200 has left nothing older than *)
(* itself, and the pods of a deploy never miss what they need.             *)
(*                                                                         *)
(* Every step is a step of one handler or of the environment.  Moves says  *)
(* that it leaves the other handlers where they are, WhatHappens what it   *)
(* may do to the cluster, and that everybody under way notices.  The       *)
(* invariants are about the resources a handler has behind it (Passed):    *)
(* Untouched, FreshCopies, Removed, Settled and Reached.                   *)
(***************************************************************************)
EXTENDS AppResourcesProofs

-------------------------------------------------------------------------------
\* The invariants.

\* The copy of a request that nothing disturbed is the object as it is.
Untouched ==
    \A r \in Requests :
      pc[r] = "write" /\ disturbed[r] = {} /\ (r \in Deploys \/ Kind(r) = "alerts")
        => seen[r] = store[Kind(r)]

\* The resource is behind r: done with, or part of a list that was gone through.
Passed(r, kind) ==
    /\ pc[r] # "idle"
    /\ \E i \in 1 .. Len(List(r)) : List(r)[i] = kind /\ (i < at[r] \/ pc[r] = "ok")

\* A handler that has not begun is at the start of its list.
AtTheStart == \A r \in Requests : pc[r] = "idle" => at[r] = 1

\* What a delete has behind it is gone or going, if nobody else makes it.
Removed ==
    \A d \in Deletes : Alone(d) =>
      \A kind \in Kinds \ ({"alerts"} \cup skipped[d]) :
        Passed(d, kind) /\ store[kind].exists => store[kind].dying

\* A copy that would be accepted is the object as it is.
FreshCopies ==
    \A d \in Deploys : pc[d] = "write" /\ seen[d].exists =>
      /\ seen[d].version <= store[Kind(d)].version
      /\ seen[d].version = store[Kind(d)].version => seen[d] = store[Kind(d)]

\* What a resource is like that the deploy has behind it: there, except for a
\* Deployment that was being deleted and a Secret without values, and written by
\* the deploy or by one that overlapped it.
Settled(d, kind) ==
    /\ kind \notin {"deployment", "redis", "secret"} => store[kind].exists
    /\ kind = "secret" /\ manifest[d].secrets => store[kind].exists
    /\ kind \in {"deployment", "redis"} => store[kind].exists \/ store[kind].dying
    /\ kind # "serviceAccount" /\ (store[kind].exists \/ kind \in {"deployment", "redis"})
         => store[kind].author \in Writers(d)
    /\ kind = "alerts" => manifest[d].team \in store[kind].groups

AllSettled ==
    \A d \in Deploys : disturbed[d] \cap Deletes = {} =>
      \A kind \in Kinds : Passed(d, kind) => Settled(d, kind)

\* The deploy whose Deployment is there has come to the Deployment in its list.
Reached ==
    \A d \in Deploys : store["deployment"].author = d =>
      /\ pc[d] # "idle"
      /\ \E i \in 1 .. at[d] : List(d)[i] = "deployment"

-------------------------------------------------------------------------------
\* Steps.

\* A step of r itself.
Own(r) == \/ Begin(r)
          \/ Crash(r)
          \/ r \in Deploys /\ DeployStep(r)
          \/ r \in Deletes /\ DeleteStep(r)

\* A step that leaves r where it is, with what it holds.
Rests(r) == UNCHANGED <<pc[r], at[r], seen[r], skipped[r]>>

\* A handler gets from one place of its list to another by one of two ways.
LEMMA OthersRest ==
    ASSUME TypeOK, NEW r \in Requests, NEW q \in Requests \ {r},
           Advance(q) \/ \E label : Goto(q, label)
    PROVE  UNCHANGED <<pc[r], at[r]>>
  BY DEF TypeOK, Advance, Goto

LEMMA StepsOfOne ==
    ASSUME TypeOK, NEW r \in Requests, NEW q \in Requests \ {r}, Own(q)
    PROVE  Rests(r)
  <1>1. CASE q \in Deploys /\ DeployStep(q)
    <2>1. UNCHANGED <<seen[r], skipped[r]>>
      BY <1>1 DEF TypeOK, DeployStep, GetLeavesAlone, GetToEdit, BuildFails, GetFails,
                  Write, WriteRejected, WriteFails
    <2>2. Advance(q) \/ \E label : Goto(q, label)
      BY <1>1 DEF DeployStep, GetLeavesAlone, GetToEdit, BuildFails, GetFails,
                  Write, WriteRejected, WriteFails
    <2> QED BY <2>1, <2>2, OthersRest DEF Rests
  <1>2. CASE q \in Deletes /\ DeleteStep(q)
    <2>1. UNCHANGED <<seen[r], skipped[r]>>
      BY <1>2 DEF TypeOK, DeleteStep, GetToDelete, GetNothingToDelete, DeleteByName,
                  RemoveAlerts, RemoveAlertsRejected, DeleteFails
    <2>2. Advance(q) \/ \E label : Goto(q, label)
      BY <1>2 DEF DeleteStep, GetToDelete, GetNothingToDelete, DeleteByName,
                  RemoveAlerts, RemoveAlertsRejected, DeleteFails
    <2> QED BY <2>1, <2>2, OthersRest DEF Rests
  <1>3. CASE Begin(q)
    BY <1>3 DEF Begin, TypeOK, Rests
  <1>4. CASE Crash(q)
    BY <1>4, OthersRest DEF Crash, Rests
  <1> QED BY <1>1, <1>2, <1>3, <1>4 DEF Own

\* A step is one of r or leaves it alone; manifests never change.
LEMMA Moves ==
    ASSUME TypeOK, [Next]_vars, NEW r \in Requests
    PROVE  /\ manifest' = manifest
           /\ Own(r) \/ Rests(r)
  <1>1. CASE \E q \in Requests : Own(q)
    <2>1. manifest' = manifest
      BY <1>1 DEF Own, Begin, Crash, DeployStep, GetLeavesAlone, GetToEdit, BuildFails,
                  GetFails, Write, WriteRejected, WriteFails, DeleteStep, GetToDelete,
                  GetNothingToDelete, DeleteByName, RemoveAlerts, RemoveAlertsRejected,
                  DeleteFails
    <2> QED BY <1>1, <2>1, StepsOfOne
  <1>2. CASE \E n \in 1 .. MaxReplicas : Scale(n)
    BY <1>2 DEF Scale, Rests
  <1>3. CASE \E kind \in {"deployment", "redis"} : Collect(kind)
    BY <1>3 DEF Collect, Rests
  <1>4. CASE WriteForeignAlerts
    BY <1>4 DEF WriteForeignAlerts, Rests
  <1>5. CASE UNCHANGED vars
    BY <1>5 DEF vars, Rests
  <1>6. CASE Next
    BY <1>1, <1>2, <1>3, <1>4, <1>6 DEF Next, Own, Requests
  <1> QED BY <1>5, <1>6

\* Everybody else who is under way or has ended knows of it.
Noticed(actor) ==
    \A r \in Requests \ {actor} : pc[r] # "idle" => actor \in disturbed'[r]

\* A deploy's object gets to the cluster.
Sends(d) == /\ pc[d] = "write" /\ Accepts(d)
            /\ store' = [store EXCEPT ![Kind(d)] = Edited(d)]
            /\ Noticed(d)

\* A delete's call takes effect.
Removes(d) == /\ pc[d] = "write"
              /\ \/ /\ Kind(d) # "alerts"
                    /\ store' = [store EXCEPT ![Kind(d)] = Deleted(Kind(d))]
                 \/ /\ Kind(d) = "alerts" /\ Accepts(d)
                    /\ store' = [store EXCEPT !["alerts"] = WithoutGroup(d)]
              /\ Noticed(d)

\* What the environment does to an object: scale a Deployment, remove one that is
\* being deleted, or write somebody else's alerts.
Tended(kind) ==
    /\ store'[kind].version = store[kind].version + 1
    /\ store'[kind].author = store[kind].author
    /\ store'[kind].groups = store[kind].groups
    /\ store'[kind].dying = store[kind].dying
    /\ \/ kind = "deployment" /\ store[kind].exists /\ store'[kind].exists
       \/ kind \in {"deployment", "redis"} /\ store[kind].dying /\ ~store'[kind].exists
       \/ kind = "alerts" /\ store'[kind].exists

Tends == \E actor \in {"autoscaler", "collector", "foreign"} :
           /\ Noticed(actor)
           /\ \A kind \in Kinds : store'[kind] = store[kind] \/ Tended(kind)

\* Who is told of what.
LEMMA DisturbedNotice ==
    ASSUME NEW actor, Disturb(actor)
    PROVE  Noticed(actor) /\ \A r \in Requests : disturbed[r] \subseteq disturbed'[r]
  BY DEF Disturb, Noticed

LEMMA FaultsNotice ==
    ASSUME NEW d \in Requests, NEW effective, DisturbByFault(d, effective)
    PROVE  /\ effective => Noticed(d)
           /\ "fault" \in disturbed'[d]
           /\ \A r \in Requests : disturbed[r] \subseteq disturbed'[r]
  <1>1. \A r \in Requests :
          disturbed'[r] = IF r = d THEN disturbed[r] \cup {"fault"}
                          ELSE IF pc[r] # "idle" /\ effective THEN disturbed[r] \cup {d}
                          ELSE disturbed[r]
    BY DEF DisturbByFault
  <1> QED BY <1>1 DEF Noticed

\* What a step does to the cluster.
LEMMA WhatHappens ==
    ASSUME TypeOK, [Next]_vars
    PROVE  \/ store' = store
           \/ \E d \in Deploys : DeployStep(d) /\ Sends(d)
           \/ \E d \in Deletes : DeleteStep(d) /\ Removes(d)
           \/ Tends
  <1> DEFINE Happens == \/ store' = store
                        \/ \E d \in Deploys : DeployStep(d) /\ Sends(d)
                        \/ \E d \in Deletes : DeleteStep(d) /\ Removes(d)
                        \/ Tends
  <1>0. /\ store \in [Kinds -> Objects]
        /\ "deployment" \in Kinds /\ "alerts" \in Kinds /\ "redis" \in Kinds
    BY DEF TypeOK, Kinds
  <1>1. ASSUME NEW d \in Deploys, DeployStep(d), store' # store
        PROVE  Sends(d)
    <2>1. CASE Write(d)
      BY <2>1, DisturbedNotice DEF Write, Writing, Sends
    <2>2. CASE WriteFails(d)
      <3>1. d \in Requests
        BY DEF Requests
      <3>2. DisturbByFault(d, TRUE) => Noticed(d)
        BY <3>1, FaultsNotice
      <3> QED BY <1>1, <2>2, <3>2 DEF WriteFails, Writing, Sends
    <2> QED BY <1>1, <2>1, <2>2 DEF DeployStep, GetLeavesAlone, GetToEdit, BuildFails,
                                    GetFails, WriteRejected
  <1>2. ASSUME NEW d \in Deletes, DeleteStep(d), store' # store
        PROVE  Removes(d)
    <2>1. CASE DeleteByName(d)
      BY <2>1, DisturbedNotice DEF DeleteByName, Removes
    <2>2. CASE RemoveAlerts(d)
      BY <2>2, DisturbedNotice DEF RemoveAlerts, Removes
    <2>3. CASE DeleteFails(d)
      <3>1. Noticed(d)
        BY <1>2, <2>3, FaultsNotice DEF DeleteFails, Requests
      <3> QED BY <1>2, <2>3, <3>1 DEF DeleteFails, Removes
    <2> QED BY <1>2, <2>1, <2>2, <2>3 DEF DeleteStep, GetToDelete, GetNothingToDelete,
                                          RemoveAlertsRejected
  <1>3. ASSUME NEW n \in 1 .. MaxReplicas, Scale(n)
        PROVE  Tends
    <2>1. Noticed("autoscaler")
      BY <1>3, DisturbedNotice DEF Scale
    <2>2. \A kind \in Kinds : store'[kind] = store[kind] \/ Tended(kind)
      BY <1>0, <1>3 DEF Scale, Tended, Objects
    <2> QED BY <2>1, <2>2 DEF Tends
  <1>4. ASSUME NEW kind \in {"deployment", "redis"}, Collect(kind)
        PROVE  Tends
    <2>1. Noticed("collector")
      BY <1>4, DisturbedNotice DEF Collect
    <2>2. \A other \in Kinds : store'[other] = store[other] \/ Tended(other)
      BY <1>0, <1>4 DEF Collect, Tended, Objects
    <2> QED BY <2>1, <2>2 DEF Tends
  <1>5. ASSUME WriteForeignAlerts
        PROVE  Tends
    <2>1. Noticed("foreign")
      BY <1>5, DisturbedNotice DEF WriteForeignAlerts
    <2>2. \A kind \in Kinds : store'[kind] = store[kind] \/ Tended(kind)
      BY <1>0, <1>5 DEF WriteForeignAlerts, Tended, Objects
    <2> QED BY <2>1, <2>2 DEF Tends
  <1>6. ASSUME NEW r \in Requests, Begin(r) \/ Crash(r)
        PROVE  store' = store
    BY <1>6 DEF Begin, Crash
  <1>7. CASE UNCHANGED vars
    BY <1>7 DEF vars
  <1> QED BY <1>1, <1>2, <1>3, <1>4, <1>5, <1>6, <1>7 DEF Next

\* What was noticed is not forgotten.
LEMMA NoticedForGood ==
    ASSUME TypeOK, [Next]_vars, NEW r \in Requests
    PROVE  disturbed[r] \subseteq disturbed'[r]
  <1>1. CASE disturbed' = disturbed
    BY <1>1
  <1>2. CASE \E actor : Disturb(actor)
    BY <1>2, DisturbedNotice
  <1>3. CASE \E d \in Requests : \E effective : DisturbByFault(d, effective)
    BY <1>3, FaultsNotice
  <1>4. ASSUME NEW d \in Deploys, DeployStep(d), disturbed' # disturbed
        PROVE  Disturb(d) \/ \E effective : DisturbByFault(d, effective)
    BY <1>4 DEF DeployStep, GetLeavesAlone, GetToEdit, BuildFails, GetFails,
                Write, WriteRejected, WriteFails
  <1>5. ASSUME NEW d \in Deletes, DeleteStep(d), disturbed' # disturbed
        PROVE  Disturb(d) \/ \E effective : DisturbByFault(d, effective)
    BY <1>5 DEF DeleteStep, GetToDelete, GetNothingToDelete, DeleteByName,
                RemoveAlerts, RemoveAlertsRejected, DeleteFails
  <1>6. CASE \/ \E n \in 1 .. MaxReplicas : Scale(n)
             \/ \E kind \in {"deployment", "redis"} : Collect(kind)
             \/ WriteForeignAlerts
    BY <1>2, <1>6 DEF Scale, Collect, WriteForeignAlerts
  <1>7. ASSUME NEW q \in Requests, Begin(q) \/ Crash(q)
        PROVE  disturbed' = disturbed
    BY <1>7 DEF Begin, Crash
  <1>8. CASE UNCHANGED vars
    BY <1>1, <1>8 DEF vars
  <1> QED BY <1>1, <1>2, <1>3, <1>4, <1>5, <1>6, <1>7, <1>8 DEF Next, Requests

-------------------------------------------------------------------------------
\* Where the handlers are.

\* Nobody begins twice.
LEMMA NobodyGoesBack ==
    ASSUME TypeOK, [Next]_vars, NEW r \in Requests, pc'[r] = "idle"
    PROVE  Rests(r)
  <1> USE DEF Goto
  <1>0. pc \in [Requests -> Labels]
    BY DEF TypeOK, Labels
  <1>1. \A kind : FirstPc(r, kind) # "idle"
    BY DEF FirstPc
  <1>2. ~Advance(r)
    BY <1>0, <1>1 DEF Advance
  <1>3. ~Begin(r) /\ ~Crash(r)
    BY <1>0, <1>1 DEF Begin, Crash
  <1>4. ~(r \in Deploys /\ DeployStep(r))
    BY <1>0, <1>2 DEF DeployStep, GetLeavesAlone, GetToEdit, BuildFails, GetFails,
                      Write, WriteRejected, WriteFails
  <1>5. ~(r \in Deletes /\ DeleteStep(r))
    BY <1>0, <1>2 DEF DeleteStep, GetToDelete, GetNothingToDelete, DeleteByName,
                      RemoveAlerts, RemoveAlertsRejected, DeleteFails
  <1> QED BY <1>3, <1>4, <1>5, Moves DEF Own

LEMMA StepAtTheStart ==
    ASSUME TypeOK, AtTheStart, [Next]_vars
    PROVE  AtTheStart'
  <1> SUFFICES ASSUME NEW r \in Requests, pc'[r] = "idle"
               PROVE  at'[r] = 1
    BY DEF AtTheStart
  <1> QED BY NobodyGoesBack DEF Rests, AtTheStart

\* What a request is doing depends on where it is and on its manifest.
LEMMA RestingKinds ==
    ASSUME TypeOK, [Next]_vars, NEW r \in Requests, at'[r] = at[r]
    PROVE  List(r)' = List(r) /\ Kind(r)' = Kind(r)
  BY Moves DEF List, Kind

\* A handler that goes on: it has gone on by one resource, or is through.
LEMMA Advances ==
    ASSUME TypeOK, NEW r \in Requests, Advance(r)
    PROVE  \/ /\ at'[r] = at[r] + 1 /\ at[r] # Len(List(r))
              /\ pc'[r] = FirstPc(r, List(r)[at[r] + 1])
           \/ /\ at'[r] = at[r] /\ at[r] = Len(List(r))
              /\ pc'[r] = "ok"
  BY DEF TypeOK, Advance, Goto

-------------------------------------------------------------------------------
\* Failures.

\* How a request comes to be about to write what it read.
LEMMA CopiesAreRead ==
    ASSUME TypeOK, AtTheStart, [Next]_vars, NEW r \in Requests,
           pc'[r] = "write", r \in Deploys \/ Kind(r)' = "alerts"
    PROVE  \/ Rests(r) /\ ~Own(r)
           \/ Kind(r)' = Kind(r) /\ seen'[r] = store[Kind(r)] /\ store' = store
           \/ r \in Deploys /\ GetFails(r)
  <1> USE DEF Goto
  <1>0. /\ pc \in [Requests -> Labels] /\ seen \in [Requests -> Objects]
        /\ manifest' = manifest
    BY Moves DEF TypeOK, Labels
  <1>1. ~Advance(r)
    BY Advances, <1>0 DEF FirstPc, Kind, List
  <1>2. ~Begin(r)
    <2>1. ASSUME Begin(r)
          PROVE  FALSE
      <3>1. pc'[r] = FirstPc(r, List(r)[1]) /\ at[r] = 1 /\ at'[r] = at[r]
        BY <1>0, <2>1 DEF Begin, AtTheStart
      <3>2. r \notin Deploys /\ List(r)[1] = "alerts"
        BY <1>0, <3>1, DeploysGetFirst DEF Kind, List
      <3> QED BY <3>2 DEF List, DeleteList
    <2> QED BY <2>1
  <1>3. ~Crash(r)
    BY <1>0 DEF Crash
  <1>4. CASE r \in Deploys /\ DeployStep(r)
    <2>1. CASE GetToEdit(r)
      BY <1>0, <2>1 DEF GetToEdit, Kind, List
    <2>2. ~GetLeavesAlone(r) /\ ~BuildFails(r) /\ ~Write(r) /\ ~WriteRejected(r)
          /\ ~WriteFails(r)
      BY <1>0, <1>1 DEF GetLeavesAlone, BuildFails, Write, WriteRejected, WriteFails
    <2> QED BY <1>4, <2>1, <2>2 DEF DeployStep
  <1>5. CASE r \in Deletes /\ DeleteStep(r)
    <2>1. CASE GetToDelete(r)
      BY <1>0, <2>1 DEF GetToDelete, Kind, List
    <2>2. /\ ~GetNothingToDelete(r) /\ ~DeleteByName(r) /\ ~RemoveAlerts(r)
          /\ ~RemoveAlertsRejected(r) /\ ~DeleteFails(r)
      BY <1>0, <1>1 DEF GetNothingToDelete, DeleteByName, RemoveAlerts,
                        RemoveAlertsRejected, DeleteFails
    <2> QED BY <1>5, <2>1, <2>2 DEF DeleteStep
  <1> QED BY <1>2, <1>3, <1>4, <1>5, Moves DEF Own

\* An undisturbed request sees nothing change but by itself.
LEMMA OthersDisturb ==
    ASSUME TypeOK, [Next]_vars, NEW r \in Requests, pc[r] # "idle", disturbed'[r] = {}
    PROVE  store' = store \/ Own(r)
  <1>1. \A actor : Noticed(actor) => actor = r
    BY DEF Noticed
  <1>2. r \notin {"autoscaler", "collector", "foreign"}
    BY RequestAssumption
  <1>3. ~Tends
    BY <1>1, <1>2 DEF Tends
  <1> QED BY <1>1, <1>3, WhatHappens DEF Sends, Removes, Own

LEMMA StepUntouched ==
    ASSUME TypeOK, AtTheStart, Untouched, [Next]_vars
    PROVE  Untouched'
  <1> SUFFICES ASSUME NEW r \in Requests, pc'[r] = "write", disturbed'[r] = {},
                      r \in Deploys \/ Kind(r)' = "alerts"
               PROVE  seen'[r] = store'[Kind(r)']
    BY DEF Untouched
  <1>1. CASE Rests(r) /\ ~Own(r)
    <2>1. /\ pc[r] = "write" /\ Kind(r)' = Kind(r) /\ seen'[r] = seen[r]
          /\ disturbed[r] = {}
      BY <1>1, RestingKinds, NoticedForGood DEF Rests
    <2>2. seen[r] = store[Kind(r)]
      BY <2>1 DEF Untouched
    <2>3. store' = store
      BY <1>1, <2>1, OthersDisturb
    <2> QED BY <2>1, <2>2, <2>3
  <1>2. CASE r \in Deploys /\ GetFails(r)
    BY <1>2, FaultsNotice DEF GetFails
  <1> QED BY <1>1, <1>2, CopiesAreRead

\* What would be rejected is not the object as it is.
LEMMA OnlyChangesAreRejected ==
    ASSUME NEW r \in Requests, ~Accepts(r)
    PROVE  seen[r] # store[Kind(r)]
  BY DEF Accepts

LEMMA StepFailuresHaveCauses ==
    ASSUME TypeOK, Untouched, FailuresHaveCauses, [Next]_vars
    PROVE  FailuresHaveCauses'
  <1> USE DEF Goto
  <1> SUFFICES ASSUME NEW r \in Requests, pc'[r] = "failed", disturbed'[r] = {}
               PROVE  r \in Deploys /\ ~manifest'[r].builds
    BY DEF FailuresHaveCauses
  <1>0. /\ pc \in [Requests -> Labels] /\ manifest' = manifest /\ disturbed[r] = {}
    BY Moves, NoticedForGood DEF TypeOK, Labels
  <1>1. ~Advance(r)
    BY Advances DEF FirstPc
  <1>2. \A effective : ~DisturbByFault(r, effective)
    BY FaultsNotice
  <1>3. CASE r \in Deploys /\ DeployStep(r)
    <2>1. ~WriteRejected(r)
      BY <1>0, OnlyChangesAreRejected DEF WriteRejected, Writing, Untouched
    <2>2. CASE BuildFails(r)
      BY <1>0, <1>3, <2>2 DEF BuildFails, Unbuildable
    <2>3. /\ ~GetLeavesAlone(r) /\ ~GetToEdit(r) /\ ~GetFails(r) /\ ~Write(r)
          /\ ~WriteFails(r)
      BY <1>0, <1>1, <1>2 DEF GetLeavesAlone, GetToEdit, GetFails, Write, WriteFails
    <2> QED BY <1>3, <2>1, <2>2, <2>3 DEF DeployStep
  <1>4. ~(r \in Deletes /\ DeleteStep(r))
    <2>1. ~RemoveAlertsRejected(r)
      BY <1>0, OnlyChangesAreRejected DEF RemoveAlertsRejected, Untouched
    <2> QED BY <1>0, <1>1, <1>2, <2>1 DEF DeleteStep, GetToDelete, GetNothingToDelete,
                                           DeleteByName, RemoveAlerts, DeleteFails
  <1>5. ~Begin(r) /\ ~Crash(r)
    BY <1>0 DEF Begin, Crash, FirstPc
  <1>6. CASE Rests(r)
    BY <1>0, <1>6 DEF Rests, FailuresHaveCauses
  <1> QED BY <1>3, <1>4, <1>5, <1>6, Moves DEF Own

\* A request fails only for a reason: a manifest that cannot be built, a failed call,
\* or a change by somebody else.
THEOREM FailuresExplained == Spec => []FailuresHaveCauses
  <1> DEFINE Inv == AtTheStart /\ Untouched /\ FailuresHaveCauses
  <1>1. Init => Inv
    BY DEF Init, AtTheStart, Untouched, FailuresHaveCauses
  <1>2. TypeOK /\ Inv /\ [Next]_vars => Inv'
    BY StepAtTheStart, StepUntouched, StepFailuresHaveCauses
  <1>3. Spec => []TypeOK
    BY TypeCorrect
  <1> QED BY <1>1, <1>2, <1>3, PTL DEF Spec

-------------------------------------------------------------------------------
\* What handlers have behind them.

\* A handler under way stays where it is, perhaps for good, or goes on.
LEMMA OwnSteps ==
    ASSUME TypeOK, NEW r \in Requests, Own(r)
    PROVE  \/ Begin(r)
           \/ Running(r) /\ Advance(r)
           \/ Running(r) /\ at'[r] = at[r] /\ pc'[r] # "ok"
  <1> USE DEF Goto, Running
  <1>0. pc \in [Requests -> Labels]
    BY DEF TypeOK, Labels
  <1>1. CASE r \in Deploys /\ DeployStep(r)
    BY <1>0, <1>1 DEF DeployStep, GetLeavesAlone, GetToEdit, BuildFails, GetFails,
                      Write, WriteRejected, WriteFails, Getting, Writing
  <1>2. CASE r \in Deletes /\ DeleteStep(r)
    BY <1>0, <1>2 DEF DeleteStep, GetToDelete, GetNothingToDelete, DeleteByName,
                      RemoveAlerts, RemoveAlertsRejected, DeleteFails
  <1>3. CASE Crash(r)
    BY <1>0, <1>3 DEF Crash
  <1> QED BY <1>1, <1>2, <1>3 DEF Own

\* A resource gets behind a handler that goes on from it.
LEMMA Passes ==
    ASSUME TypeOK, AtTheStart, [Next]_vars, NEW r \in Requests, NEW kind,
           Passed(r, kind)'
    PROVE  \/ Passed(r, kind)
           \/ Own(r) /\ Running(r) /\ Advance(r) /\ kind = Kind(r)
  <1>1. /\ List(r)' = List(r) /\ at[r] \in Nat
        /\ pc \in [Requests -> Labels]
    BY Moves DEF List, TypeOK, Labels
  <1>2. PICK i \in 1 .. Len(List(r)) : /\ List(r)[i] = kind
                                       /\ i < at'[r] \/ pc'[r] = "ok"
    BY <1>1 DEF Passed
  <1>3. Len(List(r)) \in Nat
    BY ListsAreLists DEF TypeOK
  <1>4. CASE Rests(r)
    BY <1>1, <1>2, <1>4 DEF Rests, Passed
  <1>5. CASE Begin(r)
    <2>1. at'[r] = 1 /\ pc'[r] # "ok"
      BY <1>1, <1>5 DEF Begin, AtTheStart, FirstPc
    <2> QED BY <1>2, <2>1
  <1>6. CASE Running(r) /\ at'[r] = at[r] /\ pc'[r] # "ok"
    BY <1>2, <1>6 DEF Running, Passed
  <1>7. CASE Own(r) /\ Running(r) /\ Advance(r)
    <2>1. i < at[r] \/ i = at[r]
      BY <1>1, <1>2, <1>3, <1>7, Advances DEF FirstPc
    <2>2. i < at[r] => Passed(r, kind)
      BY <1>2, <1>7 DEF Passed, Running
    <2>3. i = at[r] => kind = Kind(r)
      BY <1>2 DEF Kind
    <2> QED BY <1>7, <2>1, <2>2, <2>3
  <1> QED BY <1>4, <1>5, <1>6, <1>7, OwnSteps, Moves

-------------------------------------------------------------------------------
\* Deletes.

LEMMA DeletedIsGoneOrGoing ==
    ASSUME TypeOK, NEW kind \in Kinds
    PROVE  Deleted(kind).exists => Deleted(kind).dying
  <1>1. store[kind] \in Objects
    BY DEF TypeOK
  <1> QED BY <1>1 DEF Deleted, Objects

LEMMA SkippedForGood ==
    ASSUME TypeOK, [Next]_vars, NEW d \in Deletes
    PROVE  skipped[d] \subseteq skipped'[d]
  <1>1. d \in Requests /\ d \notin Deploys /\ skipped \in [Requests -> SUBSET {"redis", "redisService"}]
    BY RequestAssumption DEF TypeOK, Requests
  <1>2. CASE DeleteStep(d)
    BY <1>1, <1>2 DEF DeleteStep, GetToDelete, GetNothingToDelete, DeleteByName,
                      RemoveAlerts, RemoveAlertsRejected, DeleteFails
  <1>3. CASE Begin(d) \/ Crash(d)
    BY <1>3 DEF Begin, Crash
  <1>4. CASE Rests(d)
    BY <1>4 DEF Rests
  <1> QED BY <1>1, <1>2, <1>3, <1>4, Moves DEF Own

\* A delete goes on from what is gone or going, or from what it says it skipped.
LEMMA DeletesGoOn ==
    ASSUME TypeOK, NEW d \in Deletes, Own(d), Running(d), Advance(d),
           Kind(d) # "alerts", Kind(d) \notin skipped'[d]
    PROVE  store'[Kind(d)].exists => store'[Kind(d)].dying
  <1> USE DEF Goto
  <1>0. /\ pc \in [Requests -> Labels] /\ store \in [Kinds -> Objects]
        /\ skipped \in [Requests -> SUBSET {"redis", "redisService"}]
        /\ d \in Requests /\ d \notin Deploys /\ Kind(d) \in Kinds
    BY RequestAssumption, KindsAreKinds DEF TypeOK, Requests, Labels
  <1>1. Deleted(Kind(d)).exists => Deleted(Kind(d)).dying
    BY <1>0, DeletedIsGoneOrGoing
  <1>2. pc'[d] # "crashed"
    BY <1>0, Advances DEF FirstPc
  <1>3. CASE GetToDelete(d)
    <2>1. at'[d] = at[d] /\ pc'[d] = "write"
      BY <1>0, <1>3 DEF GetToDelete
    <2>2. at[d] \in Nat
      BY <1>0 DEF TypeOK
    <2>3. at'[d] = at[d] + 1 \/ pc'[d] = "ok"
      BY <1>0, Advances
    <2> QED BY <2>1, <2>2, <2>3
  <1>4. CASE GetNothingToDelete(d)
    BY <1>4 DEF GetNothingToDelete
  <1>5. CASE DeleteByName(d)
    BY <1>0, <1>1, <1>5 DEF DeleteByName
  <1>6. ~DeleteFails(d)
    <2>1. DeleteFails(d) => pc'[d] = "failed" \/ Kind(d) \in skipped'[d]
      BY <1>0 DEF DeleteFails
    <2> QED BY <2>1, <1>0, Advances DEF FirstPc
  <1>7. ~RemoveAlerts(d) /\ ~RemoveAlertsRejected(d) /\ ~Begin(d) /\ ~Crash(d)
    BY <1>0, <1>2 DEF RemoveAlerts, RemoveAlertsRejected, Begin, Crash, Running
  <1> QED BY <1>0, <1>3, <1>4, <1>5, <1>6, <1>7 DEF Own, DeleteStep

LEMMA StepRemoved ==
    ASSUME TypeOK, AtTheStart, Removed, [Next]_vars
    PROVE  Removed'
  <1> SUFFICES ASSUME NEW d \in Deletes, Alone(d)',
                      NEW kind \in Kinds \ ({"alerts"} \cup skipped'[d]),
                      Passed(d, kind)'
               PROVE  store'[kind].exists => store'[kind].dying
    BY DEF Removed
  <1>0. /\ d \in Requests /\ disturbed'[d] \cap Requests = {}
        /\ store \in [Kinds -> Objects]
    BY DEF Requests, Alone, TypeOK
  <1>1. CASE Passed(d, kind)
    <2>1. Alone(d) /\ kind \notin skipped[d] /\ pc[d] # "idle"
      BY <1>0, <1>1, NoticedForGood, SkippedForGood DEF Alone, Passed
    <2>2. store[kind].exists => store[kind].dying
      BY <1>1, <2>1 DEF Removed
    <2>3. \A q \in Requests : Noticed(q) => q = d
      BY <1>0, <2>1 DEF Noticed
    <2>4. ASSUME NEW q \in Deletes, Removes(q)
          PROVE  store'[kind] = store[kind] \/ store'[kind] = Deleted(kind)
      BY <1>0, <2>4 DEF Removes
    <2>5. CASE Tends
      BY <2>2, <2>5 DEF Tends, Tended
    <2>6. ~ \E q \in Deploys : Sends(q)
      BY <2>3, RequestAssumption DEF Sends, Requests
    <2> QED BY <2>2, <2>4, <2>5, <2>6, WhatHappens, DeletedIsGoneOrGoing
  <1>2. CASE Own(d) /\ Running(d) /\ Advance(d) /\ kind = Kind(d)
    BY <1>2, DeletesGoOn
  <1> QED BY <1>0, <1>1, <1>2, Passes

\* A delete that answered 200 and was alone has left only its role binding, its alert
\* groups, stopping Deployments and the Redis resources it reported.
THEOREM DeletesComplete == Spec => []DeletedAppIsGone
  <1> DEFINE Inv == AtTheStart /\ Removed
  <1>1. Init => Inv
    BY DEF Init, AtTheStart, Removed, Passed, Requests
  <1>2. TypeOK /\ Inv /\ [Next]_vars => Inv'
    BY StepAtTheStart, StepRemoved
  <1>3. Inv => DeletedAppIsGone
    <2> SUFFICES ASSUME Inv, NEW d \in Deletes, pc[d] = "ok", Alone(d),
                        NEW kind \in Kinds \ ({"roleBinding", "alerts"} \cup skipped[d])
                 PROVE  store[kind].exists => store[kind].dying
      BY DEF DeletedAppIsGone
    <2>1. List(d) = DeleteList
      BY RequestAssumption DEF List
    <2>2. \E i \in 1 .. Len(DeleteList) : DeleteList[i] = kind
      <3>1. Len(DeleteList) = 9
        BY DEF DeleteList
      <3>2. kind \in {DeleteList[i] : i \in 1 .. 9}
        BY DEF Kinds, DeleteList
      <3> QED BY <3>1, <3>2
    <2>3. Passed(d, kind)
      BY <2>1, <2>2 DEF Passed
    <2> QED BY <2>3 DEF Removed
  <1>4. Spec => []TypeOK
    BY TypeCorrect
  <1> QED BY <1>1, <1>2, <1>3, <1>4, PTL DEF Spec

-------------------------------------------------------------------------------
\* Deploys.

\* Every change of an object is a new version of it.
LEMMA VersionsGrow ==
    ASSUME TypeOK, [Next]_vars, NEW kind \in Kinds
    PROVE  \/ store'[kind] = store[kind]
           \/ store'[kind].version = store[kind].version + 1
  <1>0. store \in [Kinds -> Objects]
    BY DEF TypeOK
  <1>1. ASSUME NEW d \in Deploys, Sends(d), kind = Kind(d)
        PROVE  store'[kind].version = store[kind].version + 1
    BY <1>0, <1>1 DEF Sends, Edited
  <1>2. ASSUME NEW d \in Deploys, Sends(d), kind # Kind(d)
        PROVE  store'[kind] = store[kind]
    BY <1>0, <1>2 DEF Sends
  <1>3. \/ Deleted(kind) = store[kind]
        \/ Deleted(kind).version = store[kind].version + 1
    <2>1. store[kind] \in Objects
      BY <1>0
    <2> QED BY <2>1 DEF Deleted, Objects
  <1>4. ASSUME NEW d \in Deletes, Removes(d)
        PROVE  \/ store'[kind] = store[kind]
               \/ store'[kind] = Deleted(kind)
               \/ kind = "alerts" /\ store'[kind] = WithoutGroup(d)
    BY <1>0, <1>4 DEF Removes
  <1>5. \A d \in Deletes : WithoutGroup(d).version = store["alerts"].version + 1
    <2>1. store["alerts"] \in Objects
      BY <1>0 DEF Kinds
    <2> QED BY <2>1 DEF WithoutGroup, Objects
  <1>6. CASE Tends
    BY <1>6 DEF Tends, Tended
  <1> QED BY <1>1, <1>2, <1>3, <1>4, <1>5, <1>6, WhatHappens

LEMMA StepFreshCopies ==
    ASSUME TypeOK, AtTheStart, FreshCopies, [Next]_vars
    PROVE  FreshCopies'
  <1> SUFFICES ASSUME NEW d \in Deploys, pc'[d] = "write", seen'[d].exists
               PROVE  /\ seen'[d].version <= store'[Kind(d)'].version
                      /\ seen'[d].version = store'[Kind(d)'].version
                           => seen'[d] = store'[Kind(d)']
    BY DEF FreshCopies
  <1>0. d \in Requests
    BY DEF Requests
  <1>1. Kind(d) \in Kinds /\ store[Kind(d)].version \in Nat /\ seen[d].version \in Nat
    BY <1>0, KindsAreKinds DEF TypeOK, Objects
  <1>2. CASE Rests(d) /\ ~Own(d)
    <2>1. pc[d] = "write" /\ Kind(d)' = Kind(d) /\ seen'[d] = seen[d]
      BY <1>0, <1>2, RestingKinds DEF Rests
    <2>2. /\ seen[d].version <= store[Kind(d)].version
          /\ seen[d].version = store[Kind(d)].version => seen[d] = store[Kind(d)]
      BY <2>1 DEF FreshCopies
    <2>3. \/ store'[Kind(d)] = store[Kind(d)]
          \/ store'[Kind(d)].version = store[Kind(d)].version + 1
      BY <1>1, VersionsGrow
    <2> QED BY <1>1, <2>1, <2>2, <2>3
  <1>3. CASE Kind(d)' = Kind(d) /\ seen'[d] = store[Kind(d)] /\ store' = store
    BY <1>1, <1>3
  <1>4. ~GetFails(d)
    <2>1. GetFails(d) => seen'[d] = NoObject \/ pc'[d] = "failed"
      BY <1>0 DEF GetFails, Goto, TypeOK
    <2>2. ~NoObject.exists
      BY DEF NoObject
    <2> QED BY <2>1, <2>2
  <1> QED BY <1>0, <1>2, <1>3, <1>4, CopiesAreRead

\* A deploy edits the object it replaces: nobody's alerts get lost.
LEMMA EditsKeepGroups ==
    ASSUME FreshCopies, NEW d \in Deploys, Sends(d), Kind(d) = "alerts",
           store["alerts"].exists
    PROVE  store["alerts"].groups \subseteq Edited(d).groups
  <1>1. seen[d].exists /\ seen[d].version = store["alerts"].version
    BY DEF Sends, Accepts
  <1>2. seen[d] = store["alerts"]
    BY <1>1 DEF FreshCopies, Sends
  <1> QED BY <1>2 DEF Edited, EditedGroups

\* A deploy goes on from what is settled.
LEMMA DeploysGoOn ==
    ASSUME TypeOK, [Next]_vars, NEW d \in Deploys, Own(d), Running(d), Advance(d),
           NEW kind, kind = Kind(d)
    PROVE  Settled(d, kind)'
  <1> USE DEF Goto
  <1>0. /\ pc \in [Requests -> Labels] /\ store \in [Kinds -> Objects]
        /\ d \in Requests /\ d \notin Deletes /\ kind \in Kinds
        /\ manifest' = manifest
    BY RequestAssumption, KindsAreKinds, Moves DEF TypeOK, Requests, Labels
  <1>1. CASE GetLeavesAlone(d)
    <2>1. /\ store' = store
          /\ \/ kind = "serviceAccount" /\ store[kind].exists
             \/ kind = "secret" /\ ~store[kind].exists /\ ~manifest[d].secrets
      BY <1>1 DEF GetLeavesAlone, LeftAlone, HasServiceAccount, NeedsNoSecret
    <2> QED BY <1>0, <2>1 DEF Settled
  <1>2. CASE Write(d)
    <2>1. store'[kind] = Edited(d)
      BY <1>0, <1>2 DEF Write
    <2>2. /\ store'[kind].exists /\ store'[kind].author = d
          /\ kind = "alerts" => manifest[d].team \in store'[kind].groups
      BY <2>1 DEF Edited, EditedGroups
    <2> QED BY <1>0, <2>2 DEF Settled, Writers
  <1>3. pc'[d] \in {"get", "ok"}
    BY <1>0, Advances, DeploysGetFirst
  <1>4. /\ ~BuildFails(d) /\ ~WriteRejected(d) /\ ~WriteFails(d)
        /\ ~Begin(d) /\ ~Crash(d) /\ ~GetToEdit(d) /\ ~GetFails(d)
    BY <1>0, <1>3 DEF BuildFails, WriteRejected, WriteFails, Begin, Crash, GetToEdit,
                      GetFails, Running
  <1> QED BY <1>0, <1>1, <1>2, <1>4 DEF Own, DeployStep

\* What is settled stays so, whatever a deploy writes over it.
LEMMA WritesKeepSettled ==
    ASSUME TypeOK, FreshCopies, [Next]_vars, NEW d \in Deploys, pc[d] # "idle",
           NEW kind \in Kinds, Settled(d, kind), NEW e \in Deploys, Sends(e)
    PROVE  Settled(d, kind)'
  <1>0. /\ store \in [Kinds -> Objects] /\ d \in Requests /\ manifest' = manifest
        /\ Writers(d) \subseteq Writers(d)'
    BY Moves, NoticedForGood DEF TypeOK, Requests, Writers
  <1>1. CASE kind # Kind(e)
    <2>1. store'[kind] = store[kind]
      BY <1>0, <1>1 DEF Sends
    <2> QED BY <1>0, <2>1 DEF Settled
  <1>2. CASE kind = Kind(e)
    <2>1. store'[kind] = Edited(e) /\ Edited(e).exists /\ Edited(e).author = e
      BY <1>0, <1>2 DEF Sends, Edited
    <2>2. e \in Writers(d)'
      BY <1>0 DEF Sends, Noticed, Writers
    <2>3. kind = "alerts" => store[kind].exists /\ manifest[d].team \in store[kind].groups
      BY DEF Settled
    <2>4. kind = "alerts" => manifest[d].team \in store'[kind].groups
      BY <1>2, <2>1, <2>3, EditsKeepGroups
    <2> QED BY <1>0, <2>1, <2>2, <2>4 DEF Settled
  <1> QED BY <1>1, <1>2

LEMMA StepAllSettled ==
    ASSUME TypeOK, AtTheStart, FreshCopies, AllSettled, [Next]_vars
    PROVE  AllSettled'
  <1> SUFFICES ASSUME NEW d \in Deploys, disturbed'[d] \cap Deletes = {},
                      NEW kind \in Kinds, Passed(d, kind)'
               PROVE  Settled(d, kind)'
    BY DEF AllSettled
  <1>0. /\ d \in Requests /\ d \notin Deletes /\ manifest' = manifest
        /\ disturbed[d] \subseteq disturbed'[d] /\ Writers(d) \subseteq Writers(d)'
    BY RequestAssumption, Moves, NoticedForGood DEF Requests, Writers
  <1>1. CASE Passed(d, kind)
    <2>1. pc[d] # "idle" /\ Settled(d, kind)
      BY <1>0, <1>1 DEF Passed, AllSettled
    <2>2. CASE store' = store
      BY <1>0, <2>1, <2>2 DEF Settled
    <2>3. CASE \E e \in Deploys : Sends(e)
      BY <2>1, <2>3, WritesKeepSettled
    <2>4. ~ \E e \in Deletes : Removes(e)
      BY <1>0, <2>1 DEF Removes, Noticed
    <2>5. CASE Tends
      <3>1. store'[kind] = store[kind] \/ Tended(kind)
        BY <2>5 DEF Tends
      <3>2. CASE store'[kind] = store[kind]
        BY <1>0, <2>1, <3>2 DEF Settled
      <3>3. CASE Tended(kind)
        BY <1>0, <2>1, <3>3 DEF Settled, Tended
      <3> QED BY <3>1, <3>2, <3>3
    <2> QED BY <2>2, <2>3, <2>4, <2>5, WhatHappens
  <1>2. CASE Own(d) /\ Running(d) /\ Advance(d) /\ kind = Kind(d)
    BY <1>2, DeploysGoOn
  <1> QED BY <1>0, <1>1, <1>2, Passes

LEMMA ReachableSettled ==
    Spec => [](TypeOK /\ AtTheStart /\ FreshCopies /\ AllSettled)
  <1> DEFINE Inv == AtTheStart /\ FreshCopies /\ AllSettled
  <1>1. Init => Inv
    BY DEF Init, AtTheStart, FreshCopies, AllSettled, Passed, Requests
  <1>2. TypeOK /\ Inv /\ [Next]_vars => Inv'
    BY StepAtTheStart, StepFreshCopies, StepAllSettled
  <1>3. Spec => []TypeOK
    BY TypeCorrect
  <1> QED BY <1>1, <1>2, <1>3, PTL DEF Spec

-------------------------------------------------------------------------------
\* The list of a deploy.

Holds(list, kind) == \E i \in 1 .. Len(list) : list[i] = kind

\* A list is the beginning of any list it is continued to.
Begins(front, list) == /\ Len(front) <= Len(list)
                       /\ \A i \in 1 .. Len(front) : list[i] = front[i]

LEMMA Joining ==
    ASSUME NEW front \in Seq(Kinds), NEW back \in Seq(Kinds), NEW kind
    PROVE  /\ front \o back \in Seq(Kinds)
           /\ Begins(front, front \o back)
           /\ Holds(front \o back, kind) <=> Holds(front, kind) \/ Holds(back, kind)
  <1>1. /\ front \o back \in Seq(Kinds)
        /\ Len(front \o back) = Len(front) + Len(back)
        /\ Len(front) \in Nat /\ Len(back) \in Nat
        /\ \A i \in 1 .. Len(front) + Len(back) :
             (front \o back)[i] = IF i <= Len(front) THEN front[i] ELSE back[i - Len(front)]
    BY ConcatProperties, LenProperties
  <1>2. Begins(front, front \o back)
    BY <1>1 DEF Begins
  <1>3. ASSUME Holds(front \o back, kind)
        PROVE  Holds(front, kind) \/ Holds(back, kind)
    <2>1. PICK i \in 1 .. Len(front) + Len(back) : (front \o back)[i] = kind
      BY <1>1, <1>3 DEF Holds
    <2>2. CASE i <= Len(front)
      BY <1>1, <2>1, <2>2 DEF Holds
    <2>3. CASE ~(i <= Len(front))
      <3>1. i - Len(front) \in 1 .. Len(back) /\ back[i - Len(front)] = kind
        BY <1>1, <2>1, <2>3
      <3> QED BY <3>1 DEF Holds
    <2> QED BY <2>2, <2>3
  <1>4. ASSUME Holds(front, kind)
        PROVE  Holds(front \o back, kind)
    BY <1>1, <1>4 DEF Holds
  <1>5. ASSUME Holds(back, kind)
        PROVE  Holds(front \o back, kind)
    <2>1. PICK i \in 1 .. Len(back) : back[i] = kind
      BY <1>5 DEF Holds
    <2>2. /\ i + Len(front) \in 1 .. Len(front) + Len(back)
          /\ (front \o back)[i + Len(front)] = kind
      BY <1>1, <2>1
    <2> QED BY <1>1, <2>2 DEF Holds
  <1> QED BY <1>1, <1>2, <1>3, <1>4, <1>5

\* The list of a deploy: what its pods need, the Deployment, and the rest.
LEMMA DeployLists ==
    ASSUME NEW m \in Manifests
    PROVE  /\ \A kind : Holds(DeployList(m), kind) <=>
                 \/ kind \in {"serviceAccount", "roleBinding", "service", "deployment",
                              "secret", "autoscaler"}
                 \/ kind \in {"redis", "redisService"} /\ m.redis
                 \/ kind = "alerts" /\ m.alerts
                 \/ kind = "ingress" /\ m.ingress
           /\ \E front \in Seq(Kinds) :
                /\ Begins(front, DeployList(m))
                /\ \A kind : Holds(front, kind) <=>
                     \/ kind \in {"serviceAccount", "roleBinding", "service"}
                     \/ kind \in {"redis", "redisService"} /\ m.redis
  <1> DEFINE first == <<"serviceAccount", "roleBinding", "service">>
             redis == When(m.redis, <<"redis", "redisService">>)
             middle == <<"deployment", "secret", "autoscaler">>
             alerts == When(m.alerts, <<"alerts">>)
             ingress == When(m.ingress, <<"ingress">>)
  <1>1. first \in Seq(Kinds) /\ middle \in Seq(Kinds)
    BY DEF Kinds
  <1>2. redis \in Seq(Kinds) /\ alerts \in Seq(Kinds) /\ ingress \in Seq(Kinds)
    <2>1. /\ <<"redis", "redisService">> \in Seq(Kinds)
          /\ <<"alerts">> \in Seq(Kinds)
          /\ <<"ingress">> \in Seq(Kinds)
      BY DEF Kinds
    <2> QED BY <2>1, WhenIsList
  <1>3. /\ \A kind : Holds(first, kind) <=> kind \in {"serviceAccount", "roleBinding", "service"}
        /\ \A kind : Holds(middle, kind) <=> kind \in {"deployment", "secret", "autoscaler"}
    BY DEF Holds
  <1>4. \A kind : Holds(redis, kind) <=> kind \in {"redis", "redisService"} /\ m.redis
    BY DEF Holds, When
  <1>5. \A kind : Holds(alerts, kind) <=> kind = "alerts" /\ m.alerts
    BY DEF Holds, When
  <1>6. \A kind : Holds(ingress, kind) <=> kind = "ingress" /\ m.ingress
    BY DEF Holds, When
  <1>7. DeployList(m) = (((first \o redis) \o middle) \o alerts) \o ingress
    BY DEF DeployList
  <1> HIDE DEF first, redis, middle, alerts, ingress
  <1> DEFINE front == first \o redis
             third == front \o middle
             fourth == third \o alerts
  <1>8. /\ front \in Seq(Kinds)
        /\ \A kind : Holds(front, kind) <=> Holds(first, kind) \/ Holds(redis, kind)
    BY <1>1, <1>2, Joining
  <1> HIDE DEF front
  <1>9. /\ third \in Seq(Kinds) /\ Begins(front, third)
        /\ \A kind : Holds(third, kind) <=> Holds(front, kind) \/ Holds(middle, kind)
    BY <1>1, <1>8, Joining
  <1> HIDE DEF third
  <1>10. /\ fourth \in Seq(Kinds) /\ Begins(third, fourth)
         /\ \A kind : Holds(fourth, kind) <=> Holds(third, kind) \/ Holds(alerts, kind)
    BY <1>2, <1>9, Joining
  <1> HIDE DEF fourth
  <1>11. DeployList(m) = fourth \o ingress
    BY <1>7 DEF front, third, fourth
  <1>12. /\ DeployList(m) \in Seq(Kinds) /\ Begins(fourth, DeployList(m))
         /\ \A kind : Holds(DeployList(m), kind) <=> Holds(fourth, kind) \/ Holds(ingress, kind)
    BY <1>2, <1>10, <1>11, Joining
  <1>13. Begins(front, DeployList(m))
    <2>1. /\ Len(front) \in Nat /\ Len(third) \in Nat /\ Len(fourth) \in Nat
          /\ Len(DeployList(m)) \in Nat
      BY <1>8, <1>9, <1>10, <1>12, LenProperties
    <2> QED BY <1>9, <1>10, <1>12, <2>1 DEF Begins
  <1>14. \A kind : Holds(front, kind) <=>
                     \/ kind \in {"serviceAccount", "roleBinding", "service"}
                     \/ kind \in {"redis", "redisService"} /\ m.redis
    BY <1>3, <1>4, <1>8
  <1>15. \A kind : Holds(DeployList(m), kind) <=>
                 \/ kind \in {"serviceAccount", "roleBinding", "service", "deployment",
                              "secret", "autoscaler"}
                 \/ kind \in {"redis", "redisService"} /\ m.redis
                 \/ kind = "alerts" /\ m.alerts
                 \/ kind = "ingress" /\ m.ingress
    BY <1>3, <1>5, <1>6, <1>9, <1>10, <1>12, <1>14
  <1> QED BY <1>8, <1>13, <1>14, <1>15

\* A deploy that answered 200 while the application was not being deleted has left what
\* its manifest asks for, in its own version or in that of a deploy it overlapped.
THEOREM DeploysComplete == Spec => []DeployedAppIsItsManifest
  <1>1. ASSUME TypeOK, AllSettled
        PROVE  DeployedAppIsItsManifest
    <2> SUFFICES ASSUME NEW d \in Deploys, pc[d] = "ok", disturbed[d] \cap Deletes = {}
                 PROVE  /\ \A kind \in Kinds : Present(manifest[d], kind) =>
                             \/ store[kind].exists /\ store[kind].author \in Writers(d)
                             \/ store[kind].exists /\ kind = "serviceAccount"
                             \/ store[kind].dying /\ store[kind].author \in Writers(d)
                        /\ store["secret"].exists => store["secret"].author \in Writers(d)
                        /\ manifest[d].alerts =>
                             manifest[d].team \in store["alerts"].groups
      BY DEF DeployedAppIsItsManifest
    <2>1. manifest[d] \in Manifests /\ List(d) = DeployList(manifest[d])
      BY <1>1 DEF TypeOK, List
    <2>2. \A kind \in Kinds : Holds(List(d), kind) => Settled(d, kind)
      BY <1>1 DEF AllSettled, Passed, Holds
    <2>3. \A kind \in Kinds : Present(manifest[d], kind) => Holds(List(d), kind)
      BY <2>1, DeployLists DEF Present
    <2>4. Holds(List(d), "secret") /\ "secret" \in Kinds
      BY <2>1, DeployLists DEF Kinds
    <2>5. "alerts" \in Kinds /\ (manifest[d].alerts => Holds(List(d), "alerts"))
      BY <2>1, DeployLists DEF Kinds
    <2>6. ASSUME NEW kind \in Kinds, Present(manifest[d], kind)
          PROVE  \/ store[kind].exists /\ store[kind].author \in Writers(d)
                 \/ store[kind].exists /\ kind = "serviceAccount"
                 \/ store[kind].dying /\ store[kind].author \in Writers(d)
      <3>1. Settled(d, kind)
        BY <2>2, <2>3, <2>6
      <3>2. kind = "secret" => manifest[d].secrets
        BY <2>6 DEF Present
      <3> QED BY <3>1, <3>2 DEF Settled
    <2>7. store["secret"].exists => store["secret"].author \in Writers(d)
      BY <2>2, <2>4 DEF Settled
    <2>8. manifest[d].alerts => manifest[d].team \in store["alerts"].groups
      BY <2>2, <2>5 DEF Settled
    <2> QED BY <2>6, <2>7, <2>8
  <1>2. TypeOK /\ AtTheStart /\ FreshCopies /\ AllSettled => DeployedAppIsItsManifest
    BY <1>1
  <1> QED BY <1>2, ReachableSettled, PTL

-------------------------------------------------------------------------------
\* The Deployment comes after what its pods need.

LEMMA HandlersGoForward ==
    ASSUME TypeOK, AtTheStart, [Next]_vars, NEW r \in Requests
    PROVE  at[r] <= at'[r]
  <1>1. at[r] \in Nat
    BY DEF TypeOK
  <1>2. Begin(r) \/ Rests(r) => at'[r] = at[r]
    BY DEF Begin, Rests
  <1> QED BY <1>1, <1>2, Moves, OwnSteps, Advances

\* A Deployment gets a new author by that deploy's write of it.
LEMMA NewAuthors ==
    ASSUME TypeOK, [Next]_vars, NEW d \in Deploys,
           store'["deployment"].author = d, store["deployment"].author # d
    PROVE  pc[d] = "write" /\ Kind(d) = "deployment"
  <1>0. store \in [Kinds -> Objects] /\ "deployment" \in Kinds
    BY DEF TypeOK, Kinds
  <1>1. ASSUME NEW e \in Deploys, Sends(e)
        PROVE  pc[d] = "write" /\ Kind(d) = "deployment"
    <2>1. Kind(e) = "deployment"
      BY <1>0, <1>1 DEF Sends
    <2>2. store'["deployment"].author = e
      BY <1>0, <1>1, <2>1 DEF Sends, Edited
    <2> QED BY <1>1, <2>1, <2>2 DEF Sends
  <1>2. Deleted("deployment").author = store["deployment"].author
    BY <1>0 DEF Deleted, Objects
  <1>3. ~ \E e \in Deletes : Removes(e)
    BY <1>0, <1>2 DEF Removes
  <1>4. ~Tends
    BY <1>0 DEF Tends, Tended
  <1> QED BY <1>1, <1>3, <1>4, WhatHappens

LEMMA StepReached ==
    ASSUME TypeOK, AtTheStart, Reached, [Next]_vars
    PROVE  Reached'
  <1> SUFFICES ASSUME NEW d \in Deploys, store'["deployment"].author = d
               PROVE  /\ pc'[d] # "idle"
                      /\ \E i \in 1 .. at'[d] : List(d)'[i] = "deployment"
    BY DEF Reached
  <1>0. /\ d \in Requests /\ List(d)' = List(d)
        /\ at[d] \in Nat \ {0} /\ at'[d] \in Nat /\ at[d] <= at'[d]
    BY Moves, StepTypeOK, HandlersGoForward DEF Requests, List, TypeOK
  <1>1. pc[d] # "idle" /\ \E i \in 1 .. at[d] : List(d)[i] = "deployment"
    <2>1. CASE store["deployment"].author = d
      BY <2>1 DEF Reached
    <2>2. CASE store["deployment"].author # d
      <3>1. pc[d] = "write" /\ List(d)[at[d]] = "deployment"
        BY <2>2, NewAuthors DEF Kind
      <3>2. at[d] \in 1 .. at[d]
        BY <1>0
      <3> QED BY <3>1, <3>2
    <2> QED BY <2>1, <2>2
  <1>2. pc'[d] # "idle"
    BY <1>0, <1>1, NobodyGoesBack DEF Rests
  <1> QED BY <1>0, <1>1, <1>2

\* Whatever the manifest, what pods need comes before the Deployment.
LEMMA NeedsComeFirst ==
    ASSUME TypeOK, NEW d \in Deploys, pc[d] # "idle",
           NEW i \in 1 .. at[d], List(d)[i] = "deployment", NEW kind,
           \/ kind \in {"serviceAccount", "roleBinding", "service"}
           \/ kind \in {"redis", "redisService"} /\ manifest[d].redis
    PROVE  Passed(d, kind)
  <1>1. /\ manifest[d] \in Manifests /\ List(d) = DeployList(manifest[d])
        /\ at[d] \in Nat /\ at[d] <= Len(List(d))
    BY DEF TypeOK, List, Requests
  <1>2. Len(List(d)) \in Nat
    BY ListsAreLists DEF TypeOK, Requests
  <1>3. PICK front \in Seq(Kinds) :
          /\ Begins(front, List(d))
          /\ \A k : Holds(front, k) <=>
               \/ k \in {"serviceAccount", "roleBinding", "service"}
               \/ k \in {"redis", "redisService"} /\ manifest[d].redis
    BY <1>1, DeployLists
  <1>4. Len(front) \in Nat
    BY LenProperties
  <1>5. ~(i <= Len(front))
    <2>1. ~Holds(front, "deployment")
      BY <1>3
    <2> QED BY <1>3, <1>4, <2>1 DEF Begins, Holds
  <1>6. PICK j \in 1 .. Len(front) : front[j] = kind
    BY <1>3 DEF Holds
  <1>7. List(d)[j] = kind /\ j < at[d] /\ j \in 1 .. Len(List(d))
    BY <1>1, <1>2, <1>3, <1>4, <1>5, <1>6 DEF Begins
  <1> QED BY <1>7 DEF Passed

\* The pods of a deploy whose application is not being deleted always have the service
\* account, the role binding and the service they need, and the Redis, unless it is one
\* that had been marked by an earlier delete and was collected since.
THEOREM PodsProvided == Spec => []PodsHaveWhatTheyNeed
  <1>1. Init => Reached
    <2>1. ASSUME Init
          PROVE  store["deployment"].author = Earlier
      <3>1. NoObject.author = Earlier /\ "deployment" \in Kinds
        BY DEF NoObject, Kinds
      <3>2. \A b \in BOOLEAN : Fresh(b)["deployment"] = NoObject
        BY <3>1 DEF Fresh
      <3>3. \A m \in Manifests : Deployed(m)["deployment"].author = Earlier
        BY <3>1 DEF Deployed, NoObject
      <3> QED BY <2>1, <3>1, <3>2, <3>3 DEF Init
    <2> QED BY <2>1, RequestAssumption DEF Reached
  <1>2. TypeOK /\ AtTheStart /\ Reached /\ [Next]_vars => Reached'
    BY StepReached
  <1>3. ASSUME TypeOK, AllSettled, Reached
        PROVE  PodsHaveWhatTheyNeed
    <2> SUFFICES ASSUME NEW d \in Deploys, store["deployment"].author = d,
                        disturbed[d] \cap Deletes = {}
                 PROVE  /\ \A kind \in {"serviceAccount", "roleBinding", "service"} :
                             store[kind].exists
                        /\ manifest[d].redis =>
                             /\ store["redisService"].exists
                             /\ store["redis"].exists \/ store["redis"].dying
      BY DEF PodsHaveWhatTheyNeed
    <2>1. ASSUME NEW kind, \/ kind \in {"serviceAccount", "roleBinding", "service"}
                           \/ kind \in {"redis", "redisService"} /\ manifest[d].redis
          PROVE  Settled(d, kind)
      <3>1. Passed(d, kind)
        BY <1>3, <2>1, NeedsComeFirst DEF Reached
      <3>2. kind \in Kinds
        BY <2>1 DEF Kinds
      <3> QED BY <1>3, <3>1, <3>2 DEF AllSettled
    <2>2. \A kind \in {"serviceAccount", "roleBinding", "service"} : store[kind].exists
      BY <2>1 DEF Settled
    <2>3. manifest[d].redis => store["redisService"].exists
      BY <2>1 DEF Settled
    <2>4. manifest[d].redis => store["redis"].exists \/ store["redis"].dying
      BY <2>1 DEF Settled
    <2> QED BY <2>2, <2>3, <2>4
  <1>4. (TypeOK /\ AtTheStart /\ FreshCopies /\ AllSettled) /\ Reached
          => PodsHaveWhatTheyNeed
    BY <1>3
  <1> QED BY <1>1, <1>2, <1>4, ReachableSettled, PTL DEF Spec

===============================================================================
