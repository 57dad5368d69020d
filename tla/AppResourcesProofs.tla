-------------------------- MODULE AppResourcesProofs --------------------------
(***************************************************************************)
(* For any number of deploys, deletes, manifests, scalings and failed      *)
(* calls: AppResources keeps its type, and no deploy undoes a scaling.     *)
(*                                                                         *)
(* The inductive invariant behind the second result is FreshReplicas: a    *)
(* copy of the Deployment that is about to be written, and would be        *)
(* accepted, has the replicas the Deployment has now.                      *)
(***************************************************************************)
EXTENDS AppResources, SequenceTheorems, TLAPS

-------------------------------------------------------------------------------
\* Lists of resources.

LEMMA WhenIsList ==
    ASSUME NEW condition, NEW kinds \in Seq(Kinds)
    PROVE  When(condition, kinds) \in Seq(Kinds) /\ Len(When(condition, kinds)) \in Nat
  <1>1. CASE condition
    BY <1>1, LenProperties DEF When
  <1>2. CASE ~condition
    BY <1>2, EmptySeq DEF When
  <1> QED BY <1>1, <1>2

LEMMA JoinedLists ==
    ASSUME NEW front \in Seq(Kinds), NEW back \in Seq(Kinds)
    PROVE  front \o back \in Seq(Kinds) /\ Len(front \o back) = Len(front) + Len(back)
  BY ConcatProperties

\* Every list is a non-empty sequence of resources.
LEMMA ListsAreLists ==
    ASSUME manifest \in [Deploys -> Manifests], NEW r \in Requests
    PROVE  List(r) \in Seq(Kinds) /\ Len(List(r)) \in Nat \ {0}
  <1>1. ASSUME NEW n \in Manifests
        PROVE  DeployList(n) \in Seq(Kinds) /\ Len(DeployList(n)) \in Nat \ {0}
    <2> DEFINE front == <<"serviceAccount", "roleBinding", "service">>
               redis == When(n.redis, <<"redis", "redisService">>)
               middle == <<"deployment", "secret", "autoscaler">>
               alerts == When(n.alerts, <<"alerts">>)
               ingress == When(n.ingress, <<"ingress">>)
    <2>1. /\ front \in Seq(Kinds) /\ Len(front) = 3
          /\ middle \in Seq(Kinds) /\ Len(middle) = 3
      BY DEF Kinds
    <2>2. /\ <<"redis", "redisService">> \in Seq(Kinds)
          /\ <<"alerts">> \in Seq(Kinds)
          /\ <<"ingress">> \in Seq(Kinds)
      BY DEF Kinds
    <2>3. /\ redis \in Seq(Kinds) /\ Len(redis) \in Nat
          /\ alerts \in Seq(Kinds) /\ Len(alerts) \in Nat
          /\ ingress \in Seq(Kinds) /\ Len(ingress) \in Nat
      BY <2>2, WhenIsList
    <2>4. DeployList(n) = (((front \o redis) \o middle) \o alerts) \o ingress
      BY DEF DeployList
    <2> HIDE DEF front, redis, middle, alerts, ingress
    <2>5. front \o redis \in Seq(Kinds) /\ Len(front \o redis) = 3 + Len(redis)
      BY <2>1, <2>3, JoinedLists
    <2>6. /\ (front \o redis) \o middle \in Seq(Kinds)
          /\ Len((front \o redis) \o middle) = 6 + Len(redis)
      BY <2>1, <2>3, <2>5, JoinedLists
    <2>7. /\ ((front \o redis) \o middle) \o alerts \in Seq(Kinds)
          /\ Len(((front \o redis) \o middle) \o alerts) = 6 + Len(redis) + Len(alerts)
      BY <2>3, <2>6, JoinedLists
    <2>8. /\ DeployList(n) \in Seq(Kinds)
          /\ Len(DeployList(n)) = 6 + Len(redis) + Len(alerts) + Len(ingress)
      BY <2>3, <2>4, <2>7, JoinedLists
    <2> QED BY <2>3, <2>8
  <1>2. DeleteList \in Seq(Kinds) /\ Len(DeleteList) \in Nat \ {0}
    BY DEF DeleteList, Kinds
  <1>3. r \in Deploys => manifest[r] \in Manifests
    OBVIOUS
  <1> QED BY <1>1, <1>2, <1>3 DEF List

\* A request is always at a resource.
LEMMA KindsAreKinds ==
    ASSUME TypeOK, NEW r \in Requests
    PROVE  Kind(r) \in Kinds
  BY ListsAreLists DEF Kind, TypeOK

\* A deploy that was at a resource and goes on does not write at once.
LEMMA DeploysGetFirst ==
    ASSUME NEW d \in Deploys, NEW kind
    PROVE  FirstPc(d, kind) = "get"
  BY DEF FirstPc

-------------------------------------------------------------------------------
\* Type correctness.

Labels == {"idle", "get", "write", "ok", "failed", "panicked", "crashed"}

Actors == Requests \cup {"autoscaler", "collector", "foreign", "fault"}

\* Where the handlers are, as far as TypeOK speaks of it.
PositionsOK == /\ pc \in [Requests -> Labels]
               /\ at \in [Requests -> Nat \ {0}]
               /\ \A r \in Requests : at[r] <= Len(List(r))

LEMMA AdvanceKeepsPositions ==
    ASSUME TypeOK, NEW r \in Requests, Advance(r), UNCHANGED manifest
    PROVE  PositionsOK'
  <1>1. Len(List(r)) \in Nat
    BY ListsAreLists DEF TypeOK
  <1>2. \A q \in Requests : List(q)' = List(q)
    BY DEF List
  <1>3. \A kind : FirstPc(r, kind) \in Labels
    BY DEF FirstPc, Labels
  <1>4. CASE at[r] = Len(List(r))
    BY <1>2, <1>4 DEF Advance, Goto, TypeOK, PositionsOK, Labels
  <1>5. CASE at[r] # Len(List(r))
    <2>1. at[r] \in Nat /\ at[r] + 1 <= Len(List(r))
      BY <1>1, <1>5 DEF TypeOK
    <2>2. at' = [at EXCEPT ![r] = @ + 1] /\ pc' \in [Requests -> Labels]
      BY <1>3, <1>5 DEF Advance, TypeOK, Labels
    <2>3. at' \in [Requests -> Nat \ {0}]
      BY <2>1, <2>2 DEF TypeOK
    <2>4. \A q \in Requests : at'[q] <= Len(List(q))
      BY <2>1, <2>2 DEF TypeOK
    <2> QED BY <1>2, <2>2, <2>3, <2>4 DEF PositionsOK
  <1> QED BY <1>4, <1>5

LEMMA GotoKeepsPositions ==
    ASSUME TypeOK, NEW r \in Requests, NEW label \in Labels, Goto(r, label),
           UNCHANGED manifest
    PROVE  PositionsOK'
  BY DEF Goto, TypeOK, PositionsOK, Labels, List

LEMMA DisturbedKeepsType ==
    ASSUME TypeOK, NEW actor \in Actors,
           \/ Disturb(actor)
           \/ actor \in Requests /\ \E b \in BOOLEAN : DisturbByFault(actor, b)
    PROVE  disturbed' \in [Requests -> SUBSET Actors]
  <1>1. \A q \in Requests : /\ disturbed[q] \in SUBSET Actors
                            /\ disturbed[q] \cup {actor} \in SUBSET Actors
                            /\ disturbed[q] \cup {"fault"} \in SUBSET Actors
    BY DEF TypeOK, Actors
  <1>2. CASE Disturb(actor)
    BY <1>1, <1>2 DEF Disturb
  <1>3. ASSUME NEW b \in BOOLEAN, DisturbByFault(actor, b)
        PROVE  disturbed' \in [Requests -> SUBSET Actors]
    <2>1. \A q \in Requests : disturbed'[q] \in {disturbed[q], disturbed[q] \cup {actor},
                                                 disturbed[q] \cup {"fault"}}
      BY <1>3 DEF DisturbByFault
    <2>2. disturbed' = [q \in Requests |-> disturbed'[q]]
      BY <1>3 DEF DisturbByFault
    <2> QED BY <1>1, <2>1, <2>2
  <1> QED BY <1>2, <1>3

\* What the handlers send is an object again.
LEMMA SentObjectsAreObjects ==
    ASSUME TypeOK
    PROVE  /\ \A d \in Deploys : Edited(d) \in Objects
           /\ \A kind \in Kinds : Deleted(kind) \in Objects
           /\ \A d \in Deletes : WithoutGroup(d) \in Objects
  <1>1. ASSUME NEW d \in Deploys
        PROVE  Edited(d) \in Objects
    <2>1. store[Kind(d)] \in Objects /\ seen[d] \in Objects
      BY KindsAreKinds DEF TypeOK, Requests
    <2>2. manifest[d].team \in Teams \cup {NoTeam}
      BY ManifestAssumption DEF TypeOK
    <2>3. seen[d].groups \cup {manifest[d].team} \in SUBSET (Teams \cup {NoTeam})
      BY <2>1, <2>2 DEF Objects
    <2> QED BY <2>1, <2>3, BoundAssumption DEF Edited, EditedReplicas, EditedGroups, Objects
  <1>2. ASSUME NEW kind \in Kinds
        PROVE  Deleted(kind) \in Objects
    <2>1. store[kind] \in Objects
      BY DEF TypeOK
    <2>2. CASE ~store[kind].exists \/ store[kind].dying
      BY <2>1, <2>2 DEF Deleted
    <2>3. CASE ~(~store[kind].exists \/ store[kind].dying) /\ kind \in {"deployment", "redis"}
      <3>1. Deleted(kind) = [store[kind] EXCEPT !.dying = TRUE,
                                                !.version = store[kind].version + 1]
        BY <2>1, <2>3 DEF Deleted, Objects
      <3>2. store[kind].version + 1 \in Nat
        BY <2>1 DEF Objects
      <3> QED BY <2>1, <3>1, <3>2 DEF Objects
    <2>4. CASE ~(~store[kind].exists \/ store[kind].dying) /\ kind \notin {"deployment", "redis"}
      <3>1. Deleted(kind) = [store[kind] EXCEPT !.exists = FALSE,
                                                !.version = store[kind].version + 1,
                                                !.groups = {}]
        BY <2>1, <2>4 DEF Deleted, Objects
      <3>2. store[kind].version + 1 \in Nat
        BY <2>1 DEF Objects
      <3> QED BY <2>1, <3>1, <3>2 DEF Objects
    <2> QED BY <2>2, <2>3, <2>4
  <1>3. ASSUME NEW d \in Deletes
        PROVE  WithoutGroup(d) \in Objects
    <2>1. store["alerts"] \in Objects /\ seen[d] \in Objects
      BY DEF TypeOK, Kinds, Requests
    <2>2. seen[d].groups \ {NoTeam} \in SUBSET (Teams \cup {NoTeam})
      BY <2>1 DEF Objects
    <2>3. store["alerts"].version + 1 \in Nat
      BY <2>1 DEF Objects
    <2>4. WithoutGroup(d) = [store["alerts"] EXCEPT !.version = store["alerts"].version + 1,
                                                    !.groups = seen[d].groups \ {NoTeam}]
      BY <2>1 DEF WithoutGroup, Objects
    <2> QED BY <2>1, <2>2, <2>3, <2>4 DEF Objects
  <1> QED BY <1>1, <1>2, <1>3

LEMMA InitTypeOK == Init => TypeOK
  <1> SUFFICES ASSUME Init PROVE TypeOK
    OBVIOUS
  <1>1. NoObject \in Objects
    BY BoundAssumption DEF NoObject, Objects
  <1>2. store \in [Kinds -> Objects]
    <2>1. ASSUME NEW b \in BOOLEAN
          PROVE  Fresh(b) \in [Kinds -> Objects]
      BY <1>1 DEF Fresh, NoObject, Objects
    <2>2. ASSUME NEW n \in Manifests
          PROVE  Deployed(n) \in [Kinds -> Objects]
      <3>1. n.team \in Teams \cup {NoTeam}
        BY ManifestAssumption
      <3>2. 1 \in 0 .. MaxReplicas
        BY BoundAssumption
      <3> QED BY <1>1, <3>1, <3>2 DEF Deployed, NoObject, Objects
    <2> QED BY <2>1, <2>2 DEF Init
  <1>3. \A r \in Requests : 1 <= Len(List(r))
    BY ListsAreLists DEF Init
  <1>4. seen \in [Requests -> Objects]
    BY <1>1 DEF Init
  <1> QED BY <1>2, <1>3, <1>4, BoundAssumption DEF Init, TypeOK

\* The parts of TypeOK that no handler's position is in.
RestOK == /\ store \in [Kinds -> Objects]
          /\ manifest \in [Deploys -> Manifests]
          /\ seen \in [Requests -> Objects]
          /\ skipped \in [Requests -> SUBSET {"redis", "redisService"}]
          /\ scalings \in 0 .. MaxScalings
          /\ foreign \in 0 .. MaxForeign
          /\ faults \in 0 .. MaxFaults
          /\ disturbed \in [Requests -> SUBSET Actors]

LEMMA TypeInParts == TypeOK <=> PositionsOK /\ RestOK
  BY DEF TypeOK, PositionsOK, RestOK, Labels, Actors

LEMMA TypeFromPartsAfterwards == PositionsOK' /\ RestOK' => TypeOK'
  BY DEF TypeOK, PositionsOK, RestOK, Labels, Actors

LEMMA DeployStepTypeOK ==
    ASSUME TypeOK, NEW d \in Deploys, DeployStep(d)
    PROVE  TypeOK'
  <1> USE DEF Requests, Labels
  <1>0. RestOK /\ NoObject \in Objects
    BY TypeInParts, BoundAssumption DEF NoObject, Objects
  <1>1. Kind(d) \in Kinds /\ Edited(d) \in Objects
    BY KindsAreKinds, SentObjectsAreObjects
  <1>2. Fault => /\ faults' \in 0 .. MaxFaults
                 /\ UNCHANGED <<scalings, foreign>>
    BY <1>0, BoundAssumption DEF Fault, RestOK
  <1>3. CASE GetLeavesAlone(d)
    <2>1. PositionsOK'
      BY <1>3, AdvanceKeepsPositions DEF GetLeavesAlone
    <2>2. RestOK'
      BY <1>0, <1>3 DEF GetLeavesAlone, RestOK, environment
    <2> QED BY <2>1, <2>2, TypeFromPartsAfterwards
  <1>4. CASE GetToEdit(d)
    <2>1. PositionsOK'
      BY <1>4, GotoKeepsPositions DEF GetToEdit
    <2>2. RestOK'
      BY <1>0, <1>1, <1>4 DEF GetToEdit, RestOK, environment
    <2> QED BY <2>1, <2>2, TypeFromPartsAfterwards
  <1>5. CASE BuildFails(d)
    <2>1. PositionsOK'
      BY <1>5, GotoKeepsPositions DEF BuildFails
    <2>2. RestOK'
      BY <1>0, <1>5 DEF BuildFails, RestOK, environment
    <2> QED BY <2>1, <2>2, TypeFromPartsAfterwards
  <1>6. CASE GetFails(d)
    <2>1. PositionsOK'
      BY <1>6, GotoKeepsPositions DEF GetFails
    <2>2. seen' \in [Requests -> Objects]
      BY <1>0, <1>6 DEF GetFails, RestOK
    <2>3. disturbed' \in [Requests -> SUBSET Actors]
      BY <1>6, DisturbedKeepsType DEF GetFails, Actors
    <2>4. RestOK'
      BY <1>0, <1>2, <1>6, <2>2, <2>3 DEF GetFails, RestOK
    <2> QED BY <2>1, <2>4, TypeFromPartsAfterwards
  <1>7. CASE Write(d)
    <2>1. PositionsOK'
      BY <1>7, AdvanceKeepsPositions DEF Write
    <2>2. disturbed' \in [Requests -> SUBSET Actors]
      BY <1>7, DisturbedKeepsType DEF Write, Actors
    <2>3. RestOK'
      BY <1>0, <1>1, <1>7, <2>2 DEF Write, RestOK, environment
    <2> QED BY <2>1, <2>3, TypeFromPartsAfterwards
  <1>8. CASE WriteRejected(d)
    <2>1. PositionsOK'
      BY <1>8, GotoKeepsPositions DEF WriteRejected
    <2>2. RestOK'
      BY <1>0, <1>8 DEF WriteRejected, RestOK, environment
    <2> QED BY <2>1, <2>2, TypeFromPartsAfterwards
  <1>9. CASE WriteFails(d)
    <2>1. PositionsOK'
      BY <1>9, GotoKeepsPositions DEF WriteFails
    <2>2. disturbed' \in [Requests -> SUBSET Actors]
      BY <1>9, DisturbedKeepsType DEF WriteFails, Actors
    <2>3. store' \in [Kinds -> Objects]
      BY <1>0, <1>1, <1>9 DEF WriteFails, RestOK
    <2>4. RestOK'
      BY <1>0, <1>2, <1>9, <2>2, <2>3 DEF WriteFails, RestOK
    <2> QED BY <2>1, <2>4, TypeFromPartsAfterwards
  <1> QED BY <1>3, <1>4, <1>5, <1>6, <1>7, <1>8, <1>9 DEF DeployStep

LEMMA DeleteStepTypeOK ==
    ASSUME TypeOK, NEW d \in Deletes, DeleteStep(d)
    PROVE  TypeOK'
  <1> USE DEF Requests, Labels
  <1>0. RestOK
    BY TypeInParts
  <1>1. /\ Kind(d) \in Kinds /\ Deleted(Kind(d)) \in Objects
        /\ WithoutGroup(d) \in Objects
    BY KindsAreKinds, SentObjectsAreObjects
  <1>2. Fault => /\ faults' \in 0 .. MaxFaults
                 /\ UNCHANGED <<scalings, foreign>>
    BY <1>0, BoundAssumption DEF Fault, RestOK
  <1>3. CASE GetToDelete(d)
    <2>1. PositionsOK'
      BY <1>3, GotoKeepsPositions DEF GetToDelete
    <2>2. RestOK'
      BY <1>0, <1>1, <1>3 DEF GetToDelete, RestOK, environment
    <2> QED BY <2>1, <2>2, TypeFromPartsAfterwards
  <1>4. CASE GetNothingToDelete(d)
    <2>1. PositionsOK'
      BY <1>4, GotoKeepsPositions, AdvanceKeepsPositions DEF GetNothingToDelete
    <2>2. RestOK'
      BY <1>0, <1>4 DEF GetNothingToDelete, RestOK, environment
    <2> QED BY <2>1, <2>2, TypeFromPartsAfterwards
  <1>5. CASE DeleteByName(d)
    <2>1. PositionsOK'
      BY <1>5, AdvanceKeepsPositions DEF DeleteByName
    <2>2. disturbed' \in [Requests -> SUBSET Actors]
      BY <1>5, DisturbedKeepsType DEF DeleteByName, Actors
    <2>3. RestOK'
      BY <1>0, <1>1, <1>5, <2>2 DEF DeleteByName, RestOK, environment
    <2> QED BY <2>1, <2>3, TypeFromPartsAfterwards
  <1>6. CASE RemoveAlerts(d)
    <2>1. PositionsOK'
      BY <1>6, AdvanceKeepsPositions DEF RemoveAlerts
    <2>2. disturbed' \in [Requests -> SUBSET Actors]
      BY <1>6, DisturbedKeepsType DEF RemoveAlerts, Actors
    <2>3. RestOK'
      BY <1>0, <1>1, <1>6, <2>2 DEF RemoveAlerts, RestOK, environment
    <2> QED BY <2>1, <2>3, TypeFromPartsAfterwards
  <1>7. CASE RemoveAlertsRejected(d)
    <2>1. PositionsOK'
      BY <1>7, GotoKeepsPositions DEF RemoveAlertsRejected
    <2>2. RestOK'
      BY <1>0, <1>7 DEF RemoveAlertsRejected, RestOK, environment
    <2> QED BY <2>1, <2>2, TypeFromPartsAfterwards
  <1>8. CASE DeleteFails(d)
    <2>1. PositionsOK'
      BY <1>8, GotoKeepsPositions, AdvanceKeepsPositions DEF DeleteFails
    <2>2. disturbed' \in [Requests -> SUBSET Actors]
      <3>1. DisturbByFault(d, store' # store) /\ (store' # store) \in BOOLEAN
        BY <1>8 DEF DeleteFails
      <3> QED BY <3>1, DisturbedKeepsType DEF Actors
    <2>3. store' \in [Kinds -> Objects]
      BY <1>0, <1>1, <1>8 DEF DeleteFails, RestOK
    <2>4. skipped' \in [Requests -> SUBSET {"redis", "redisService"}]
      <3>1. skipped[d] \cup {Kind(d)} \in SUBSET {"redis", "redisService"}
               \/ Kind(d) \notin {"redis", "redisService"}
        BY <1>0 DEF RestOK
      <3> QED BY <1>0, <1>8, <3>1 DEF DeleteFails, RestOK
    <2>5. RestOK'
      BY <1>0, <1>2, <1>8, <2>2, <2>3, <2>4 DEF DeleteFails, RestOK
    <2> QED BY <2>1, <2>5, TypeFromPartsAfterwards
  <1> QED BY <1>3, <1>4, <1>5, <1>6, <1>7, <1>8 DEF DeleteStep

LEMMA StepTypeOK ==
    ASSUME TypeOK, [Next]_vars
    PROVE  TypeOK'
  <1> USE DEF Labels
  <1>0. RestOK
    BY TypeInParts
  <1>1. ASSUME NEW r \in Requests, Begin(r)
        PROVE  TypeOK'
    <2>1. FirstPc(r, List(r)[1]) \in Labels
      BY DEF FirstPc
    <2>2. PositionsOK'
      BY <1>1, <2>1 DEF Begin, TypeOK, PositionsOK, List
    <2>3. RestOK'
      BY <1>0, <1>1 DEF Begin, RestOK, environment
    <2> QED BY <2>2, <2>3, TypeFromPartsAfterwards
  <1>2. ASSUME NEW r \in Requests, Crash(r)
        PROVE  TypeOK'
    <2>1. PositionsOK'
      BY <1>2, GotoKeepsPositions DEF Crash
    <2>2. RestOK'
      BY <1>0, <1>2 DEF Crash, RestOK, environment
    <2> QED BY <2>1, <2>2, TypeFromPartsAfterwards
  \* The environment moves no handler.
  <1>3. ASSUME UNCHANGED <<manifest, pc, at>>
        PROVE  PositionsOK'
    BY <1>3, TypeInParts DEF PositionsOK, List
  <1>4. ASSUME NEW n \in 1 .. MaxReplicas, Scale(n)
        PROVE  TypeOK'
    <2>1. store' \in [Kinds -> Objects]
      <3>1. store["deployment"] \in Objects
        BY <1>0 DEF RestOK, Kinds
      <3>2. n \in 0 .. MaxReplicas /\ store["deployment"].version + 1 \in Nat
        BY <3>1, BoundAssumption DEF Objects
      <3>3. [store["deployment"] EXCEPT !.replicas = n,
                                        !.version = store["deployment"].version + 1] \in Objects
        BY <3>1, <3>2 DEF Objects
      <3>4. store' = [store EXCEPT !["deployment"] =
                        [store["deployment"] EXCEPT
                           !.replicas = n, !.version = store["deployment"].version + 1]]
        BY <1>0, <1>4, <3>1 DEF Scale, RestOK, Objects, Kinds
      <3> QED BY <1>0, <3>3, <3>4 DEF RestOK
    <2>2. disturbed' \in [Requests -> SUBSET Actors]
      BY <1>4, DisturbedKeepsType DEF Scale, Actors
    <2>3. RestOK'
      BY <1>0, <1>4, <2>1, <2>2, BoundAssumption DEF Scale, RestOK
    <2>4. PositionsOK'
      BY <1>3, <1>4 DEF Scale
    <2> QED BY <2>3, <2>4, TypeFromPartsAfterwards
  <1>5. ASSUME NEW kind \in {"deployment", "redis"}, Collect(kind)
        PROVE  TypeOK'
    <2>1. store' \in [Kinds -> Objects]
      <3>1. store[kind] \in Objects
        BY <1>0 DEF RestOK, Kinds
      <3>2. store[kind].version + 1 \in Nat
        BY <3>1 DEF Objects
      <3>3. [store[kind] EXCEPT !.exists = FALSE, !.version = store[kind].version + 1]
              \in Objects
        BY <3>1, <3>2 DEF Objects
      <3>4. store' = [store EXCEPT ![kind] =
                        [store[kind] EXCEPT !.exists = FALSE,
                                            !.version = store[kind].version + 1]]
        BY <1>0, <1>5, <3>1 DEF Collect, RestOK, Objects, Kinds
      <3> QED BY <1>0, <3>3, <3>4 DEF RestOK
    <2>2. disturbed' \in [Requests -> SUBSET Actors]
      BY <1>5, DisturbedKeepsType DEF Collect, Actors
    <2>3. RestOK'
      BY <1>0, <1>5, <2>1, <2>2 DEF Collect, RestOK, environment
    <2>4. PositionsOK'
      BY <1>3, <1>5 DEF Collect
    <2> QED BY <2>3, <2>4, TypeFromPartsAfterwards
  <1>6. ASSUME WriteForeignAlerts
        PROVE  TypeOK'
    <2>1. store' \in [Kinds -> Objects]
      <3>1. store["alerts"] \in Objects
        BY <1>0 DEF RestOK, Kinds
      <3>2. store["alerts"].version + 1 \in Nat
        BY <3>1 DEF Objects
      <3>3. [store["alerts"] EXCEPT !.exists = TRUE, !.version = store["alerts"].version + 1]
              \in Objects
        BY <3>1, <3>2 DEF Objects
      <3>4. store' = [store EXCEPT !["alerts"] =
                        [store["alerts"] EXCEPT !.exists = TRUE,
                                                !.version = store["alerts"].version + 1]]
        BY <1>0, <1>6, <3>1 DEF WriteForeignAlerts, RestOK, Objects, Kinds
      <3> QED BY <1>0, <3>3, <3>4 DEF RestOK
    <2>2. disturbed' \in [Requests -> SUBSET Actors]
      BY <1>6, DisturbedKeepsType DEF WriteForeignAlerts, Actors
    <2>3. RestOK'
      BY <1>0, <1>6, <2>1, <2>2, BoundAssumption DEF WriteForeignAlerts, RestOK
    <2>4. PositionsOK'
      BY <1>3, <1>6 DEF WriteForeignAlerts
    <2> QED BY <2>3, <2>4, TypeFromPartsAfterwards
  <1>7. CASE UNCHANGED vars
    <2>1. PositionsOK'
      BY <1>3, <1>7 DEF vars
    <2>2. RestOK'
      BY <1>0, <1>7 DEF vars, environment, RestOK
    <2> QED BY <2>1, <2>2, TypeFromPartsAfterwards
  <1> QED BY <1>1, <1>2, <1>4, <1>5, <1>6, <1>7, DeployStepTypeOK, DeleteStepTypeOK
          DEF Next

\* Every reachable state is well typed; in particular no handler runs past the
\* end of its list of resources.
THEOREM TypeCorrect == Spec => []TypeOK
  <1>1. Init => TypeOK
    BY InitTypeOK
  <1>2. TypeOK /\ [Next]_vars => TypeOK'
    BY StepTypeOK
  <1> QED BY <1>1, <1>2, PTL DEF Spec

-------------------------------------------------------------------------------
\* Replicas.

\* A copy of the Deployment that would be accepted has the current replicas.
FreshReplicas ==
    \A d \in Deploys : pc[d] = "write" /\ Kind(d) = "deployment" /\ seen[d].exists =>
      /\ seen[d].version <= store["deployment"].version
      /\ seen[d].version = store["deployment"].version
           => seen[d].replicas = store["deployment"].replicas

\* An accepted write of the Deployment.
Rewrites(d) == /\ pc[d] = "write" /\ Kind(d) = "deployment" /\ Accepts(d)
               /\ store'["deployment"] = Edited(d)

\* Who changes the Deployment, and that each change raises its version.
LEMMA DeploymentChanges ==
    ASSUME TypeOK, [Next]_vars
    PROVE  \/ store'["deployment"] = store["deployment"]
           \/ /\ store'["deployment"].version = store["deployment"].version + 1
              /\ \/ store'["deployment"].replicas = store["deployment"].replicas
                 \/ scalings' # scalings
                 \/ \E d \in Deploys : Rewrites(d)
  <1> DEFINE Changes == \/ store'["deployment"] = store["deployment"]
                        \/ /\ store'["deployment"].version = store["deployment"].version + 1
                           /\ \/ store'["deployment"].replicas = store["deployment"].replicas
                              \/ scalings' # scalings
                              \/ \E d \in Deploys : Rewrites(d)
  <1>0. store \in [Kinds -> Objects] /\ "deployment" \in Kinds /\ "alerts" \in Kinds
    BY DEF TypeOK, Kinds
  <1>1. ASSUME NEW d \in Deploys, DeployStep(d)
        PROVE  Changes
    <2>1. CASE store' = store
      BY <2>1
    <2>2. CASE store' # store
      <3>1. /\ pc[d] = "write" /\ Accepts(d)
            /\ store' = [store EXCEPT ![Kind(d)] = Edited(d)]
        BY <1>1, <2>2 DEF DeployStep, GetLeavesAlone, GetToEdit, BuildFails, GetFails,
                          Write, WriteRejected, WriteFails, Writing
      <3>2. CASE Kind(d) = "deployment"
        <4>1. store'["deployment"] = Edited(d)
          BY <1>0, <3>1, <3>2
        <4>2. Edited(d).version = store["deployment"].version + 1
          BY <3>2 DEF Edited
        <4> QED BY <3>1, <3>2, <4>1, <4>2 DEF Rewrites
      <3>3. CASE Kind(d) # "deployment"
        BY <1>0, <3>1, <3>3
      <3> QED BY <3>2, <3>3
    <2> QED BY <2>1, <2>2
  <1>2. ASSUME NEW d \in Deletes, DeleteStep(d)
        PROVE  Changes
    <2>1. \/ store' = store
          \/ store' = [store EXCEPT ![Kind(d)] = Deleted(Kind(d))]
          \/ store' = [store EXCEPT !["alerts"] = WithoutGroup(d)]
      BY <1>2 DEF DeleteStep, GetToDelete, GetNothingToDelete, DeleteByName, RemoveAlerts,
                  RemoveAlertsRejected, DeleteFails
    <2>2. \/ Deleted("deployment") = store["deployment"]
          \/ /\ Deleted("deployment").version = store["deployment"].version + 1
             /\ Deleted("deployment").replicas = store["deployment"].replicas
      BY <1>0 DEF Deleted, Objects
    <2> QED BY <1>0, <2>1, <2>2
  <1>3. ASSUME NEW n \in 1 .. MaxReplicas, Scale(n)
        PROVE  Changes
    <2>1. scalings' # scalings
      BY <1>3 DEF Scale, TypeOK
    <2>2. store'["deployment"].version = store["deployment"].version + 1
      BY <1>0, <1>3 DEF Scale, Objects
    <2> QED BY <2>1, <2>2
  <1>4. ASSUME NEW kind \in {"deployment", "redis"}, Collect(kind)
        PROVE  Changes
    BY <1>0, <1>4 DEF Collect, Objects
  <1>5. ASSUME WriteForeignAlerts
        PROVE  Changes
    BY <1>0, <1>5 DEF WriteForeignAlerts
  <1>6. ASSUME NEW r \in Requests, Begin(r) \/ Crash(r)
        PROVE  Changes
    BY <1>6 DEF Begin, Crash
  <1>7. CASE UNCHANGED vars
    BY <1>7 DEF vars
  <1> QED BY <1>1, <1>2, <1>3, <1>4, <1>5, <1>6, <1>7 DEF Next

\* How a deploy comes to be about to write an existing Deployment.
LEMMA CopiesOfTheDeployment ==
    ASSUME TypeOK, [Next]_vars, NEW d \in Deploys,
           pc'[d] = "write", Kind(d)' = "deployment", seen'[d].exists
    PROVE  \/ /\ seen'[d] = store["deployment"]
              /\ store' = store
           \/ /\ pc[d] = "write" /\ Kind(d) = "deployment"
              /\ seen'[d] = seen[d]
  <1> DEFINE Comes == \/ seen'[d] = store["deployment"] /\ store' = store
                      \/ pc[d] = "write" /\ Kind(d) = "deployment" /\ seen'[d] = seen[d]
  <1> USE DEF Goto
  <1>0. /\ pc \in [Requests -> Labels] /\ seen \in [Requests -> Objects]
        /\ at \in [Requests -> Nat \ {0}] /\ d \in Requests /\ d \notin Deletes
    BY RequestAssumption DEF TypeOK, Requests, Labels
  \* A step that leaves d where it is.
  <1>1. ASSUME pc'[d] = pc[d], at'[d] = at[d], seen'[d] = seen[d], manifest' = manifest
        PROVE  Comes
    BY <1>1 DEF Kind, List
  \* A step of d that goes on to the next resource.
  <1>2. ASSUME Advance(d)
        PROVE  FALSE
    BY <1>0, <1>2, DeploysGetFirst DEF Advance
  <1>3. ASSUME DeployStep(d)
        PROVE  Comes
    <2>1. CASE GetToEdit(d)
      <3>1. Kind(d)' = Kind(d)
        BY <2>1 DEF GetToEdit, Kind, List
      <3> QED BY <1>0, <2>1, <3>1 DEF GetToEdit
    <2>2. CASE GetFails(d)
      BY <1>0, <2>2 DEF GetFails, NoObject
    <2>3. CASE ~GetToEdit(d) /\ ~GetFails(d)
      BY <1>0, <1>2, <1>3, <2>3 DEF DeployStep, GetLeavesAlone, BuildFails, Write,
                                    WriteRejected, WriteFails
    <2> QED BY <2>1, <2>2, <2>3
  \* A step of another handler.
  <1>4. ASSUME NEW r \in Requests \ {d}, Advance(r) \/ \E label : Goto(r, label)
        PROVE  pc'[d] = pc[d] /\ at'[d] = at[d]
    BY <1>0, <1>4 DEF Advance
  <1>5. ASSUME NEW e \in Deploys \ {d}, DeployStep(e)
        PROVE  Comes
    <2>1. e \in Requests \ {d}
      BY DEF Requests
    <2>2. manifest' = manifest /\ seen'[d] = seen[d]
      BY <1>0, <1>5 DEF DeployStep, GetLeavesAlone, GetToEdit, BuildFails, GetFails,
                        Write, WriteRejected, WriteFails
    <2>3. Advance(e) \/ \E label : Goto(e, label)
      BY <1>5 DEF DeployStep, GetLeavesAlone, GetToEdit, BuildFails, GetFails,
                  Write, WriteRejected, WriteFails
    <2> QED BY <1>1, <1>4, <2>1, <2>2, <2>3
  <1>6. ASSUME NEW e \in Deletes, DeleteStep(e)
        PROVE  Comes
    <2>1. e \in Requests \ {d}
      BY <1>0 DEF Requests
    <2>2. manifest' = manifest /\ seen'[d] = seen[d]
      BY <1>0, <1>6, <2>1 DEF DeleteStep, GetToDelete, GetNothingToDelete, DeleteByName,
                        RemoveAlerts, RemoveAlertsRejected, DeleteFails
    <2>3. Advance(e) \/ \E label : Goto(e, label)
      BY <1>6 DEF DeleteStep, GetToDelete, GetNothingToDelete, DeleteByName,
                  RemoveAlerts, RemoveAlertsRejected, DeleteFails
    <2> QED BY <1>1, <1>4, <2>1, <2>2, <2>3
  <1>7. ASSUME NEW r \in Requests, Begin(r)
        PROVE  Comes
    <2>1. CASE r = d
      BY <1>0, <1>7, <2>1, DeploysGetFirst DEF Begin
    <2>2. CASE r # d
      BY <1>0, <1>1, <1>7, <2>2 DEF Begin
    <2> QED BY <2>1, <2>2
  <1>8. ASSUME NEW r \in Requests, Crash(r)
        PROVE  Comes
    BY <1>0, <1>1, <1>8 DEF Crash
  <1>9. ASSUME NEW n \in 1 .. MaxReplicas, Scale(n)
        PROVE  Comes
    BY <1>1, <1>9 DEF Scale
  <1>10. ASSUME NEW kind \in {"deployment", "redis"}, Collect(kind)
         PROVE  Comes
    BY <1>1, <1>10 DEF Collect
  <1>11. ASSUME WriteForeignAlerts
         PROVE  Comes
    BY <1>1, <1>11 DEF WriteForeignAlerts
  <1>12. CASE UNCHANGED vars
    BY <1>1, <1>12 DEF vars
  <1> QED BY <1>3, <1>5, <1>6, <1>7, <1>8, <1>9, <1>10, <1>11, <1>12 DEF Next

LEMMA StepFreshReplicas ==
    ASSUME TypeOK, FreshReplicas, [Next]_vars
    PROVE  FreshReplicas'
  <1> SUFFICES ASSUME NEW d \in Deploys,
                      pc'[d] = "write", Kind(d)' = "deployment", seen'[d].exists
               PROVE  /\ seen'[d].version <= store'["deployment"].version
                      /\ seen'[d].version = store'["deployment"].version
                           => seen'[d].replicas = store'["deployment"].replicas
    BY DEF FreshReplicas
  <1>1. store["deployment"].version \in Nat /\ seen[d].version \in Nat
    BY DEF TypeOK, Kinds, Objects, Requests
  <1>2. CASE seen'[d] = store["deployment"] /\ store' = store
    BY <1>1, <1>2
  <1>3. CASE pc[d] = "write" /\ Kind(d) = "deployment" /\ seen'[d] = seen[d]
    <2>1. /\ seen[d].version <= store["deployment"].version
          /\ seen[d].version = store["deployment"].version
               => seen[d].replicas = store["deployment"].replicas
      BY <1>3 DEF FreshReplicas
    <2>2. \/ store'["deployment"] = store["deployment"]
          \/ store'["deployment"].version = store["deployment"].version + 1
      BY DeploymentChanges
    <2> QED BY <1>1, <1>3, <2>1, <2>2
  <1> QED BY <1>2, <1>3, CopiesOfTheDeployment

\* No deploy undoes a scaling.
THEOREM ScalingsSurvive == Spec => ReplicasChangeOnlyByScaling
  <1> DEFINE Kept == (/\ store["deployment"].exists /\ store'["deployment"].exists
                      /\ scalings' = scalings)
                       => store'["deployment"].replicas = store["deployment"].replicas
  <1>1. ASSUME TypeOK, FreshReplicas, [Next]_vars
        PROVE  [Kept]_vars
    <2> SUFFICES ASSUME store["deployment"].exists, scalings' = scalings
                 PROVE  store'["deployment"].replicas = store["deployment"].replicas
      OBVIOUS
    <2>1. ASSUME NEW d \in Deploys, Rewrites(d)
          PROVE  Edited(d).replicas = store["deployment"].replicas
      <3>1. seen[d].exists /\ seen[d].version = store["deployment"].version
        BY <2>1 DEF Rewrites, Accepts
      <3>2. seen[d].replicas = store["deployment"].replicas
        BY <1>1, <2>1, <3>1 DEF FreshReplicas, Rewrites
      <3> QED BY <2>1, <3>1, <3>2 DEF Rewrites, Edited, EditedReplicas
    <2> QED BY <1>1, <2>1, DeploymentChanges DEF Rewrites
  <1>2. Init => FreshReplicas
    BY DEF Init, FreshReplicas, Requests
  <1>3. TypeOK /\ FreshReplicas /\ [Next]_vars => FreshReplicas'
    BY StepFreshReplicas
  <1>4. TypeOK /\ FreshReplicas /\ [Next]_vars => [Kept]_vars
    BY <1>1
  <1>5. Spec => []TypeOK
    BY TypeCorrect
  <1> QED BY <1>2, <1>3, <1>4, <1>5, PTL DEF Spec, ReplicasChangeOnlyByScaling
===============================================================================
