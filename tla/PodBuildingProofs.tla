--------------------------- MODULE PodBuildingProofs ---------------------------
(***************************************************************************)
(* For any situations, words, resources and times: a manifest that was     *)
(* uploaded before a deploy is the one deployed, and the time of an event  *)
(* is close to when it was sent.                                           *)
(*                                                                         *)
(* The manifest is followed from its place to where the deploy keeps it    *)
(* (UploadIsFollowed); the time is arithmetic on division and remainder.   *)
(***************************************************************************)
EXTENDS PodBuilding, TLAPS

-------------------------------------------------------------------------------
\* Division and remainder.

LEMMA Remainder ==
    ASSUME NEW t \in Int, NEW d \in Nat \ {0}
    PROVE  /\ t \div d \in Int /\ t % d \in 0 .. d - 1
           /\ t = (t \div d) * d + (t % d)
  OBVIOUS

LEMMA Half ==
    ASSUME NEW w \in Nat
    PROVE  w \div 2 \in Nat /\ 2 * (w \div 2) <= w /\ w <= 2 * (w \div 2) + 1
  OBVIOUS

\* A counter that is left alone or goes up.
LEMMA Counting ==
    ASSUME NEW n \in Nat
    PROVE  n + 1 \in Nat /\ n + 1 # 0
  OBVIOUS

\* The second part is at most half its width from zero.
LEMMA SignedBounds ==
    ASSUME NEW t \in Int
    PROVE  /\ Signed(t) \in Int
           /\ -(Width \div 2) <= Signed(t) /\ Signed(t) <= Width \div 2
  <1>1. Width \in Nat \ {0}
    BY TimeAssumption
  <1> DEFINE half == Width \div 2
             shifted == (t + half) % Width
  <1>2. half \in Nat /\ Width <= 2 * half + 1
    BY <1>1, Half
  <1>3. shifted \in 0 .. Width - 1
    BY <1>1, <1>2, Remainder
  <1> HIDE DEF shifted, half
  <1>4. Signed(t) = shifted - half
    BY DEF Signed, shifted, half
  <1>5. /\ shifted - half \in Int
        /\ -half <= shifted - half /\ shifted - half <= half
    BY <1>1, <1>2, <1>3
  <1> QED BY <1>4, <1>5 DEF half

\* What a reader makes of a converted time.
LEMMA ReadBack ==
    ASSUME NEW t \in Int
    PROVE  LET off == GetTimestampAsTime(convertTimestamp(t)) - t
           IN -(Width \div 2) - Second <= off /\ off <= Width \div 2 + Second
  <1> DEFINE whole == t \div Second
             rest == t % Second
             half == Width \div 2
             cut == Signed(t)
  <1>1. Second \in Nat \ {0} /\ Width \in Nat
    BY TimeAssumption
  <1>2. whole * Second \in Int /\ rest \in 0 .. Second - 1 /\ t = whole * Second + rest
    BY <1>1, Remainder
  <1>3. half \in Nat
    BY <1>1, Half
  <1>4. cut \in Int /\ -half <= cut /\ cut <= half
    BY SignedBounds
  <1>5. GetTimestampAsTime(convertTimestamp(t)) = whole * Second + cut
    BY DEF GetTimestampAsTime, convertTimestamp
  <1> HIDE DEF whole, rest, half, cut
  <1>6. /\ -half - Second <= (whole * Second + cut) - t
        /\ (whole * Second + cut) - t <= half + Second
    BY <1>1, <1>2, <1>3, <1>4
  <1> QED BY <1>5, <1>6 DEF half

-------------------------------------------------------------------------------
\* The time of an event.

EventIsConverted ==
    event # <<>> => /\ event[1].sent \in Times
                    /\ event[1].says.timestamp = convertTimestamp(event[1].sent)

LEMMA StepConverts == EventIsConverted /\ [Next]_vars => EventIsConverted'
  <1> SUFFICES ASSUME EventIsConverted, [Next]_vars PROVE EventIsConverted'
    OBVIOUS
  <1>1. CASE Publish
    <2>1. PICK now \in Times :
            event' = <<[sent |-> now, says |-> NewDeploymentEvent(request, manifest, now)]>>
      BY <1>1 DEF Publish
    <2>2. NewDeploymentEvent(request, manifest, now).timestamp = convertTimestamp(now)
      BY DEF NewDeploymentEvent
    <2>3. event'[1].sent = now /\ event'[1].says = NewDeploymentEvent(request, manifest, now)
      BY <2>1
    <2> QED BY <2>2, <2>3 DEF EventIsConverted
  <1>2. CASE event' = event
    BY <1>2 DEF EventIsConverted
  <1> QED BY <1>1, <1>2
      DEF Next, vars, Developer, Daemon, Upload, UploadFails, ShowVariables, Start,
          FetchManifest, FetchFails, NoManifest, Check, FetchResource, FetchErrorPage,
          FetchResourceFails, FetchLoadBalancers, Object, MakeService, MakeRedis, MakePod,
          MakeSecret, MakeAutoscaler, MakeIngress

\* A reader of an event finds a time less than half the width and a second from when it
\* was sent, however long a second and however wide the second part is.
THEOREM TimeCorrect == Spec => []EventTimeIsClose
  <1>1. Init => EventIsConverted
    BY DEF Init, EventIsConverted
  <1>2. EventIsConverted /\ [Next]_vars => EventIsConverted'
    BY StepConverts
  <1>3. EventIsConverted => EventTimeIsClose
    <2> SUFFICES ASSUME EventIsConverted, event # <<>>
                 PROVE  LET off == GetTimestampAsTime(event[1].says.timestamp) - event[1].sent
                        IN -(Width \div 2) - Second <= off /\ off <= Width \div 2 + Second
      BY DEF EventTimeIsClose
    <2>1. event[1].sent \in Int /\ event[1].says.timestamp = convertTimestamp(event[1].sent)
      BY SendingAssumption DEF EventIsConverted
    <2> QED BY <2>1, ReadBack
  <1> QED BY <1>1, <1>2, <1>3, PTL DEF Spec

-------------------------------------------------------------------------------
\* The manifest.

UploadedFirst == uploaded = [ended |-> "ok", before |-> TRUE]
Undisturbed == /\ UploadedFirst /\ Readable(situation.uploads)
               /\ ~situation.nexusUrlIsSet /\ ~request.hasManifestUrl /\ faults = 0

\* An uploaded manifest is in its place; then the deploy has not begun, or is about to
\* look there, or has it.
UploadIsFollowed ==
    /\ faults \in Nat
    /\ situation \in Situations
    /\ DOMAIN store = {"raw", "nexus", "named", "url"}
    /\ UploadedFirst /\ ~situation.nexusUrlIsSet => store["raw"] = situation.uploads
    /\ Undisturbed =>
         \/ pc = "idle"
         \/ pc = "download" /\ sources = createManifestUrl
         \/ pc \notin {"idle", "download", "no manifest"} /\ raw = situation.uploads.manifest

LEMMA InitFollowed == Init => UploadIsFollowed
  <1> SUFFICES ASSUME Init PROVE UploadIsFollowed
    OBVIOUS
  <1>1. ~UploadedFirst
    BY DEF Init, UploadedFirst
  <1> QED BY <1>1, SituationAssumption DEF Init, UploadIsFollowed, Undisturbed

\* A step of the deploy after its manifest is found.
LEMMA FollowedLater ==
    ASSUME UploadIsFollowed, UNCHANGED <<situation, store, uploaded, raw>>,
           faults' = faults \/ faults' = faults + 1,
           pc \notin {"idle", "download"}, pc' \notin {"idle", "download", "no manifest"}
    PROVE  UploadIsFollowed'
  <1>1. faults' \in Nat /\ (Undisturbed' => Undisturbed)
    <2>1. faults \in Nat
      BY DEF UploadIsFollowed
    <2>2. faults' \in Nat /\ (faults' = 0 => faults = 0)
      BY <2>1, Counting, Zenon
    <2> QED BY <2>2 DEF Undisturbed, UploadedFirst, request
  <1>2. Undisturbed => pc' \notin {"idle", "download", "no manifest"} /\ raw' = situation'.uploads.manifest
    BY DEF UploadIsFollowed
  <1> QED BY <1>1, <1>2 DEF UploadIsFollowed, UploadedFirst

LEMMA StepFollowed == UploadIsFollowed /\ [Next]_vars => UploadIsFollowed'
  <1> SUFFICES ASSUME UploadIsFollowed, [Next]_vars PROVE UploadIsFollowed'
    OBVIOUS
  <1>1. CASE Upload
    <2>1. /\ store' = Uploaded
          /\ uploaded' = [ended |-> "ok", before |-> pc = "idle"]
          /\ UNCHANGED <<situation, pc, sources, raw, faults>>
      BY <1>1 DEF Upload, UploadEnds
    <2>2. /\ DOMAIN store' = {"raw", "nexus", "named", "url"}
          /\ ~situation.nexusUrlIsSet => store'["raw"] = situation.uploads
      BY <2>1 DEF UploadIsFollowed, Uploaded
    <2>3. UploadedFirst' => pc = "idle"
      <3>1. CASE pc = "idle"
        BY <3>1
      <3>2. CASE pc # "idle"
        <4>1. (pc = "idle") = FALSE
          BY <3>2
        <4>2. uploaded' = [ended |-> "ok", before |-> FALSE]
          BY <2>1, <4>1, Zenon
        <4>3. uploaded'.before = FALSE
          BY <4>2
        <4> QED BY <4>3 DEF UploadedFirst
      <3> QED BY <3>1, <3>2
    <2> QED BY <2>1, <2>2, <2>3 DEF UploadIsFollowed, Undisturbed
  <1>2. CASE UploadFails
    <2>1. /\ uploaded'.ended = "failed" /\ faults' = faults + 1
          /\ store' \in {store, Uploaded}
          /\ UNCHANGED situation
      BY <1>2 DEF UploadFails, UploadEnds, Fault
    <2>2. ~UploadedFirst'
      BY <2>1 DEF UploadedFirst
    <2>3. DOMAIN store' = DOMAIN store
      BY <2>1 DEF Uploaded
    <2>4. faults' \in Nat
      BY <2>1, Counting, Zenon DEF UploadIsFollowed
    <2> QED BY <2>1, <2>2, <2>3, <2>4 DEF UploadIsFollowed, Undisturbed
  <1>3. CASE Start
    BY <1>3 DEF Start, UploadIsFollowed, Undisturbed, UploadedFirst, request
  <1>4. CASE FetchManifest
    <2>1. /\ pc = "download" /\ sources # <<>>
          /\ UNCHANGED <<situation, store, uploaded, faults>>
      BY <1>4 DEF FetchManifest, Downloading
    <2>2. ASSUME Undisturbed PROVE pc' = "check" /\ raw' = situation.uploads.manifest
      <3>1. sources = createManifestUrl /\ store["raw"] = situation.uploads
        BY <2>1, <2>2 DEF UploadIsFollowed, Undisturbed
      <3>2. Head(sources) = "raw"
        BY <3>1 DEF createManifestUrl
      <3> QED BY <1>4, <2>2, <3>1, <3>2 DEF FetchManifest, Undisturbed
    <2> QED BY <2>1, <2>2 DEF UploadIsFollowed, Undisturbed, UploadedFirst, request
  <1>5. CASE FetchFails
    <2>1. faults' = faults + 1 /\ UNCHANGED <<situation, store, uploaded>>
      BY <1>5 DEF FetchFails, Fault
    <2>2. faults' \in Nat /\ faults' # 0
      BY <2>1, Counting, Zenon DEF UploadIsFollowed
    <2> QED BY <2>1, <2>2 DEF UploadIsFollowed, Undisturbed, UploadedFirst
  <1>6. CASE NoManifest
    <2>1. /\ pc = "download" /\ sources = <<>>
          /\ UNCHANGED <<situation, store, uploaded, faults>>
      BY <1>6 DEF NoManifest
    <2>2. ~Undisturbed
      BY <2>1 DEF UploadIsFollowed, createManifestUrl
    <2> QED BY <2>1, <2>2 DEF UploadIsFollowed, Undisturbed, UploadedFirst, request
  <1>7. CASE Check
    BY <1>7, FollowedLater DEF Check
  <1>8. CASE FetchResource \/ FetchErrorPage \/ FetchResourceFails \/ FetchLoadBalancers
    BY <1>8, FollowedLater
       DEF FetchResource, FetchErrorPage, FetchResourceFails, FetchLoadBalancers, Fetching, Fault
  <1>9. CASE MakeService \/ MakeRedis \/ MakePod \/ MakeSecret \/ MakeAutoscaler \/ MakeIngress
    BY <1>9, FollowedLater
       DEF MakeService, MakeRedis, MakePod, MakeSecret, MakeAutoscaler, MakeIngress, Object,
           Make, End
  <1>10. CASE Publish
    BY <1>10, FollowedLater DEF Publish
  <1>11. CASE ShowVariables \/ UNCHANGED vars
    BY <1>11 DEF ShowVariables, vars, UploadIsFollowed, Undisturbed, UploadedFirst, request
  <1> QED BY <1>1, <1>2, <1>3, <1>4, <1>5, <1>6, <1>7, <1>8, <1>9, <1>10, <1>11
      DEF Next, Developer, Daemon

\* A manifest uploaded before a deploy begins is the one that is deployed, unless it
\* cannot be read, a fetch failed, or the upload or the request names another place.
THEOREM UploadCorrect == Spec => []UploadedManifestIsUsed
  <1>1. Init => UploadIsFollowed
    BY InitFollowed
  <1>2. UploadIsFollowed /\ [Next]_vars => UploadIsFollowed'
    BY StepFollowed
  <1>3. UploadIsFollowed => UploadedManifestIsUsed
    BY DEF UploadIsFollowed, Undisturbed, UploadedFirst, UploadedManifestIsUsed
  <1> QED BY <1>1, <1>2, <1>3, PTL DEF Spec
===============================================================================
