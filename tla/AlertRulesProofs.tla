--------------------------- MODULE AlertRulesProofs ---------------------------
(***************************************************************************)
(* For any number of requests, applications, teams and failed calls:       *)
(* app-rules keeps its type, the optimistic concurrency control keeps      *)
(* every accepted copy fresh, entries change only in writes of their own   *)
(* requests, and the handlers implement RuleBook.                          *)
(*                                                                         *)
(* The inductive invariant is TypeOK /\ CopiesAreFresh.  Without the       *)
(* second part a step that writes a copy back may write anything into the  *)
(* entries of other applications.  That alerts stay as deployed needs, on  *)
(* top of it, specs that do not share a key; names without dashes do not.  *)
(***************************************************************************)
EXTENDS AlertRules, SequenceTheorems, TLAPS

-------------------------------------------------------------------------------
\* Facts about jobs and contents.

\* A request that was made has a spec, and so a key that may be in app-rules.
LEMMA JobsHaveKeys ==
    ASSUME NEW j \in Jobs
    PROVE  /\ j.op \in {"deploy", "delete"}
           /\ j.spec \in Specs
           /\ createDeploymentPrefix(j.spec) \in Keys
           /\ j.op = "deploy" => j \in DeployJobs /\ Rendered(j) \in Groups
           /\ j \in DeployJobs => j.op = "deploy"
  <1>1. j.spec \in Specs /\ j.op \in {"deploy", "delete"}
    BY DEF Jobs, DeployJobs, DeleteJobs
  <1>2. j.op = "deploy" => j \in DeployJobs
    BY DEF Jobs, DeployJobs, DeleteJobs
  <1>3. createDeploymentPrefix(j.spec) \in Keys
    BY <1>1 DEF Keys
  <1>4. j \in DeployJobs => Rendered(j) \in Groups
    BY DEF Groups
  <1>5. j \in DeployJobs => j.op = "deploy"
    BY DEF DeployJobs
  <1> QED BY <1>1, <1>2, <1>3, <1>4, <1>5

\* Editing a well-formed copy gives well-formed data that differs from the
\* copy at most in the request's own key (addRulesToConfigMap,
\* removeRulesFromConfigMap).
LEMMA EditsTouchOneKey ==
    ASSUME TypeOK, NEW r \in Requests, pc[r] # "idle"
    PROVE  /\ KeyOf(r) \in Keys
           /\ Edited(r) \in [Keys -> Groups \cup {NoGroup}]
           /\ \A key \in Keys : key # KeyOf(r) => Edited(r)[key] = seen[r].data[key]
           /\ Edited(r) = [seen[r].data EXCEPT ![KeyOf(r)] =
                             IF job[r].op = "deploy" THEN Rendered(job[r]) ELSE NoGroup]
  <1>1. job[r] \in Jobs
    BY DEF TypeOK
  <1>2. seen[r].data \in [Keys -> Groups \cup {NoGroup}]
    BY DEF TypeOK, ConfigMaps
  <1>3. KeyOf(r) \in Keys
    BY <1>1, JobsHaveKeys DEF KeyOf
  <1>4. job[r].op = "deploy" => Rendered(job[r]) \in Groups
    BY <1>1, JobsHaveKeys
  <1>5. Edited(r) = [seen[r].data EXCEPT ![KeyOf(r)] =
                       IF job[r].op = "deploy" THEN Rendered(job[r]) ELSE NoGroup]
    BY DEF Edited, addRulesToConfigMap, removeRulesFromConfigMap
  <1> QED BY <1>2, <1>3, <1>4, <1>5

\* A ConfigMap nobody has written holds no groups and is well formed.
LEMMA NewConfigMapIsEmpty ==
    NewConfigMap \in ConfigMaps /\ NoData \in [Keys -> Groups \cup {NoGroup}]
  BY DEF NewConfigMap, ConfigMaps, NoData

-------------------------------------------------------------------------------
\* Type correctness.

LEMMA InitTypeOK == Init => TypeOK
  <1> SUFFICES ASSUME Init PROVE TypeOK
    OBVIOUS
  <1>1. configMap \in ConfigMaps
    <2>1. NoData \in [Keys -> Groups \cup {NoGroup}] /\ NewConfigMap \in ConfigMaps
      BY NewConfigMapIsEmpty
    <2>2. [exists |-> TRUE, resourceVersion |-> 1, data |-> NoData] \in ConfigMaps
      BY <2>1 DEF ConfigMaps
    <2> QED BY <2>1, <2>2 DEF Init
  <1>2. seen \in [Requests -> ConfigMaps]
    BY NewConfigMapIsEmpty DEF Init
  <1>3. job \in [Requests -> Jobs \cup {NoJob}]
    BY DEF Init
  <1>4. faults \in 0 .. MaxFaults
    BY FaultAssumption DEF Init
  <1>5. \A r \in Requests : job[r] = NoJob <=> pc[r] = "idle"
    BY DEF Init
  <1> QED BY <1>1, <1>2, <1>3, <1>4, <1>5 DEF Init, TypeOK

\* What an accepted write stores is a ConfigMap.
LEMMA StoredIsConfigMap ==
    ASSUME TypeOK, NEW r \in Requests, pc[r] # "idle"
    PROVE  Stored(Edited(r)) \in ConfigMaps
  <1>1. configMap.resourceVersion \in Nat
    BY DEF TypeOK, ConfigMaps
  <1> QED BY <1>1, EditsTouchOneKey DEF Stored, ConfigMaps

LEMMA StepTypeOK ==
    ASSUME TypeOK, [Next]_vars
    PROVE  TypeOK'
  <1> USE DEF TypeOK, Goto
  <1>1. ASSUME NEW r \in Requests, NEW j \in Jobs, Start(r, j)
        PROVE  TypeOK'
    BY <1>1, NoJobAssumption DEF Start
  <1>2. ASSUME NEW r \in Requests, NoAlerts(r)
        PROVE  TypeOK'
    BY <1>2 DEF NoAlerts
  <1>3. ASSUME NEW r \in Requests, GetFound(r)
        PROVE  TypeOK'
    BY <1>3 DEF GetFound, Getting
  <1>4. ASSUME NEW r \in Requests, GetNotFound(r)
        PROVE  TypeOK'
    BY <1>4, NewConfigMapIsEmpty DEF GetNotFound, Getting
  <1>5. ASSUME NEW r \in Requests, GetFails(r)
        PROVE  TypeOK'
    BY <1>5, FaultAssumption DEF GetFails, Getting, Fault
  <1>6. ASSUME NEW r \in Requests, Write(r)
        PROVE  TypeOK'
    <2>1. configMap' \in ConfigMaps
      BY <1>6, StoredIsConfigMap DEF Write
    <2> QED BY <1>6, <2>1 DEF Write
  <1>7. ASSUME NEW r \in Requests, WriteRejected(r)
        PROVE  TypeOK'
    BY <1>7 DEF WriteRejected
  <1>8. ASSUME NEW r \in Requests, WriteFails(r)
        PROVE  TypeOK'
    <2>1. configMap' \in ConfigMaps
      BY <1>8, StoredIsConfigMap DEF WriteFails
    <2> QED BY <1>8, <2>1, FaultAssumption DEF WriteFails, Fault
  <1>9. CASE UNCHANGED vars
    BY <1>9 DEF vars
  <1> QED BY <1>1, <1>2, <1>3, <1>4, <1>5, <1>6, <1>7, <1>8, <1>9 DEF Next, Step

\* Every reachable state is well typed.
THEOREM TypeCorrect == Spec => []TypeOK
  <1>1. Init => TypeOK
    BY InitTypeOK
  <1>2. TypeOK /\ [Next]_vars => TypeOK'
    BY StepTypeOK
  <1> QED BY <1>1, <1>2, PTL DEF Spec

-------------------------------------------------------------------------------
\* Fresh copies.

LEMMA InitCopiesAreFresh == Init => CopiesAreFresh
  BY DEF Init, CopiesAreFresh, NewConfigMap

\* A write that raises the version makes every outstanding copy a stale one.
LEMMA WritesStaleOtherCopies ==
    ASSUME TypeOK, CopiesAreFresh, NEW r \in Requests, pc[r] # "idle",
           configMap' = Stored(Edited(r)), UNCHANGED seen,
           \A q \in Requests : pc'[q] = "write" => pc[q] = "write"
    PROVE  CopiesAreFresh'
  <1>1. configMap.resourceVersion \in Nat
    BY DEF TypeOK, ConfigMaps
  <1>2. configMap'.exists /\ configMap'.resourceVersion = configMap.resourceVersion + 1
    BY DEF Stored
  <1>3. ASSUME NEW q \in Requests, pc'[q] = "write"
        PROVE  /\ seen'[q].exists <=> seen'[q].resourceVersion # 0
               /\ seen'[q].resourceVersion < configMap'.resourceVersion
               /\ ~seen'[q].exists => seen'[q].data = NoData
    <2>1. seen[q].resourceVersion \in Nat
      BY DEF TypeOK, ConfigMaps
    <2>2. pc[q] = "write" /\ seen'[q] = seen[q]
      BY <1>3
    <2> QED BY <1>1, <1>2, <2>1, <2>2 DEF CopiesAreFresh
  <1>4. \A q \in Requests : seen'[q].resourceVersion \in Nat
    BY DEF TypeOK, ConfigMaps
  <1>5. configMap'.resourceVersion \in Nat
    BY <1>1, <1>2
  <1>6. configMap'.exists <=> configMap'.resourceVersion # 0
    BY <1>1, <1>2
  <1>7. ASSUME NEW q \in Requests, pc'[q] = "write"
        PROVE  /\ seen'[q].resourceVersion <= configMap'.resourceVersion
               /\ seen'[q].resourceVersion # configMap'.resourceVersion
    BY <1>3, <1>4, <1>5, <1>7
  <1> QED BY <1>2, <1>3, <1>6, <1>7 DEF CopiesAreFresh

LEMMA StepCopiesAreFresh ==
    ASSUME TypeOK, CopiesAreFresh, [Next]_vars
    PROVE  CopiesAreFresh'
  <1> USE DEF Goto
  \* Steps that leave app-rules and all copies alone and bring no handler to
  \* its write.
  <1>0. ASSUME UNCHANGED <<configMap, seen>>,
               \A q \in Requests : pc'[q] = "write" => pc[q] = "write"
        PROVE  CopiesAreFresh'
    BY <1>0 DEF CopiesAreFresh
  <1>1. ASSUME NEW r \in Requests, NEW j \in Jobs, Start(r, j)
        PROVE  CopiesAreFresh'
    BY <1>0, <1>1 DEF Start, TypeOK
  <1>2. ASSUME NEW r \in Requests, NoAlerts(r)
        PROVE  CopiesAreFresh'
    BY <1>0, <1>2 DEF NoAlerts, TypeOK
  <1>3. ASSUME NEW r \in Requests, GetFound(r)
        PROVE  CopiesAreFresh'
    <2>1. configMap' = configMap /\ configMap.exists /\ seen'[r] = configMap
      BY <1>3 DEF GetFound, TypeOK
    <2>2. \A q \in Requests \ {r} : seen'[q] = seen[q] /\ pc'[q] = pc[q]
      BY <1>3 DEF GetFound, TypeOK
    <2>3. configMap.resourceVersion \in Nat
      BY DEF TypeOK, ConfigMaps
    <2>4. configMap.resourceVersion # 0
      BY <2>1 DEF CopiesAreFresh
    <2>5. ASSUME NEW q \in Requests, pc'[q] = "write"
          PROVE  /\ seen'[q].exists <=> seen'[q].resourceVersion # 0
                 /\ seen'[q].resourceVersion <= configMap'.resourceVersion
                 /\ ~seen'[q].exists => seen'[q].data = NoData
                 /\ seen'[q].exists /\ seen'[q].resourceVersion = configMap'.resourceVersion
                      => seen'[q].data = configMap'.data
      <3>1. CASE q = r
        BY <2>1, <2>3, <2>4, <3>1
      <3>2. CASE q # r
        BY <2>1, <2>2, <2>5, <3>2 DEF CopiesAreFresh
      <3> QED BY <3>1, <3>2
    <2> QED BY <2>1, <2>5 DEF CopiesAreFresh
  <1>4. ASSUME NEW r \in Requests, GetNotFound(r)
        PROVE  CopiesAreFresh'
    <2>1. configMap' = configMap /\ seen'[r] = NewConfigMap
      BY <1>4 DEF GetNotFound, TypeOK
    <2>2. \A q \in Requests \ {r} : seen'[q] = seen[q] /\ pc'[q] = pc[q]
      BY <1>4 DEF GetNotFound, TypeOK
    <2>3. configMap.resourceVersion \in Nat
      BY DEF TypeOK, ConfigMaps
    <2>4. /\ seen'[r].exists = FALSE
          /\ seen'[r].resourceVersion = 0
          /\ seen'[r].data = NoData
      BY <2>1 DEF NewConfigMap
    <2>5. /\ configMap'.exists <=> configMap'.resourceVersion # 0
          /\ ~configMap'.exists => configMap'.data = NoData
      BY <2>1 DEF CopiesAreFresh
    <2>6. ASSUME NEW q \in Requests, pc'[q] = "write"
          PROVE  /\ seen'[q].exists <=> seen'[q].resourceVersion # 0
                 /\ seen'[q].resourceVersion <= configMap'.resourceVersion
                 /\ ~seen'[q].exists => seen'[q].data = NoData
                 /\ seen'[q].exists /\ seen'[q].resourceVersion = configMap'.resourceVersion
                      => seen'[q].data = configMap'.data
      <3>1. CASE q = r
        BY <2>1, <2>3, <2>4, <3>1
      <3>2. CASE q # r
        BY <2>1, <2>2, <2>6, <3>2 DEF CopiesAreFresh
      <3> QED BY <3>1, <3>2
    <2> QED BY <2>5, <2>6 DEF CopiesAreFresh
  <1>5. ASSUME NEW r \in Requests, GetFails(r)
        PROVE  CopiesAreFresh'
    BY <1>0, <1>5 DEF GetFails, TypeOK
  <1>6. ASSUME NEW r \in Requests, Write(r)
        PROVE  CopiesAreFresh'
    BY <1>6, WritesStaleOtherCopies DEF Write, TypeOK
  <1>7. ASSUME NEW r \in Requests, WriteRejected(r)
        PROVE  CopiesAreFresh'
    BY <1>0, <1>7 DEF WriteRejected, TypeOK
  <1>8. ASSUME NEW r \in Requests, WriteFails(r)
        PROVE  CopiesAreFresh'
    <2>1. \A q \in Requests : pc'[q] = "write" => pc[q] = "write"
      BY <1>8 DEF WriteFails, TypeOK
    <2>2. CASE UNCHANGED configMap
      BY <1>0, <1>8, <2>1, <2>2 DEF WriteFails
    <2>3. CASE configMap' = Stored(Edited(r))
      BY <1>8, <2>1, <2>3, WritesStaleOtherCopies DEF WriteFails
    <2> QED BY <1>8, <2>2, <2>3 DEF WriteFails
  <1>9. CASE UNCHANGED vars
    BY <1>0, <1>9 DEF vars
  <1> QED BY <1>1, <1>2, <1>3, <1>4, <1>5, <1>6, <1>7, <1>8, <1>9 DEF Next, Step

\* What an accepted write puts back for other applications is never stale.
THEOREM FreshCopies == Spec => []CopiesAreFresh
  <1>1. Init => TypeOK /\ CopiesAreFresh
    BY InitTypeOK, InitCopiesAreFresh
  <1>2. (TypeOK /\ CopiesAreFresh) /\ [Next]_vars => (TypeOK /\ CopiesAreFresh)'
    BY StepTypeOK, StepCopiesAreFresh
  <1> QED BY <1>1, <1>2, PTL DEF Spec

-------------------------------------------------------------------------------
\* What an accepted write does.

\* An accepted write changes the request's own key of the latest data.
LEMMA AcceptedWritesEditTheLatest ==
    ASSUME TypeOK, CopiesAreFresh, NEW r \in Requests, pc[r] = "write", Accepts(r),
           configMap' = Stored(Edited(r))
    PROVE  configMap'.data =
             [configMap.data EXCEPT ![KeyOf(r)] =
                IF job[r].op = "deploy" THEN Rendered(job[r]) ELSE NoGroup]
  <1>1. seen[r].data = configMap.data
    <2>1. CASE seen[r].resourceVersion = 0
      BY <2>1 DEF Accepts, CopiesAreFresh
    <2>2. CASE seen[r].resourceVersion # 0
      BY <2>2 DEF Accepts, CopiesAreFresh
    <2> QED BY <2>1, <2>2
  <1>2. configMap'.data = Edited(r)
    BY DEF Stored
  <1> QED BY <1>1, <1>2, EditsTouchOneKey

\* The writes of one step of Next.
LEMMA OnlyAcceptedWritesChangeTheConfigMap ==
    ASSUME TypeOK, [Next]_vars, configMap' # configMap
    PROVE  \E r \in Requests : /\ pc[r] = "write"
                               /\ pc'[r] \in {"ok", "failed"}
                               /\ Accepts(r)
                               /\ configMap' = Stored(Edited(r))
  BY DEF Next, Step, Start, NoAlerts, GetFound, GetNotFound, GetFails, Write,
         WriteRejected, WriteFails, Goto, vars, TypeOK

\* Whoever is about to write has alerts to add or an application to delete.
WritersHaveWork == \A r \in Requests : pc[r] = "write" => ~NothingToAdd(r)

LEMMA StepWritersHaveWork ==
    ASSUME TypeOK, WritersHaveWork, [Next]_vars
    PROVE  WritersHaveWork'
  <1> USE DEF WritersHaveWork, NothingToAdd, Goto, TypeOK
  <1>1. ASSUME NEW r \in Requests, NEW j \in Jobs, Start(r, j)
        PROVE  WritersHaveWork'
    BY <1>1 DEF Start
  <1>2. ASSUME NEW r \in Requests, Step(r)
        PROVE  WritersHaveWork'
    BY <1>2 DEF Step, NoAlerts, GetFound, GetNotFound, GetFails, Write,
                WriteRejected, WriteFails, Getting
  <1>3. CASE UNCHANGED vars
    BY <1>3 DEF vars
  <1> QED BY <1>1, <1>2, <1>3 DEF Next

\* The same with keys for specs, which names with dashes may share.
AlertsStayUnderTheirKey ==
    \A r \in Requests : Deployed(r) =>
        \/ configMap.data[KeyOf(r)] = Rendered(job[r])
        \/ \E q \in Requests \ {r} : pc[q] \in {"ok", "failed"} /\ KeyOf(q) = KeyOf(r)

\* A step answers one request at most; the answered stay as they are.
LEMMA StepAnswersOne ==
    ASSUME TypeOK, [Next]_vars, NEW r \in Requests, pc[r] \in {"ok", "failed", "panicked"}
    PROVE  pc'[r] = pc[r] /\ job'[r] = job[r]
  BY DEF Next, Step, Start, NoAlerts, GetFound, GetNotFound, GetFails, Getting, Write,
         WriteRejected, WriteFails, Goto, vars, TypeOK

\* A deploy of alerts is answered with success only by the write that stored them.
LEMMA OnlyWritesDeploy ==
    ASSUME TypeOK, WritersHaveWork, [Next]_vars, NEW r \in Requests,
           ~Deployed(r), Deployed(r)'
    PROVE  /\ pc[r] = "write"
           /\ Accepts(r)
           /\ configMap' = Stored(Edited(r))
           /\ job' = job
           /\ job[r].op = "deploy"
  BY DEF Deployed, NothingToAdd, Next, Step, Start, NoAlerts, GetFound, GetNotFound,
         GetFails, Getting, Write, WriteRejected, WriteFails, Goto, vars, TypeOK

LEMMA StepAlertsStayUnderTheirKey ==
    ASSUME TypeOK, CopiesAreFresh, WritersHaveWork, AlertsStayUnderTheirKey, [Next]_vars
    PROVE  AlertsStayUnderTheirKey'
  <1> SUFFICES ASSUME NEW r \in Requests, Deployed(r)',
                      ~\E q \in Requests \ {r} : pc'[q] \in {"ok", "failed"}
                                              /\ KeyOf(q)' = KeyOf(r)'
               PROVE  configMap'.data[KeyOf(r)'] = Rendered(job'[r])
    BY DEF AlertsStayUnderTheirKey
  <1>1. configMap.data \in [Keys -> Groups \cup {NoGroup}]
    BY DEF TypeOK, ConfigMaps
  <1>2. CASE ~Deployed(r)
    <2>1. /\ pc[r] = "write" /\ Accepts(r) /\ configMap' = Stored(Edited(r))
          /\ job' = job /\ job[r].op = "deploy"
      BY <1>2, OnlyWritesDeploy
    <2>2. configMap'.data = [configMap.data EXCEPT ![KeyOf(r)] = Rendered(job[r])]
      BY <2>1, AcceptedWritesEditTheLatest
    <2>3. KeyOf(r) \in Keys
      BY <2>1, EditsTouchOneKey
    <2> QED BY <1>1, <2>1, <2>2, <2>3 DEF KeyOf
  <1>3. CASE Deployed(r)
    <2>1. pc'[r] = pc[r] /\ job'[r] = job[r]
      BY <1>3, StepAnswersOne DEF Deployed
    <2>2. KeyOf(r)' = KeyOf(r)
      BY <2>1 DEF KeyOf
    <2>3. ~\E q \in Requests \ {r} : pc[q] \in {"ok", "failed"} /\ KeyOf(q) = KeyOf(r)
      <3> SUFFICES ASSUME NEW q \in Requests \ {r}, pc[q] \in {"ok", "failed"},
                          KeyOf(q) = KeyOf(r)
                   PROVE  FALSE
        OBVIOUS
      <3>1. pc'[q] = pc[q] /\ job'[q] = job[q]
        BY StepAnswersOne
      <3> QED BY <2>2, <3>1 DEF KeyOf
    <2>4. configMap.data[KeyOf(r)] = Rendered(job[r])
      BY <1>3, <2>3 DEF AlertsStayUnderTheirKey
    <2>5. CASE configMap' = configMap
      BY <2>1, <2>2, <2>4, <2>5
    <2>6. CASE configMap' # configMap
      <3>1. PICK q \in Requests : /\ pc[q] = "write"
                                  /\ pc'[q] \in {"ok", "failed"}
                                  /\ Accepts(q)
                                  /\ configMap' = Stored(Edited(q))
        BY <2>6, OnlyAcceptedWritesChangeTheConfigMap
      <3>2. q # r /\ job'[q] = job[q]
        <4>1. job' = job
          BY <3>1 DEF Next, Step, Start, NoAlerts, GetFound, GetNotFound, GetFails, Getting,
                      Write, WriteRejected, WriteFails, Goto, vars, TypeOK
        <4> QED BY <1>3, <3>1, <4>1 DEF Deployed
      <3>3. KeyOf(q) # KeyOf(r)
        BY <2>2, <3>1, <3>2 DEF KeyOf
      <3>4. KeyOf(r) \in Keys
        BY <1>3, EditsTouchOneKey DEF Deployed
      <3>5. configMap'.data[KeyOf(r)] = configMap.data[KeyOf(r)]
        BY <1>1, <3>1, <3>3, <3>4, AcceptedWritesEditTheLatest
      <3> QED BY <2>1, <2>2, <2>4, <3>5
    <2> QED BY <2>5, <2>6
  <1> QED BY <1>2, <1>3

\* Specs that have keys of their own.
KeysAreDistinct == \A s, t \in Specs :
                      createDeploymentPrefix(s) = createDeploymentPrefix(t) => s = t

\* When no two specs share a key, the alerts of a deploy answered with success
\* stay as deployed until a request for the same team, application and
\* namespace has answered.
THEOREM AlertsStay ==
    ASSUME KeysAreDistinct
    PROVE  Spec => []AlertsStayAsDeployed
  <1>1. Init => TypeOK /\ CopiesAreFresh /\ WritersHaveWork /\ AlertsStayUnderTheirKey
    BY InitTypeOK, InitCopiesAreFresh
       DEF Init, WritersHaveWork, AlertsStayUnderTheirKey, Deployed
  <1>2. (TypeOK /\ CopiesAreFresh /\ WritersHaveWork /\ AlertsStayUnderTheirKey)
          /\ [Next]_vars =>
            (TypeOK /\ CopiesAreFresh /\ WritersHaveWork /\ AlertsStayUnderTheirKey)'
    BY StepTypeOK, StepCopiesAreFresh, StepWritersHaveWork, StepAlertsStayUnderTheirKey
  <1>3. TypeOK /\ AlertsStayUnderTheirKey => AlertsStayAsDeployed
    <2> SUFFICES ASSUME TypeOK, AlertsStayUnderTheirKey, NEW r \in Requests, Deployed(r),
                        AnsweredForTheSame(r) = {}
                 PROVE  configMap.data[KeyOf(r)] = Rendered(job[r])
      BY DEF AlertsStayAsDeployed
    <2> SUFFICES ASSUME NEW q \in Requests \ {r}, pc[q] \in {"ok", "failed"},
                        KeyOf(q) = KeyOf(r)
                 PROVE  q \in AnsweredForTheSame(r)
      BY DEF AlertsStayUnderTheirKey
    <2>1. job[q] \in Jobs /\ job[r] \in Jobs
      BY DEF TypeOK, Deployed
    <2>2. job[q].spec \in Specs /\ job[r].spec \in Specs
      BY <2>1, JobsHaveKeys
    <2>3. job[q].spec = job[r].spec
      BY <2>2 DEF KeyOf, KeysAreDistinct
    <2> QED BY <2>3 DEF AnsweredForTheSame
  <1> QED BY <1>1, <1>2, <1>3, PTL DEF Spec

\* The parts of a name, a dash, and a name without one.
LEMMA DashedAppend ==
    ASSUME NEW Parts, NEW name \in Seq(Parts \cup {"-"}), NEW last \in Seq(Parts)
    PROVE  LET key == name \o <<"-">> \o last
           IN  /\ key \in Seq(Parts \cup {"-"})
               /\ Len(key) = Len(name) + 1 + Len(last)
               /\ \A i \in 1 .. Len(name) : key[i] = name[i]
               /\ key[Len(name) + 1] = "-"
               /\ \A i \in 1 .. Len(last) : key[Len(name) + 1 + i] = last[i]
  <1> DEFINE Pieces == Parts \cup {"-"}
             dashed == name \o <<"-">>
             key == dashed \o last
  <1> HIDE DEF Pieces, dashed, key
  <1>1. name \in Seq(Pieces) /\ last \in Seq(Pieces) /\ <<"-">> \in Seq(Pieces)
    BY DEF Pieces
  <1>2. Len(<<"-">>) = 1 /\ <<"-">>[1] = "-"
    OBVIOUS
  <1>3. /\ dashed \in Seq(Pieces) /\ Len(dashed) = Len(name) + 1
        /\ dashed[Len(name) + 1] = "-"
        /\ \A i \in 1 .. Len(name) : dashed[i] = name[i]
    BY <1>1, <1>2, ConcatProperties DEF dashed
  <1>4. /\ key \in Seq(Pieces) /\ Len(key) = Len(dashed) + Len(last)
        /\ \A i \in 1 .. Len(dashed) + Len(last) :
             key[i] = IF i <= Len(dashed) THEN dashed[i] ELSE last[i - Len(dashed)]
    BY <1>1, <1>3, ConcatProperties DEF key
  <1>5. Len(name) \in Nat /\ Len(last) \in Nat
    OBVIOUS
  <1>6. /\ Len(key) = Len(name) + 1 + Len(last)
        /\ \A i \in 1 .. Len(name) : key[i] = name[i]
        /\ key[Len(name) + 1] = "-"
    BY <1>3, <1>4, <1>5
  <1>7. ASSUME NEW i \in 1 .. Len(last)
        PROVE  key[Len(name) + 1 + i] = last[i]
    <2>1. /\ Len(name) + 1 + i \in 1 .. Len(dashed) + Len(last)
          /\ ~(Len(name) + 1 + i <= Len(dashed))
          /\ Len(name) + 1 + i - Len(dashed) = i
      BY <1>3, <1>5
    <2> QED BY <1>4, <2>1
  <1> QED BY <1>4, <1>6, <1>7 DEF Pieces, dashed, key

\* What follows the last dash, and what precedes it, can be read back.
LEMMA LastDash ==
    ASSUME NEW Parts, "-" \notin Parts,
           NEW A \in Seq(Parts \cup {"-"}), NEW B \in Seq(Parts \cup {"-"}),
           NEW a \in Seq(Parts), NEW b \in Seq(Parts),
           A \o <<"-">> \o a = B \o <<"-">> \o b
    PROVE  A = B /\ a = b
  <1> DEFINE key == A \o <<"-">> \o a
  <1>1. /\ Len(key) = Len(A) + 1 + Len(a) /\ key[Len(A) + 1] = "-"
        /\ \A i \in 1 .. Len(A) : key[i] = A[i]
        /\ \A i \in 1 .. Len(a) : key[Len(A) + 1 + i] = a[i]
    BY DashedAppend
  <1>2. /\ Len(key) = Len(B) + 1 + Len(b) /\ key[Len(B) + 1] = "-"
        /\ \A i \in 1 .. Len(B) : key[i] = B[i]
        /\ \A i \in 1 .. Len(b) : key[Len(B) + 1 + i] = b[i]
    BY DashedAppend
  <1> HIDE DEF key
  <1>3. /\ Len(A) \in Nat /\ Len(B) \in Nat /\ Len(a) \in Nat /\ Len(b) \in Nat
        /\ \A i \in 1 .. Len(a) : a[i] # "-"
        /\ \A i \in 1 .. Len(b) : b[i] # "-"
    OBVIOUS
  <1>4. ~(Len(A) < Len(B))
    <2> SUFFICES ASSUME Len(A) < Len(B) PROVE FALSE
      OBVIOUS
    <2>1. Len(B) - Len(A) \in 1 .. Len(a)
      BY <1>1, <1>2, <1>3
    <2>2. key[Len(A) + 1 + (Len(B) - Len(A))] = a[Len(B) - Len(A)]
      BY <1>1, <2>1
    <2>3. Len(A) + 1 + (Len(B) - Len(A)) = Len(B) + 1
      BY <1>3
    <2> QED BY <1>2, <1>3, <2>1, <2>2, <2>3
  <1>5. ~(Len(B) < Len(A))
    <2> SUFFICES ASSUME Len(B) < Len(A) PROVE FALSE
      OBVIOUS
    <2>1. Len(A) - Len(B) \in 1 .. Len(b)
      BY <1>1, <1>2, <1>3
    <2>2. key[Len(B) + 1 + (Len(A) - Len(B))] = b[Len(A) - Len(B)]
      BY <1>2, <2>1
    <2>3. Len(B) + 1 + (Len(A) - Len(B)) = Len(A) + 1
      BY <1>3
    <2> QED BY <1>1, <1>3, <2>1, <2>2, <2>3
  <1>6. Len(A) = Len(B) /\ Len(a) = Len(b)
    BY <1>1, <1>2, <1>3, <1>4, <1>5
  <1>7. A = B
    <2>1. \A i \in 1 .. Len(A) : A[i] = B[i]
      BY <1>1, <1>2, <1>6
    <2> QED BY <1>6, <2>1, SeqEqual
  <1>8. a = b
    <2>1. \A i \in 1 .. Len(a) : a[i] = b[i]
      BY <1>1, <1>2, <1>6
    <2> QED BY <1>6, <2>1, SeqEqual
  <1> QED BY <1>7, <1>8

\* Names without a dash make distinct keys.
THEOREM DashlessNamesHaveKeys ==
    ASSUME NEW Parts, "-" \notin Parts,
           Teams \subseteq Seq(Parts), Apps \subseteq Seq(Parts), Namespaces \subseteq Seq(Parts)
    PROVE  KeysAreDistinct
  <1> SUFFICES ASSUME NEW s \in Specs, NEW t \in Specs,
                      createDeploymentPrefix(s) = createDeploymentPrefix(t)
               PROVE  s = t
    BY DEF KeysAreDistinct
  <1> DEFINE Pieces == Parts \cup {"-"}
  <1>1. ASSUME NEW u \in Specs
        PROVE  /\ u.team \in Seq(Parts) /\ u.team \in Seq(Pieces)
               /\ u.application \in Seq(Parts) /\ u.namespace \in Seq(Parts)
               /\ u = [team |-> u.team, application |-> u.application,
                       namespace |-> u.namespace]
    <2>1. /\ u.team \in Teams \cup {<<>>} /\ u.application \in Apps /\ u.namespace \in Namespaces
          /\ u = [team |-> u.team, application |-> u.application, namespace |-> u.namespace]
      BY DEF Specs
    <2>2. u.team \in Seq(Parts)
      BY <2>1, EmptySeq
    <2>3. u.team \in Seq(Pieces)
      BY <2>2, SeqMonotonic
    <2> QED BY <2>1, <2>2, <2>3
  <1> DEFINE S == s.team \o <<"-">> \o s.application
             T == t.team \o <<"-">> \o t.application
  <1>2. S \in Seq(Pieces) /\ T \in Seq(Pieces)
    BY <1>1, DashedAppend
  <1>3. S \o <<"-">> \o s.namespace = T \o <<"-">> \o t.namespace
    BY DEF createDeploymentPrefix
  <1>4. \A A, B \in Seq(Pieces), a, b \in Seq(Parts) :
          A \o <<"-">> \o a = B \o <<"-">> \o b => A = B /\ a = b
    BY LastDash
  <1>5. /\ s.team \in Seq(Pieces) /\ s.application \in Seq(Parts) /\ s.namespace \in Seq(Parts)
        /\ t.team \in Seq(Pieces) /\ t.application \in Seq(Parts) /\ t.namespace \in Seq(Parts)
    BY <1>1
  <1> HIDE DEF Pieces
  <1>6. S = T /\ s.namespace = t.namespace
    <2> HIDE DEF S, T
    <2>1. S \o <<"-">> \o s.namespace = T \o <<"-">> \o t.namespace
            => S = T /\ s.namespace = t.namespace
      BY <1>2, <1>4, <1>5, Zenon
    <2> QED BY <1>3, <2>1
  <1>7. s.team = t.team /\ s.application = t.application
    <2>1. s.team \o <<"-">> \o s.application = t.team \o <<"-">> \o t.application
            => s.team = t.team /\ s.application = t.application
      BY <1>4, <1>5, Zenon
    <2> QED BY <1>6, <2>1
  <1> QED BY <1>1, <1>6, <1>7

\* Entries of app-rules change only in writes of requests for those entries.
THEOREM OwnEntriesOnly == Spec => EntriesChangeOnlyByTheirOwn
  <1> DEFINE OwnOnly == \A key \in Keys : configMap'.data[key] # configMap.data[key] =>
                          \E r \in Requests : /\ pc[r] = "write"
                                              /\ pc'[r] \in {"ok", "failed"}
                                              /\ KeyOf(r) = key
  <1>1. TypeOK /\ CopiesAreFresh /\ [Next]_vars => [OwnOnly]_vars
    <2> SUFFICES ASSUME TypeOK, CopiesAreFresh, [Next]_vars,
                        configMap' # configMap,
                        NEW key \in Keys, configMap'.data[key] # configMap.data[key]
                 PROVE  \E r \in Requests : /\ pc[r] = "write"
                                            /\ pc'[r] \in {"ok", "failed"}
                                            /\ KeyOf(r) = key
      OBVIOUS
    <2>1. PICK r \in Requests : /\ pc[r] = "write"
                                /\ pc'[r] \in {"ok", "failed"}
                                /\ Accepts(r)
                                /\ configMap' = Stored(Edited(r))
      BY OnlyAcceptedWritesChangeTheConfigMap
    <2>2. configMap.data \in [Keys -> Groups \cup {NoGroup}]
      BY DEF TypeOK, ConfigMaps
    <2>3. KeyOf(r) = key
      BY <2>1, <2>2, AcceptedWritesEditTheLatest
    <2> QED BY <2>1, <2>3
  <1>2. Spec => [](TypeOK /\ CopiesAreFresh)
    BY TypeCorrect, FreshCopies, PTL
  <1> QED BY <1>1, <1>2, PTL DEF Spec, EntriesChangeOnlyByTheirOwn

-------------------------------------------------------------------------------
\* Refinement of RuleBook.

\* No job, no order.
LEMMA NoJobIsUnasked == OrderOf(NoJob) = Book!Unasked
  BY NoJobAssumption DEF OrderOf, Jobs, Book!Unasked

LEMMA InitIsBookInit == Init => Book!Init
  <1> SUFFICES ASSUME Init PROVE Book!Init
    OBVIOUS
  <1>1. configMap.data = NoData
    BY DEF Init, NewConfigMap
  <1>2. configMap.data \in [Keys -> Groups \cup {NoGroup}]
    BY <1>1, NewConfigMapIsEmpty
  <1>3. \A r \in Requests : OrderOf(job[r]) = Book!Unasked
    BY NoJobIsUnasked DEF Init
  <1>4. \A r \in Requests : AnswerOf(r) = Book!Unanswered
    BY DEF Init, AnswerOf, Book!Unanswered
  <1> QED BY <1>2, <1>3, <1>4 DEF Book!Init

\* What a job asks of the book.
LEMMA JobsAreOrders ==
    ASSUME NEW j \in Jobs
    PROVE  /\ OrderOf(j) \in Book!Orders
           /\ OrderOf(j) # Book!Unasked
           /\ j.op = "deploy" /\ j.alerts = {} => OrderOf(j) = Book!Nothing
           /\ ~(j.op = "deploy" /\ j.alerts = {}) =>
                OrderOf(j) = [want |-> "change", key |-> createDeploymentPrefix(j.spec),
                              entry |-> IF j.op = "deploy" THEN Rendered(j) ELSE NoGroup]
  <1>1. j # NoJob
    BY NoJobAssumption
  <1>2. CASE j.op = "deploy" /\ j.alerts = {}
    <2>1. OrderOf(j) = Book!Nothing
      BY <1>1, <1>2, JobsHaveKeys DEF OrderOf, Book!Nothing
    <2> QED BY <1>2, <2>1 DEF Book!Orders, Book!Nothing, Book!Unasked
  <1>3. CASE ~(j.op = "deploy" /\ j.alerts = {})
    <2>1. OrderOf(j) = [want |-> "change", key |-> createDeploymentPrefix(j.spec),
                        entry |-> IF j.op = "deploy" THEN Rendered(j) ELSE NoGroup]
      BY <1>1, <1>3, JobsHaveKeys DEF OrderOf
    <2>2. OrderOf(j) \in Book!Changes
      BY <2>1, JobsHaveKeys DEF Book!Changes
    <2> QED BY <1>3, <2>1, <2>2 DEF Book!Orders, Book!Unasked
  <1> QED BY <1>2, <1>3

\* The orders and answers a step of one handler changes.
LEMMA AnswersFollowPc ==
    ASSUME TypeOK, NEW r \in Requests, NEW label, pc' = [pc EXCEPT ![r] = label]
    PROVE  [q \in Requests |-> AnswerOf(q)]' =
             [[q \in Requests |-> AnswerOf(q)] EXCEPT ![r] =
                CASE label = "ok" -> "ok"
                  [] label \in {"failed", "panicked"} -> "failed"
                  [] OTHER -> "unanswered"]
  BY DEF TypeOK, AnswerOf

LEMMA StepIsBookStep ==
    ASSUME TypeOK, CopiesAreFresh, WritersHaveWork, [Next]_vars
    PROVE  [Book!Next]_(Book!vars)
  <1> DEFINE order == [r \in Requests |-> OrderOf(job[r])]
             answer == [r \in Requests |-> AnswerOf(r)]
  <1> USE DEF Goto
  <1>1. ASSUME NEW r \in Requests, NEW j \in Jobs, Start(r, j)
        PROVE  Book!Ask(r)
    <2>1. configMap' = configMap /\ pc[r] = "idle" /\ job' = [job EXCEPT ![r] = j]
      BY <1>1 DEF Start
    <2>2. order[r] = Book!Unasked
      <3>1. job[r] = NoJob
        BY <2>1 DEF TypeOK
      <3> QED BY <3>1, NoJobIsUnasked
    <2>3. order' = [order EXCEPT ![r] = OrderOf(j)]
      BY <2>1 DEF TypeOK
    <2>4. answer' = answer
      <3>1. answer' = [answer EXCEPT ![r] = "unanswered"]
        BY <1>1, AnswersFollowPc DEF Start
      <3>2. answer[r] = "unanswered"
        BY <2>1 DEF AnswerOf
      <3> QED BY <3>1, <3>2
    <2>5. OrderOf(j) \in Book!Orders
      BY JobsAreOrders
    <2> QED BY <2>1, <2>2, <2>3, <2>4, <2>5 DEF Book!Ask
  \* A started, unfinished request is a pending one.
  <1>2. ASSUME NEW r \in Requests, pc[r] \in {"get", "write"}
        PROVE  Book!Pending(r) /\ job[r] \in Jobs
    <2>1. job[r] \in Jobs
      BY <1>2 DEF TypeOK
    <2>2. answer[r] = Book!Unanswered
      BY <1>2 DEF AnswerOf, Book!Unanswered
    <2> QED BY <2>1, <2>2, JobsAreOrders DEF Book!Pending
  \* A handler that ends with a failure and leaves app-rules alone.
  <1>3. ASSUME NEW r \in Requests, NEW label \in {"failed", "panicked"},
               pc[r] \in {"get", "write"}, pc' = [pc EXCEPT ![r] = label],
               UNCHANGED <<configMap, job>>
        PROVE  Book!Refuse(r)
    <2>1. answer' = [answer EXCEPT ![r] = "failed"]
      BY <1>3, AnswersFollowPc
    <2>2. order' = order /\ configMap'.data = configMap.data
      BY <1>3
    <2> QED BY <1>2, <1>3, <2>1, <2>2 DEF Book!Refuse, Book!Answer
  \* A handler whose write is stored, whatever the answer.
  <1>4. ASSUME NEW r \in Requests, NEW label \in {"ok", "failed"},
               pc[r] = "write", pc' = [pc EXCEPT ![r] = label], Accepts(r),
               ~NothingToAdd(r), configMap' = Stored(Edited(r)), UNCHANGED job
        PROVE  Book!Apply(r)
    <2>1. answer' = [answer EXCEPT ![r] = label]
      BY <1>4, AnswersFollowPc
    <2>2. order[r] = [want |-> "change", key |-> KeyOf(r),
                      entry |-> IF job[r].op = "deploy" THEN Rendered(job[r]) ELSE NoGroup]
      BY <1>2, <1>4, JobsAreOrders DEF NothingToAdd, KeyOf
    <2>3. configMap'.data = [configMap.data EXCEPT ![order[r].key] = order[r].entry]
      BY <1>4, <2>2, AcceptedWritesEditTheLatest
    <2>4. order[r] # Book!Nothing
      BY <2>2 DEF Book!Nothing
    <2>5. order' = order
      BY <1>4
    <2> QED BY <1>2, <1>4, <2>1, <2>3, <2>4, <2>5 DEF Book!Apply, Book!Answer
  <1>5. ASSUME NEW r \in Requests, NoAlerts(r)
        PROVE  Book!Acknowledge(r)
    <2>1. pc[r] = "get" /\ NothingToAdd(r) /\ UNCHANGED <<configMap, job>>
      BY <1>5 DEF NoAlerts
    <2>2. order[r] = Book!Nothing /\ order' = order
      BY <1>2, <2>1, JobsAreOrders DEF NothingToAdd
    <2>3. answer' = [answer EXCEPT ![r] = "ok"]
      BY <1>5, AnswersFollowPc DEF NoAlerts
    <2> QED BY <1>2, <2>1, <2>2, <2>3 DEF Book!Acknowledge, Book!Answer
  <1>6. ASSUME NEW r \in Requests, GetFound(r)
        PROVE  UNCHANGED Book!vars
    <2>1. pc[r] = "get" /\ UNCHANGED <<configMap, job>>
      BY <1>6 DEF GetFound, Getting
    <2>2. answer' = [answer EXCEPT ![r] = "unanswered"]
      BY <1>6, AnswersFollowPc DEF GetFound
    <2>3. answer[r] = "unanswered"
      BY <2>1 DEF AnswerOf
    <2> QED BY <2>1, <2>2, <2>3 DEF Book!vars
  <1>7. ASSUME NEW r \in Requests, GetNotFound(r)
        PROVE  Book!Refuse(r) \/ UNCHANGED Book!vars
    <2>1. pc[r] = "get" /\ UNCHANGED <<configMap, job>>
      BY <1>7 DEF GetNotFound, Getting
    <2>2. CASE job[r].op = "deploy"
      <3>1. answer' = [answer EXCEPT ![r] = "unanswered"]
        BY <1>7, <2>2, AnswersFollowPc DEF GetNotFound
      <3>2. answer[r] = "unanswered"
        BY <2>1 DEF AnswerOf
      <3> QED BY <2>1, <3>1, <3>2 DEF Book!vars
    <2>3. CASE job[r].op # "deploy"
      BY <1>3, <1>7, <2>1, <2>3 DEF GetNotFound
    <2> QED BY <2>2, <2>3
  <1>8. ASSUME NEW r \in Requests, GetFails(r)
        PROVE  Book!Refuse(r)
    BY <1>3, <1>8 DEF GetFails, Getting
  <1>9. ASSUME NEW r \in Requests, Write(r)
        PROVE  Book!Apply(r)
    BY <1>4, <1>9 DEF Write, WritersHaveWork
  <1>10. ASSUME NEW r \in Requests, WriteRejected(r)
         PROVE  Book!Refuse(r)
    BY <1>3, <1>10 DEF WriteRejected
  <1>11. ASSUME NEW r \in Requests, WriteFails(r)
         PROVE  Book!Refuse(r) \/ Book!Apply(r)
    <2>1. CASE UNCHANGED configMap
      BY <1>3, <1>11, <2>1 DEF WriteFails
    <2>2. CASE Accepts(r) /\ configMap' = Stored(Edited(r))
      BY <1>4, <1>11, <2>2 DEF WriteFails, WritersHaveWork
    <2> QED BY <1>11, <2>1, <2>2 DEF WriteFails
  <1>12. CASE UNCHANGED vars
    BY <1>12 DEF vars, AnswerOf, Book!vars
  <1> QED BY <1>1, <1>5, <1>6, <1>7, <1>8, <1>9, <1>10, <1>11, <1>12
          DEF Next, Step, Book!Next

\* The two handlers implement the rule book: each call makes exactly its own
\* change to the latest book, in one step, or none.
THEOREM RuleBookImplemented == Spec => ImplementsRuleBook
  <1>1. Init => Book!Init
    BY InitIsBookInit
  <1>2. Init => TypeOK /\ CopiesAreFresh /\ WritersHaveWork
    BY InitTypeOK, InitCopiesAreFresh DEF Init, WritersHaveWork
  <1>3. (TypeOK /\ CopiesAreFresh /\ WritersHaveWork) /\ [Next]_vars =>
          (TypeOK /\ CopiesAreFresh /\ WritersHaveWork)'
    BY StepTypeOK, StepCopiesAreFresh, StepWritersHaveWork
  <1>4. (TypeOK /\ CopiesAreFresh /\ WritersHaveWork) /\ [Next]_vars =>
          [Book!Next]_(Book!vars)
    BY StepIsBookStep
  <1> QED BY <1>1, <1>2, <1>3, <1>4, PTL DEF Spec, ImplementsRuleBook, Book!Spec
===============================================================================
