--------------------------- MODULE LoadTestProofs ---------------------------
(***************************************************************************)
(* Proofs about LoadTest, for any number of sessions, changes, runs and    *)
(* crashes.  Types first; then the goroutine of the active run (LiveInv),  *)
(* what is said of it (StatusInv), and the order in which run IDs travel   *)
(* (OrderInv).                                                             *)
(***************************************************************************)
EXTENDS LoadTest, TLAPS

\* The values runSupervisor.active takes.
LEMMA ActiveType ==
  /\ Idle \in [run: 0..MaxRun, stopping: BOOLEAN]
  /\ \A x \in 0..MaxRun :
        [run |-> x, stopping |-> FALSE] \in [run: 0..MaxRun, stopping: BOOLEAN]
<1>1. 0 \in 0..MaxRun
  BY LoadTestAssumption
<1>2. \A x \in 0..MaxRun :
         [run |-> x, stopping |-> FALSE] \in [run: 0..MaxRun, stopping: BOOLEAN]
  OBVIOUS
<1>3. QED BY <1>1, <1>2 DEF Idle, NoRun

\* Before anything happened no run exists.
LEMMA InitInv == Init => IInv
<1> SUFFICES ASSUME Init PROVE IInv
  OBVIOUS
<1>1. doc \in Documents /\ cache \in Documents
  BY LoadTestAssumption DEF Init, Documents, NoRun
<1>2. status \in Statuses /\ mem \in Statuses
  BY LoadTestAssumption DEF Init, Statuses, States, NoRun
<1>3. active \in [run: 0..MaxRun, stopping: BOOLEAN] /\ fresh \in BOOLEAN
  BY ActiveType DEF Init
<1>4. TypeOK
  <2>1. form \in [Admins -> 0..MaxVersion] /\ started \in [Runs -> Nat]
    BY LoadTestAssumption DEF Init
  <2>2. issued \in 0..MaxRun /\ crashes \in 0..MaxCrashes
    BY LoadTestAssumption DEF Init
  <2>3. /\ pc \in {"down", "loop", "write", "wait", "exit"}
        /\ live \subseteq Runs /\ persisted \subseteq Runs
        /\ done \in {"none", "ok", "failed"}
    BY DEF Init
  <2>4. QED BY <1>1, <1>2, <1>3, <2>1, <2>2, <2>3 DEF TypeOK
<1>5. LiveInv /\ StatusInv
  BY DEF Init, LiveInv, StatusInv, StillActive, Idle, NoRun
<1>6. OrderInv
  BY DEF Init, OrderInv, Up, NoRun
<1>7. QED BY <1>4, <1>5, <1>6 DEF IInv

\* An accepted change writes a document again.
LEMMA ChangeType ==
  ASSUME TypeOK, NEW new \in Documents, doc.version < MaxVersion
  PROVE  [new EXCEPT !.version = doc.version + 1] \in Documents
<1>1. doc.version + 1 \in 0..MaxVersion
  BY LoadTestAssumption DEF TypeOK, Documents
<1>2. QED BY <1>1 DEF Documents

\* The documents that the admin service makes of the current one.
LEMMA EditType ==
  ASSUME TypeOK
  PROVE  /\ [doc EXCEPT !.enabled = FALSE] \in Documents
         /\ issued < MaxRun =>
               [doc EXCEPT !.enabled = TRUE, !.run = issued + 1] \in Documents
<1>1. issued < MaxRun => issued + 1 \in 0..MaxRun
  BY LoadTestAssumption DEF TypeOK
<1>2. doc \in Documents
  BY DEF TypeOK
<1>3. QED BY <1>1, <1>2 DEF Documents

\* The steps of the admin service keep the types.
LEMMA AdminType ==
  ASSUME TypeOK, NEW a \in Admins,
         TestSnapshot(a) \/ UpdateTest(a) \/ StartTest(a) \/ StopTest(a)
  PROVE  TypeOK'
<1>1. UNCHANGED supervisorVars
  BY DEF TestSnapshot, UpdateTest, StartTest, StopTest, Change
<1>2. doc' \in Documents
  <2>1. CASE TestSnapshot(a)
    BY <2>1 DEF TestSnapshot, TypeOK
  <2>2. CASE UpdateTest(a)
    BY <2>2, ChangeType DEF UpdateTest, Change, matchRevision, TypeOK
  <2>3. CASE StartTest(a)
    BY <2>3, ChangeType, EditType DEF StartTest, Change
  <2>4. CASE StopTest(a)
    BY <2>4, ChangeType, EditType DEF StopTest, Change
  <2>5. QED BY <2>1, <2>2, <2>3, <2>4
<1>3. issued' \in 0..MaxRun
  BY LoadTestAssumption DEF TestSnapshot, UpdateTest, StartTest, StopTest, Change, matchRevision, TypeOK
<1>4. doc.version \in 0..MaxVersion
  BY DEF TypeOK, Documents
<1>5. form' \in [Admins -> 0..MaxVersion]
  BY <1>4 DEF TestSnapshot, UpdateTest, StartTest, StopTest, Change, matchRevision, TypeOK
<1>6. QED BY <1>1, <1>2, <1>3, <1>5 DEF TypeOK, supervisorVars

\* The supervisor's advance keeps the types.
LEMMA AdvanceType ==
  ASSUME TypeOK, advance
  PROVE  TypeOK'
<1>1. \A st \in States : [mem EXCEPT !.state = st] \in Statuses
  BY DEF TypeOK, Statuses
<1>2. Collected \in Statuses
  BY <1>1 DEF Collected, TypeOK, States
<1>3. cache.run \in 0..MaxRun
  BY DEF TypeOK, Documents
<1>4. /\ pc' = "write"
      /\ UNCHANGED <<doc, form, issued, cache, status, fresh, persisted, crashes>>
  BY DEF advance, adminVars
<1>5. CASE StillActive
  <2>1. [active EXCEPT !.stopping = TRUE] \in [run: 0..MaxRun, stopping: BOOLEAN]
    BY DEF TypeOK
  <2>2. mem' \in Statuses /\ active' \in [run: 0..MaxRun, stopping: BOOLEAN]
    BY <1>1, <1>5, <2>1 DEF advance, TypeOK, States
  <2>3. UNCHANGED <<live, done, started>>
    BY <1>5 DEF advance
  <2>4. QED BY <1>4, <2>2, <2>3 DEF TypeOK
<1>6. CASE ~StillActive /\ (~cache.enabled \/ cache.run \in {NoRun, mem.run})
  <2>1. active' \in [run: 0..MaxRun, stopping: BOOLEAN]
    BY <1>6, ActiveType DEF advance
  <2>2. mem' = Collected /\ done' = "none" /\ UNCHANGED <<live, started>>
    BY <1>6 DEF advance
  <2>3. QED BY <1>2, <1>4, <2>1, <2>2 DEF TypeOK
<1>7. CASE ~StillActive /\ ~(~cache.enabled \/ cache.run \in {NoRun, mem.run})
  <2>1. cache.run \in Runs
    BY <1>3, <1>7, LoadTestAssumption DEF Runs, NoRun
  <2>2. mem' \in Statuses
    BY <1>3, <1>7 DEF advance, Statuses, States
  <2>3. active' \in [run: 0..MaxRun, stopping: BOOLEAN]
    BY <1>3, <1>7, ActiveType DEF advance
  <2>4. /\ live' = live \cup {cache.run} /\ done' = "none"
        /\ started' = [started EXCEPT ![cache.run] = @ + 1]
    BY <1>7 DEF advance
  <2>5. live' \subseteq Runs /\ started' \in [Runs -> Nat]
    BY <2>1, <2>4 DEF TypeOK
  <2>6. QED BY <1>4, <2>2, <2>3, <2>4, <2>5 DEF TypeOK
<1>8. QED BY <1>5, <1>6, <1>7

\* Every step keeps the types.
LEMMA StepType == IInv /\ [Next]_vars => TypeOK'
<1> SUFFICES ASSUME TypeOK, [Next]_vars PROVE TypeOK'
  BY DEF IInv
<1>1. ASSUME NEW a \in Admins,
             TestSnapshot(a) \/ UpdateTest(a) \/ StartTest(a) \/ StopTest(a)
      PROVE  TypeOK'
  BY <1>1, AdminType
<1>2. CASE syncMockAPIKey
  <2>1. doc' \in Documents
    BY <1>2, ChangeType DEF syncMockAPIKey, TypeOK
  <2>2. QED BY <1>2, <2>1 DEF syncMockAPIKey, TypeOK, supervisorVars
<1>3. CASE Age \/ Reload
  BY <1>3 DEF Age, Reload, adminVars, TypeOK
<1>4. ASSUME NEW x \in Runs, RunEnds(x) PROVE TypeOK'
  <2>1. done' \in {"none", "ok", "failed"} /\ live' \subseteq Runs
    BY <1>4 DEF RunEnds, TypeOK
  <2>2. QED BY <1>4, <2>1 DEF RunEnds, adminVars, TypeOK
<1>5. CASE Leave \/ Crash \/ Stopped
  <2>1. active' \in [run: 0..MaxRun, stopping: BOOLEAN]
    BY <1>5, ActiveType DEF Leave, Crash, Stopped, TypeOK
  <2>2. crashes' \in 0..MaxCrashes
    BY <1>5, LoadTestAssumption DEF Leave, Crash, Stopped, TypeOK
  <2>3. QED BY <1>5, <2>1, <2>2 DEF Leave, Crash, Stopped, adminVars, TypeOK
<1>6. CASE advance
  BY <1>6, AdvanceType
<1>7. CASE WriteRunStatus
  <2>1. {mem.run} \ {NoRun} \subseteq Runs
    BY LoadTestAssumption DEF TypeOK, Statuses, Runs, NoRun
  <2>2. QED BY <1>7, <2>1 DEF WriteRunStatus, adminVars, TypeOK
<1>8. CASE NextTick
  BY <1>8 DEF NextTick, adminVars, TypeOK
<1>9. CASE Supervise
  <2>1. mem' \in Statuses
    BY <1>9 DEF Supervise, TypeOK, Statuses, States
  <2>2. QED BY <1>9, <2>1 DEF Supervise, adminVars, TypeOK
<1>10. CASE UNCHANGED vars
  BY <1>10 DEF vars, TypeOK
<1>11. QED
  BY <1>1, <1>2, <1>3, <1>4, <1>5, <1>6, <1>7, <1>8, <1>9, <1>10
  DEF Next, AdminRequest, SupervisorStep

\* The supervisor's goroutine accounting.
LEMMA StepLive == IInv /\ [Next]_vars => LiveInv'
<1> SUFFICES ASSUME IInv, [Next]_vars PROVE LiveInv'
  OBVIOUS
<1> USE DEF LiveInv, StillActive, Idle
<1>1. TypeOK /\ LiveInv
  BY DEF IInv
<1>2. ASSUME NEW a \in Admins,
             TestSnapshot(a) \/ UpdateTest(a) \/ StartTest(a) \/ StopTest(a)
      PROVE  LiveInv'
  BY <1>1, <1>2 DEF TestSnapshot, UpdateTest, StartTest, StopTest, Change, matchRevision, supervisorVars
<1>3. CASE syncMockAPIKey \/ Age \/ Reload
  BY <1>1, <1>3 DEF syncMockAPIKey, Age, Reload, supervisorVars, adminVars
<1>4. ASSUME NEW x \in Runs, RunEnds(x) PROVE LiveInv'
  <2>1. active.run = x /\ live = {x}
    BY <1>1, <1>4 DEF RunEnds
  <2>2. done' \in {"ok", "failed"} /\ live' = {} /\ UNCHANGED <<active, pc>>
    BY <1>4, <2>1 DEF RunEnds
  <2>3. QED BY <1>1, <2>2
<1>5. CASE Leave \/ Crash \/ Stopped
  BY <1>1, <1>5 DEF Leave, Crash, Stopped, NoRun
<1>6. CASE advance
  <2>1. CASE StillActive
    BY <1>1, <1>6, <2>1 DEF advance, TypeOK
  <2>2. CASE ~StillActive /\ (~cache.enabled \/ cache.run \in {NoRun, mem.run})
    BY <1>1, <1>6, <2>2 DEF advance, NoRun
  <2>3. CASE ~StillActive /\ ~(~cache.enabled \/ cache.run \in {NoRun, mem.run})
    BY <1>1, <1>6, <2>3 DEF advance
  <2>4. QED BY <2>1, <2>2, <2>3
<1>7. CASE WriteRunStatus \/ NextTick \/ Supervise
  BY <1>1, <1>7 DEF WriteRunStatus, NextTick, Supervise
<1>8. CASE UNCHANGED vars
  BY <1>1, <1>8 DEF vars
<1>9. QED
  BY <1>2, <1>3, <1>4, <1>5, <1>6, <1>7, <1>8 DEF Next, AdminRequest, SupervisorStep

\* The status of the active run.
LEMMA StepStatus == IInv /\ [Next]_vars => StatusInv'
<1> SUFFICES ASSUME IInv, [Next]_vars PROVE StatusInv'
  OBVIOUS
<1> USE DEF StatusInv, StillActive
<1>1. TypeOK /\ LiveInv /\ StatusInv /\ OrderInv
  BY DEF IInv
<1>2. ASSUME NEW a \in Admins,
             TestSnapshot(a) \/ UpdateTest(a) \/ StartTest(a) \/ StopTest(a)
      PROVE  StatusInv'
  BY <1>1, <1>2 DEF TestSnapshot, UpdateTest, StartTest, StopTest, Change, matchRevision, supervisorVars
<1>3. CASE syncMockAPIKey \/ Age \/ Reload
  BY <1>1, <1>3 DEF syncMockAPIKey, Age, Reload, supervisorVars, adminVars
<1>4. ASSUME NEW x \in Runs, RunEnds(x) PROVE StatusInv'
  BY <1>1, <1>4 DEF RunEnds
<1>5. CASE Leave \/ Crash \/ Stopped
  BY <1>1, <1>5 DEF Leave, Crash, Stopped, Idle
<1>6. CASE advance
  <2>1. mem.run = status.run
    BY <1>1, <1>6 DEF advance, OrderInv
  <2>2. CASE StillActive
    BY <1>1, <1>6, <2>2 DEF advance, TypeOK, Statuses
  <2>3. CASE ~StillActive /\ (~cache.enabled \/ cache.run \in {NoRun, mem.run})
    BY <1>6, <2>3 DEF advance, Idle
  <2>4. CASE ~StillActive /\ ~(~cache.enabled \/ cache.run \in {NoRun, mem.run})
    BY <1>6, <2>1, <2>4 DEF advance
  <2>5. QED BY <2>2, <2>3, <2>4
<1>7. CASE WriteRunStatus \/ NextTick
  BY <1>1, <1>7 DEF WriteRunStatus, NextTick
<1>8. CASE Supervise
  BY <1>1, <1>8 DEF Supervise, LiveInv, Idle
<1>9. CASE UNCHANGED vars
  BY <1>1, <1>9 DEF vars
<1>10. QED
  BY <1>2, <1>3, <1>4, <1>5, <1>6, <1>7, <1>8, <1>9 DEF Next, AdminRequest, SupervisorStep

\* The way of a run ID from the admin service to the status file.
LEMMA StepOrder == IInv /\ [Next]_vars => OrderInv'
<1> SUFFICES ASSUME IInv, [Next]_vars PROVE OrderInv'
  OBVIOUS
<1> USE LoadTestAssumption DEF OrderInv, Up
<1>1. TypeOK /\ OrderInv
  BY DEF IInv
<1>2. /\ status.run \in Nat /\ mem.run \in Nat /\ cache.run \in Nat
      /\ doc.run \in Nat /\ issued \in Nat
  BY <1>1 DEF TypeOK, Documents, Statuses
<1>3. ASSUME NEW a \in Admins,
             TestSnapshot(a) \/ UpdateTest(a) \/ StartTest(a) \/ StopTest(a)
      PROVE  OrderInv'
  <2>1. UNCHANGED <<persisted, status, pc, mem, cache>>
    BY <1>3 DEF TestSnapshot, UpdateTest, StartTest, StopTest, Change, matchRevision, supervisorVars
  <2>2. doc'.run = issued' /\ doc.run <= doc'.run /\ doc'.run \in Nat
    <3>1. CASE TestSnapshot(a) \/ UpdateTest(a) \/ StopTest(a)
      <4>1. issued' = issued /\ doc'.run = doc.run
        BY <1>1, <3>1
        DEF TestSnapshot, UpdateTest, StopTest, Change, matchRevision, TypeOK, Documents
      <4>2. QED BY <1>1, <1>2, <4>1
    <3>2. CASE StartTest(a)
      <4>1. issued' = issued + 1 /\ doc'.run = issued + 1
        BY <1>1, <3>2 DEF StartTest, Change, matchRevision, TypeOK, Documents
      <4>2. QED BY <1>1, <1>2, <4>1
    <3>3. QED BY <1>3, <3>1, <3>2
  <2>3. QED BY <1>1, <1>2, <2>1, <2>2
<1>4. CASE syncMockAPIKey \/ Age \/ Reload
  <2>1. doc'.run = doc.run /\ issued' = issued
    BY <1>1, <1>4 DEF syncMockAPIKey, Age, Reload, adminVars, TypeOK, Documents
  <2>2. UNCHANGED <<persisted, status, pc, mem>> /\ cache' \in {cache, doc}
    BY <1>4 DEF syncMockAPIKey, Age, Reload, supervisorVars
  <2>3. QED BY <1>1, <1>2, <2>1, <2>2
<1>5. ASSUME NEW x \in Runs, RunEnds(x) PROVE OrderInv'
  BY <1>1, <1>5 DEF RunEnds, adminVars
<1>6. CASE Leave \/ Crash \/ Stopped
  BY <1>1, <1>2, <1>6 DEF Leave, Crash, Stopped, adminVars
<1>7. CASE advance
  <2>1. mem'.run \in {mem.run, cache.run}
    BY <1>1, <1>7 DEF advance, Collected, TypeOK, Statuses
  <2>2. QED BY <1>1, <1>2, <1>7, <2>1 DEF advance, adminVars
<1>8. CASE WriteRunStatus
  <2>1. persisted' \subseteq 1..mem.run
    <3>1. 1..status.run \subseteq 1..mem.run
      BY <1>1, <1>2, <1>8 DEF WriteRunStatus
    <3>2. {mem.run} \ {NoRun} \subseteq 1..mem.run
      BY <1>2 DEF NoRun
    <3>3. QED BY <1>1, <1>8, <3>1, <3>2 DEF WriteRunStatus
  <2>2. QED BY <1>1, <1>2, <1>8, <2>1 DEF WriteRunStatus, adminVars
<1>9. CASE NextTick
  BY <1>1, <1>9 DEF NextTick, adminVars
<1>10. CASE Supervise
  BY <1>1, <1>2, <1>10 DEF Supervise, adminVars
<1>11. CASE UNCHANGED vars
  BY <1>1, <1>11 DEF vars
<1>12. QED
  BY <1>3, <1>4, <1>5, <1>6, <1>7, <1>8, <1>9, <1>10, <1>11 DEF Next, AdminRequest, SupervisorStep

\* The inductive invariant of the admin service and the supervisor.
THEOREM Invariance == Spec => []IInv
<1>1. IInv /\ [Next]_vars => IInv'
  BY StepType, StepLive, StepStatus, StepOrder DEF IInv
<1>2. QED BY <1>1, InitInv, PTL DEF Spec

\* The document, the status file and the supervisor's state keep their types.
THEOREM TypeCorrectness == Spec => []TypeOK
<1>1. IInv => TypeOK
  BY DEF IInv
<1>2. QED BY <1>1, Invariance, PTL

\* The mock-client never drives two runs at once.
THEOREM SingleRun == Spec => []OneRunAtATime
<1>1. IInv => OneRunAtATime
  BY DEF IInv, LiveInv, OneRunAtATime
<1>2. QED BY <1>1, Invariance, PTL

\* The status file never calls a run over that still sends requests.
THEOREM TruthfulStatus == Spec => []StatusTellsTheTruth
<1>1. IInv => StatusTellsTheTruth
  BY DEF IInv, LiveInv, StatusInv, StatusTellsTheTruth
<1>2. QED BY <1>1, Invariance, PTL

\* Only advance starts a run, and its ID is above every recorded one.
LEMMA StepStartsNew == IInv /\ [Next]_vars => [StartsOnlyNew]_vars
<1> SUFFICES ASSUME IInv, Next PROVE StartsOnlyNew
  OBVIOUS
<1>1. CASE advance
  <2>1. CASE started' = started
    BY <2>1 DEF StartsOnlyNew
  <2>2. CASE started' # started
    <3>1. /\ cache.run # mem.run
          /\ started' = [started EXCEPT ![cache.run] = @ + 1]
      BY <1>1, <2>2 DEF advance
    <3>2. /\ status.run < cache.run
          /\ persisted \subseteq 1..status.run
          /\ status.run \in Nat /\ cache.run \in Nat
      BY <1>1, <3>1, LoadTestAssumption
      DEF advance, IInv, TypeOK, OrderInv, Up, Documents, Statuses
    <3>3. cache.run \notin persisted /\ persisted \subseteq Runs
      BY <3>2 DEF IInv, TypeOK
    <3>4. QED BY <3>1, <3>3 DEF StartsOnlyNew, IInv, TypeOK
  <2>3. QED BY <2>1, <2>2
<1>2. CASE ~advance
  <2>1. started' = started
    BY <1>2 DEF Next, AdminRequest, SupervisorStep, TestSnapshot, UpdateTest, StartTest, StopTest,
                Change, matchRevision, syncMockAPIKey, Age, Reload, RunEnds, Leave, Crash,
                WriteRunStatus, NextTick, Stopped, Supervise, supervisorVars
  <2>2. QED BY <2>1 DEF StartsOnlyNew
<1>3. QED BY <1>1, <1>2

\* No run whose ID has been in the status file is started again, however
\* often the mock-client crashes.
THEOREM NoReplay == Spec => PersistedNeverReplayed
<1>1. IInv /\ [Next]_vars => [StartsOnlyNew]_vars
  BY StepStartsNew
<1>2. QED BY <1>1, Invariance, PTL DEF Spec, PersistedNeverReplayed
=============================================================================
