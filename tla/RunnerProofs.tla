---------------------------- MODULE RunnerProofs ----------------------------
(***************************************************************************)
(* Proofs about Runner, for any configurations, number of workers, limits  *)
(* of attempts and of invalid results, times and changes.  Operations are  *)
(* counted with the cardinalities of the sets of workers at work.          *)
(***************************************************************************)
EXTENDS Runner, FiniteSetTheorems, TLAPS

\* What the loop reads has the types of a configuration.
LEMMA HeldType ==
  ASSUME TypeOK
  PROVE  /\ held.enabled \in BOOLEAN /\ held.limit \in Nat
         /\ held.slots \in Nat \ {0} /\ held.duration \in Nat
         /\ held.interval \in Nat \ {0}
         /\ cfg.duration \in Nat /\ cfg.interval \in Nat \ {0}
<1>1. NoConfig \in ValidConfigs
  BY DEF NoConfig, ValidConfigs
<1>2. Configs \subseteq ValidConfigs
  BY RunnerAssumption DEF ValidConfigs
<1>3. held \in ValidConfigs /\ cfg \in ValidConfigs
  BY <1>1, <1>2 DEF TypeOK
<1>4. QED BY <1>3 DEF ValidConfigs

\* The sets of workers are finite.
LEMMA WorkersFinite ==
  ASSUME NEW S, S \subseteq Workers
  PROVE  IsFiniteSet(S) /\ Cardinality(S) \in Nat
<1>1. IsFiniteSet(S)
  BY FS_Subset, RunnerAssumption
<1>2. QED BY <1>1, FS_CardinalityType

\* A new Runner has planned and counted nothing.
LEMMA InitInv == Init => IInv
<1> SUFFICES ASSUME Init PROVE IInv
  OBVIOUS
<1>0. /\ cfg \in ValidConfigs /\ cfg.interval \in Nat \ {0} /\ cfg.duration \in Nat
      /\ NoConfig.slots = 1
  BY RunnerAssumption DEF Init, ValidConfigs, NoConfig
<1>1. TypeOK
  <2>1. wake \in BOOLEAN /\ leaving \in BOOLEAN /\ stopped \in BOOLEAN /\ cancelled \in BOOLEAN
    BY DEF Init
  <2>2. QED BY <1>0, <2>1, RunnerAssumption DEF Init, TypeOK, Outcomes
<1>2. Working = {} /\ Uncounted = {}
  BY DEF Init, Working, Uncounted
<1>3. Accounted
  BY <1>2, FS_EmptySet DEF Init, Accounted
<1>4. LaunchInv /\ PathInv /\ TrackerInv /\ DoneInv
  BY RunnerAssumption DEF Init, LaunchInv, PathInv, TrackerInv, DoneInv
<1>5. QED BY <1>1, <1>3, <1>4 DEF IInv

\* The slots that Due counts.
LEMMA DueType ==
  ASSUME TypeOK, NEW t \in Nat
  PROVE  Due(t) \in Nat /\ next + Due(t) * interval \in Nat
<1>1. next \in Nat /\ interval \in Nat \ {0}
  BY DEF TypeOK
<1>2. Due(t) \in Nat
  BY <1>1 DEF Due
<1>3. \A a, b, c \in Nat : a + b * c \in Nat
  OBVIOUS
<1>4. QED BY <1>1, <1>2, <1>3

\* plan, on its own: what it counts and what it hands to launch.
LEMMA PlanStep ==
  ASSUME TypeOK, Accounted, pending = 0, NEW due \in Nat, NEW last \in BOOLEAN,
         plan(due, last)
  PROVE  /\ planned' \in Nat /\ dropped' \in Nat /\ pending' \in Nat
         /\ leaving' \in BOOLEAN /\ sched' = "launch"
         /\ planned' = dropped' + sent + pending'
         /\ pending' + inflight <= held.slots \/ pending' = 0
         /\ planned' > planned => held.limit = 0 \/ planned' <= held.limit
<1> DEFINE n == IF ~held.enabled THEN 0
                ELSE IF held.limit = 0 THEN due
                ELSE IF planned >= held.limit THEN 0
                ELSE Min(due, held.limit - planned)
           available == IF inflight >= held.slots THEN 0 ELSE held.slots - inflight
           go == Min(n, available)
<1>1. /\ planned \in Nat /\ dropped \in Nat /\ inflight \in Nat /\ sent \in Nat
      /\ planned = dropped + sent
  BY DEF TypeOK, Accounted
<1>2. n \in Nat /\ (n > 0 => held.limit = 0 \/ planned + n <= held.limit)
  BY <1>1, HeldType DEF Min
<1>3. available \in Nat /\ (available > 0 => available + inflight = held.slots)
  BY <1>1, HeldType
<1>4. go \in Nat /\ go <= n /\ go <= available
  BY <1>2, <1>3 DEF Min
<1>5. /\ planned' = planned + n /\ dropped' = dropped + (n - go) /\ pending' = go
      /\ sched' = "launch"
  BY DEF plan
<1>6. leaving' \in BOOLEAN
  BY DEF plan
<1> HIDE DEF n, available, go
<1>7. go + inflight <= held.slots \/ go = 0
  BY <1>1, <1>3, <1>4, HeldType
<1>8. QED BY <1>1, <1>2, <1>4, <1>5, <1>6, <1>7

\* The workers of the sets after a step that moves none of them.
LEMMA SameWorkers ==
  ASSUME UNCHANGED pc
  PROVE  Working' = Working /\ Uncounted' = Uncounted
BY DEF Working, Uncounted

\* Time, reloads, cancellation, and the cases of select.
LEMMA EnvironmentStep ==
  ASSUME IInv, \/ Clock \/ (\E c \in Configs : SetConfig(c)) \/ Cancel
               \/ CtxDone \/ TickerFires \/ TimerFires \/ Launched
  PROVE  IInv'
<1> USE DEF IInv, Clock, SetConfig, Cancel, CtxDone, TickerFires, TimerFires, Launched, Back,
        clockVars, tickerVars, planVars, trackerVars, countVars, workerVars
<1>1. UNCHANGED <<planned, dropped, pending, leaving, countVars, workerVars, trackerVars,
                  tickerVars, verdict>>
  OBVIOUS
<1>2. cfg' \in Configs /\ held' \in Configs \cup {NoConfig}
      /\ (sched' \in {"tick", "elapsed"} => held' \in Configs)
  BY DEF TypeOK
<1>3. changes' \in 0..MaxChanges /\ now' \in 0..MaxTime
  BY RunnerAssumption DEF TypeOK
<1>4. wake' \in BOOLEAN /\ cancelled' \in BOOLEAN
  BY DEF TypeOK
<1>5. sched' \in {"select", "tick", "elapsed", "launch", "drain", "done"}
      /\ (sched' = "done" => sched = "done")
  BY DEF TypeOK
<1>6. (sched' = "launch" => sched = "launch")
      /\ (held' = held \/ pending = 0)
  BY DEF LaunchInv
<1>7. TypeOK'
  BY <1>1, <1>2, <1>3, <1>4, <1>5 DEF TypeOK
<1>8. Accounted'
  BY <1>1, SameWorkers DEF Accounted
<1>9. LaunchInv'
  BY <1>1, <1>6 DEF LaunchInv
<1>10. PathInv' /\ TrackerInv'
  BY <1>1 DEF PathInv, TrackerInv
<1>11. DoneInv'
  BY <1>1, <1>5 DEF DoneInv
<1>12. QED BY <1>7, <1>8, <1>9, <1>10, <1>11

\* tick and durationElapsed: they return to select, or plan.
LEMMA PlanningStep ==
  ASSUME IInv, tick \/ durationElapsed
  PROVE  IInv' /\ (planned' > planned => held.limit = 0 \/ planned' <= held.limit)
<1> USE DEF IInv
<1>1. /\ pending = 0 /\ sched \in {"tick", "elapsed"} /\ held \in Configs
      /\ UNCHANGED <<cfg, changes, now, countVars, workerVars, trackerVars, cancelled, verdict>>
  BY DEF tick, durationElapsed, LaunchInv, TypeOK, clockVars
<1>2. now \in Nat /\ next \in Nat /\ interval \in Nat \ {0} /\ activeDuration \in Nat
  BY RunnerAssumption DEF TypeOK
<1>3. /\ next' \in Nat /\ interval' \in Nat \ {0} /\ activeDuration' \in Nat
      /\ wake' \in BOOLEAN
      /\ \/ Back("select")
         \/ held' = held /\ \E due \in Nat, last \in BOOLEAN : plan(due, last)
  <2>1. CASE tick
    <3> DEFINE finished == held.duration > 0 /\ now >= held.duration
               t == IF finished THEN held.duration ELSE now
    <3>1. t \in Nat /\ finished \in BOOLEAN
      BY <1>2, HeldType
    <3>2. Due(t) \in Nat /\ next + Due(t) * interval \in Nat
      BY <3>1, DueType
    <3>3. wake' \in BOOLEAN
      BY <2>1 DEF tick, TypeOK
    <3>4. activeDuration' \in Nat
      BY <2>1, HeldType DEF tick
    <3>5. CASE held.enabled
      <4>1. /\ interval' = held.interval /\ held' = held /\ plan(Due(t), finished)
            /\ next' = IF held.interval # interval THEN now + held.interval
                       ELSE next + Due(t) * interval
        BY <2>1, <3>5 DEF tick
      <4> HIDE DEF t, finished
      <4>2. QED BY <1>2, <3>1, <3>2, <3>3, <3>4, <4>1, HeldType
    <3>6. CASE ~held.enabled
      <4>1. interval' = interval /\ Back("select") /\ next' = next + Due(t) * interval
        BY <2>1, <3>6 DEF tick
      <4>2. QED BY <1>2, <3>2, <3>3, <3>4, <4>1
    <3>7. QED BY <3>5, <3>6
  <2>2. CASE durationElapsed
    <3>1. wake' \in BOOLEAN /\ interval' = interval
      BY <2>2 DEF durationElapsed, TypeOK, clockVars
    <3>2. Due(held.duration) \in Nat /\ next + Due(held.duration) * interval \in Nat
      BY HeldType, DueType
    <3>3. CASE held.duration = 0 \/ now < held.duration
      BY <1>2, <2>2, <3>1, <3>3, HeldType DEF durationElapsed
    <3>4. CASE ~(held.duration = 0 \/ now < held.duration)
      <4>1. /\ activeDuration' = activeDuration /\ held' = held
            /\ next' = next + Due(held.duration) * interval
            /\ plan(Due(held.duration), TRUE)
        BY <2>2, <3>4 DEF durationElapsed
      <4>2. QED BY <1>2, <3>1, <3>2, <4>1
    <3>5. QED BY <3>3, <3>4
  <2>3. QED BY <2>1, <2>2
<1>4. /\ planned' \in Nat /\ dropped' \in Nat /\ pending' \in Nat /\ leaving' \in BOOLEAN
      /\ planned' = dropped' + sent + pending'
      /\ pending' + inflight <= held'.slots \/ pending' = 0
      /\ planned' > planned => held.limit = 0 \/ planned' <= held.limit
      /\ \/ sched' = "launch" /\ held' = held
         \/ sched' = "select" /\ held' = NoConfig /\ pending' = 0
  <2>1. CASE Back("select")
    BY <1>1, <2>1 DEF Back, TypeOK, Accounted
  <2>2. CASE held' = held /\ \E due \in Nat, last \in BOOLEAN : plan(due, last)
    BY <1>1, <2>2, PlanStep
  <2>3. QED BY <1>3, <2>1, <2>2
<1>5. TypeOK'
  <2>1. held' \in Configs \cup {NoConfig} /\ sched' \notin {"tick", "elapsed"}
        /\ sched' \in {"select", "launch"}
    BY <1>1, <1>4
  <2>2. QED BY <1>1, <1>3, <1>4, <2>1
       DEF TypeOK, countVars, workerVars, trackerVars
<1>6. Accounted'
  BY <1>1, <1>4, SameWorkers DEF Accounted, countVars, workerVars
<1>7. LaunchInv'
  BY <1>1, <1>4 DEF LaunchInv, countVars
<1>8. PathInv' /\ TrackerInv'
  BY <1>1 DEF PathInv, TrackerInv, workerVars, trackerVars, countVars
<1>9. DoneInv'
  BY <1>1, <1>4 DEF DoneInv, countVars
<1>10. QED BY <1>4, <1>5, <1>6, <1>7, <1>8, <1>9

\* launch: an operation passes from pending to a free worker.
LEMMA LaunchStep ==
  ASSUME IInv, NEW w \in Workers, launch(w)
  PROVE  IInv' /\ inflight' <= held.slots
<1> USE DEF IInv
<1>1. /\ pending > 0 /\ pending \in Nat /\ inflight \in Nat /\ sched = "launch"
      /\ sent \in Nat /\ pending + inflight <= held.slots /\ pc[w] = "free"
  BY DEF launch, LaunchInv, TypeOK
<1>2. /\ w \notin Working /\ w \notin Uncounted
      /\ Working' = Working \cup {w} /\ Uncounted' = Uncounted \cup {w}
  BY <1>1 DEF launch, TypeOK, Working, Uncounted
<1>3. /\ Cardinality(Working') = Cardinality(Working) + 1
      /\ Cardinality(Uncounted') = Cardinality(Uncounted) + 1
      /\ Cardinality(Working) \in Nat /\ Cardinality(Uncounted) \in Nat
  <2>1. Working \subseteq Workers /\ Uncounted \subseteq Workers
    BY DEF Working, Uncounted
  <2>2. QED BY <1>2, <2>1, WorkersFinite, FS_AddElement
<1>4. Accounted'
  BY <1>1, <1>3 DEF launch, Accounted, TypeOK
<1>5. PICK s \in Scenarios : kind' = [kind EXCEPT ![w] = s]
  BY DEF launch
<1>6. PathInv' /\ TypeOK'
  <2>1. s \in {"request", "mask_only", "round_trip", "stable_retry", "expected_conflict"}
    BY <1>5, RunnerAssumption
  <2>2. 1 <= Requests(s) /\ 1 \in 0..3 /\ 1 \in 0..requestAttemptsLimit
    BY <2>1, RunnerAssumption DEF Requests
  <2>3. /\ kind' \in [Workers -> Scenarios \cup {"none"}]
        /\ req' \in [Workers -> 0..3]
        /\ attempt' \in [Workers -> 0..requestAttemptsLimit]
        /\ pc' \in [Workers -> {"free", "pace", "http", "backoff", "result", "count", "leave"}]
    BY <1>5, <2>2 DEF launch, TypeOK
  <2>4. pending' \in Nat /\ sent' \in Nat /\ inflight' \in Nat
    BY <1>1 DEF launch
  <2>5. TypeOK'
    BY <2>3, <2>4 DEF launch, TypeOK, clockVars, tickerVars, trackerVars
  <2>6. PathInv'
    BY <1>5, <2>1, <2>2 DEF launch, PathInv, TypeOK
  <2>7. QED BY <2>5, <2>6
<1>7. LaunchInv' /\ inflight' <= held.slots
  BY <1>1, HeldType DEF launch, LaunchInv
<1>8. TrackerInv' /\ DoneInv'
  BY <1>1 DEF launch, TrackerInv, DoneInv, TypeOK, trackerVars
<1>9. QED BY <1>4, <1>6, <1>7, <1>8

\* The report: what PASS stands for.
LEMMA ReportStep ==
  ASSUME IInv, report
  PROVE  IInv'
<1> USE DEF IInv
<1>1. /\ sched' = "done" /\ verdict' = Verdict /\ \A w \in Workers : pc[w] = "free"
      /\ UNCHANGED <<held, pending, leaving, planned, dropped, cfg, changes, clockVars,
                     tickerVars, trackerVars, countVars, workerVars, cancelled>>
  BY DEF report
<1>2. pending = 0
  BY DEF report, LaunchInv
<1>3. verdict' \in {"none", "CANCELLED", "HARNESS_ERROR", "PASS"}
  BY <1>1 DEF Verdict
<1>4. /\ verdict' = "PASS" => failed = 0 /\ dropped = 0 /\ success > 0
      /\ verdict' \notin {"PASS", "CANCELLED"} => failed > 0 \/ dropped > 0 \/ success = 0
  BY <1>1 DEF Verdict, TypeOK
<1>5. TypeOK'
  BY <1>1, <1>3 DEF TypeOK, clockVars, tickerVars, trackerVars, countVars, workerVars
<1>6. Accounted' /\ LaunchInv'
  BY <1>1, <1>2, SameWorkers DEF Accounted, LaunchInv, countVars, workerVars
<1>7. PathInv' /\ TrackerInv' /\ DoneInv'
  BY <1>1, <1>4 DEF PathInv, TrackerInv, DoneInv, trackerVars, countVars, workerVars
<1>8. QED BY <1>5, <1>6, <1>7

\* A worker between launch and result: the steps of one request.
LEMMA RequestStep ==
  ASSUME IInv, NEW w \in Workers,
         Pace(w) \/ Answered(w) \/ Rejected(w) \/ Retryable(w) \/ Backoff(w)
  PROVE  IInv'
<1> USE DEF IInv
<1>1. UNCHANGED <<kind, req, cfg, changes, clockVars, tickerVars, planVars,
                  trackerVars, countVars, cancelled, verdict>>
  BY DEF Pace, Answered, Rejected, Retryable, Backoff
<1>2. \E l \in {"pace", "http", "backoff", "result"}, o \in Outcomes :
         /\ pc' = [pc EXCEPT ![w] = l] /\ outcome' = [outcome EXCEPT ![w] = o]
         /\ l = "backoff" => attempt[w] # requestAttemptsLimit /\ attempt' = attempt
  <2>1. outcome = [outcome EXCEPT ![w] = outcome[w]] /\ outcome[w] \in Outcomes
    BY DEF TypeOK
  <2>2. CASE Pace(w) \/ Backoff(w)
    BY <2>1, <2>2 DEF Pace, Backoff, Goto, Conclude, Outcomes
  <2>3. CASE Answered(w) \/ Rejected(w)
    BY <2>3 DEF Answered, Rejected, Goto, Conclude, Outcomes, Invalid
  <2>4. CASE Retryable(w)
    BY <2>4 DEF Retryable, Goto, Outcomes, Invalid
  <2>5. QED BY <2>2, <2>3, <2>4
<1>3. PICK l \in {"pace", "http", "backoff", "result"}, o \in Outcomes :
         /\ pc' = [pc EXCEPT ![w] = l] /\ outcome' = [outcome EXCEPT ![w] = o]
         /\ l = "backoff" => attempt[w] # requestAttemptsLimit /\ attempt' = attempt
  BY <1>2
<1>4. attempt' \in [Workers -> 0..requestAttemptsLimit]
      /\ (\A v \in Workers : v # w => attempt'[v] = attempt[v])
  <2>1. CASE attempt' = attempt
    BY <2>1 DEF TypeOK
  <2>2. CASE pc[w] = "backoff" /\ attempt' = [attempt EXCEPT ![w] = attempt[w] + 1]
    <3>1. attempt[w] + 1 \in 0..requestAttemptsLimit
      BY <2>2, RunnerAssumption DEF PathInv, TypeOK
    <3>2. QED BY <2>2, <3>1 DEF TypeOK
  <2>3. attempt' = attempt \/ (pc[w] = "backoff" /\ attempt' = [attempt EXCEPT ![w] = attempt[w] + 1])
    BY DEF Pace, Answered, Rejected, Retryable, Backoff
  <2>4. QED BY <2>1, <2>2, <2>3
<1>5. pc[w] \in {"pace", "http", "backoff"}
  BY DEF Pace, Answered, Rejected, Retryable, Backoff
<1>6. Working' = Working /\ Uncounted' = Uncounted
  BY <1>3, <1>5 DEF Working, Uncounted, TypeOK
<1>7. TypeOK'
  <2>1. /\ pc' \in [Workers -> {"free", "pace", "http", "backoff", "result", "count", "leave"}]
        /\ outcome' \in [Workers -> Outcomes]
    BY <1>3 DEF TypeOK
  <2>2. QED BY <1>1, <1>4, <2>1
       DEF TypeOK, clockVars, tickerVars, planVars, trackerVars, countVars
<1>8. Accounted' /\ LaunchInv'
  BY <1>1, <1>6 DEF Accounted, LaunchInv, planVars, countVars
<1>9. PathInv'
  <2> SUFFICES ASSUME NEW v \in Workers
               PROVE  /\ pc'[v] # "free" => kind'[v] \in Scenarios /\ req'[v] <= Requests(kind'[v])
                      /\ pc'[v] = "backoff" => attempt'[v] < requestAttemptsLimit
    BY DEF PathInv
  <2>1. CASE v = w
    <3>1. kind[w] \in Scenarios /\ req[w] <= Requests(kind[w])
      BY <1>5 DEF PathInv
    <3>2. l = "backoff" => attempt'[w] < requestAttemptsLimit
      BY <1>3, RunnerAssumption DEF TypeOK
    <3>3. pc'[w] = l
      BY <1>3 DEF TypeOK
    <3>4. QED BY <1>1, <2>1, <3>1, <3>2, <3>3
  <2>2. CASE v # w
    BY <1>1, <1>3, <1>4, <2>2 DEF PathInv, TypeOK
  <2>3. QED BY <2>1, <2>2
<1>10. TrackerInv' /\ DoneInv'
  BY <1>1, <1>3, <1>5 DEF TrackerInv, DoneInv, TypeOK, planVars, trackerVars, countVars
<1>11. QED BY <1>7, <1>8, <1>9, <1>10

\* The tracker after a result.
LEMMA RecordStep ==
  ASSUME IInv, NEW o, record(o)
  PROVE  /\ consecutive' \in 0..consecutiveInvalidLimit
         /\ maximum' \in 0..consecutiveInvalidLimit
         /\ stopped' \in BOOLEAN
         /\ ~stopped' => consecutive' < consecutiveInvalidLimit
         /\ stopped' => stopped \/ o \in Invalid
<1> USE DEF IInv
<1>1. /\ consecutive \in 0..consecutiveInvalidLimit /\ maximum \in 0..consecutiveInvalidLimit
      /\ stopped \in BOOLEAN /\ consecutiveInvalidLimit \in Nat \ {0}
      /\ ~stopped => consecutive < consecutiveInvalidLimit
  BY RunnerAssumption DEF TypeOK, TrackerInv
<1>2. CASE stopped
  BY <1>1, <1>2 DEF record, trackerVars
<1>3. CASE ~stopped
  <2>1. consecutive' \in 0..consecutiveInvalidLimit
    BY <1>1, <1>3 DEF record
  <2>2. maximum' \in 0..consecutiveInvalidLimit
    BY <1>1, <1>3, <2>1 DEF record
  <2>3. stopped' = (consecutive' >= consecutiveInvalidLimit)
    BY <1>3 DEF record
  <2>4. consecutive' >= consecutiveInvalidLimit => o \in Invalid
    BY <1>1, <1>3 DEF record
  <2>5. stopped' \in BOOLEAN
    BY <2>3
  <2>6. ~stopped' => consecutive' < consecutiveInvalidLimit
    <3>1. consecutive' >= consecutiveInvalidLimit \/ consecutive' < consecutiveInvalidLimit
      BY <1>1, <2>1
    <3>2. QED BY <2>3, <3>1
  <2>7. stopped' => o \in Invalid
    BY <2>3, <2>4
  <2>8. QED BY <2>1, <2>2, <2>5, <2>6, <2>7
<1>4. QED BY <1>2, <1>3

\* A request is over: the next one of the operation, or its end.
LEMMA ResultStep ==
  ASSUME IInv, NEW w \in Workers, Result(w)
  PROVE  IInv'
<1> USE DEF IInv
<1>1. /\ pc[w] = "result" /\ record(outcome[w])
      /\ UNCHANGED <<kind, outcome, cfg, changes, clockVars, tickerVars, planVars, countVars,
                     cancelled, verdict>>
  BY DEF Result
<1>2. /\ kind[w] \in {"request", "mask_only", "round_trip", "stable_retry", "expected_conflict"}
      /\ kind[w] \in Scenarios /\ req[w] <= Requests(kind[w])
  BY <1>1, RunnerAssumption DEF PathInv
<1>3. Requests(kind[w]) \in 1..3
  BY <1>2 DEF Requests
<1>4. \/ /\ outcome[w] = "success" /\ req[w] < Requests(kind[w])
         /\ pc' = [pc EXCEPT ![w] = "pace"]
         /\ req' = [req EXCEPT ![w] = req[w] + 1]
         /\ attempt' = [attempt EXCEPT ![w] = 1]
      \/ pc' = [pc EXCEPT ![w] = "count"] /\ req' = req /\ attempt' = attempt
  BY DEF Result, Goto
<1>5. /\ req' \in [Workers -> 0..3] /\ req'[w] <= Requests(kind[w])
      /\ \A v \in Workers : v # w => req'[v] = req[v]
  <2>1. req[w] \in 0..3 /\ req \in [Workers -> 0..3]
    BY DEF TypeOK
  <2>2. QED BY <1>2, <1>3, <1>4, <2>1
<1>6. attempt' \in [Workers -> 0..requestAttemptsLimit]
      /\ \A v \in Workers : v # w => attempt'[v] = attempt[v]
  BY <1>4, RunnerAssumption DEF TypeOK
<1>7. /\ pc' \in [Workers -> {"free", "pace", "http", "backoff", "result", "count", "leave"}]
      /\ pc'[w] \in {"pace", "count"} /\ \A v \in Workers : v # w => pc'[v] = pc[v]
      /\ outcome[w] # "success" => pc'[w] = "count"
  BY <1>4 DEF TypeOK
<1>8. TypeOK'
  BY <1>1, <1>5, <1>6, <1>7, RecordStep
  DEF TypeOK, clockVars, tickerVars, planVars, countVars
<1>9. Working' = Working /\ Uncounted' = Uncounted
  BY <1>1, <1>7 DEF Working, Uncounted
<1>10. Accounted' /\ LaunchInv'
  BY <1>1, <1>9 DEF Accounted, LaunchInv, planVars, countVars
<1>11. PathInv'
  BY <1>1, <1>2, <1>5, <1>6, <1>7 DEF PathInv
<1>12. TrackerInv'
  <2>1. ~stopped' => consecutive' < consecutiveInvalidLimit
    BY <1>1, RecordStep
  <2>2. ASSUME stopped'
        PROVE  failed' > 0 \/ \E v \in Workers : pc'[v] = "count" /\ outcome'[v] \in Invalid
    <3>1. CASE stopped
      BY <1>1, <1>7, <3>1 DEF TrackerInv, countVars
    <3>2. CASE outcome[w] \in Invalid
      BY <1>1, <1>7, <3>2 DEF Invalid
    <3>3. QED BY <1>1, <2>2, <3>1, <3>2, RecordStep
  <2>3. QED BY <2>1, <2>2 DEF TrackerInv
<1>13. DoneInv'
  BY <1>1 DEF DoneInv, planVars, countVars
<1>14. QED BY <1>8, <1>10, <1>11, <1>12, <1>13

\* sendOne counts the operation as a success or a failure.
LEMMA CountStep ==
  ASSUME IInv, NEW w \in Workers, Count(w)
  PROVE  IInv'
<1> USE DEF IInv
<1>1. /\ pc[w] = "count" /\ pc' = [pc EXCEPT ![w] = "leave"]
      /\ UNCHANGED <<sent, inflight, kind, req, attempt, outcome, cfg, changes, clockVars,
                     tickerVars, planVars, trackerVars, cancelled, verdict>>
  BY DEF Count, Goto
<1>2. /\ success \in Nat /\ failed \in Nat /\ pairs \in Nat
      /\ success' \in Nat /\ failed' \in Nat /\ pairs' \in Nat
      /\ success' + failed' = success + failed + 1
      /\ failed' >= failed /\ (outcome[w] # "success" => failed' > 0)
      /\ pairs' - pairs <= success' - success
  BY DEF Count, TypeOK
<1>3. /\ w \in Uncounted /\ Uncounted' = Uncounted \ {w} /\ Working' = Working
      /\ Uncounted \subseteq Workers
  BY <1>1 DEF Working, Uncounted, TypeOK
<1>4. Cardinality(Uncounted') = Cardinality(Uncounted) - 1 /\ Cardinality(Uncounted) \in Nat
  BY <1>3, WorkersFinite, FS_RemoveElement
<1>5. Accounted'
  <2>1. /\ sent \in Nat /\ sent = success + failed + Cardinality(Uncounted)
        /\ planned = dropped + sent + pending /\ inflight = Cardinality(Working)
    BY DEF Accounted, TypeOK
  <2>2. UNCHANGED <<sent, inflight, planned, dropped, pending>>
    BY <1>1 DEF planVars
  <2>3. sent = success' + failed' + Cardinality(Uncounted')
    <3> DEFINE c == Cardinality(Uncounted)
    <3>1. /\ success \in Nat /\ failed \in Nat /\ c \in Nat
          /\ sent = success + failed + c
      BY <1>2, <1>4, <2>1
    <3> HIDE DEF c
    <3>2. CASE success' = success + 1 /\ failed' = failed
      <4>1. sent = success' + failed' + (c - 1)
        BY <3>1, <3>2
      <4>2. QED BY <1>4, <4>1 DEF c
    <3>3. CASE success' = success /\ failed' = failed + 1
      <4>1. sent = success' + failed' + (c - 1)
        BY <3>1, <3>3
      <4>2. QED BY <1>4, <4>1 DEF c
    <3>4. QED BY <3>2, <3>3 DEF Count
  <2>4. QED BY <1>3, <2>1, <2>2, <2>3 DEF Accounted
<1>6. TypeOK'
  <2>1. pc' \in [Workers -> {"free", "pace", "http", "backoff", "result", "count", "leave"}]
    BY <1>1 DEF TypeOK
  <2>2. QED BY <1>1, <1>2, <2>1 DEF TypeOK, clockVars, tickerVars, planVars, trackerVars
<1>7. LaunchInv' /\ PathInv'
  BY <1>1 DEF LaunchInv, PathInv, TypeOK, planVars
<1>8. TrackerInv'
  BY <1>1, <1>2 DEF TrackerInv, Invalid, TypeOK, trackerVars
<1>9. DoneInv'
  BY <1>1, <1>2 DEF DoneInv, planVars
<1>10. QED BY <1>5, <1>6, <1>7, <1>8, <1>9

\* A worker that has counted gives its slot back.
LEMMA LeaveStep ==
  ASSUME IInv, NEW w \in Workers, Leave(w)
  PROVE  IInv'
<1> USE DEF IInv
<1>1. /\ pc[w] = "leave" /\ pc' = [pc EXCEPT ![w] = "free"] /\ inflight' = inflight - 1
      /\ UNCHANGED <<sent, success, failed, pairs, cfg, changes, clockVars, tickerVars,
                     planVars, trackerVars, cancelled, verdict>>
  BY DEF Leave, Goto
<1>2. /\ w \in Working /\ Working' = Working \ {w} /\ Uncounted' = Uncounted
      /\ Working \subseteq Workers
  BY <1>1 DEF Working, Uncounted, TypeOK
<1>3. /\ Cardinality(Working') = Cardinality(Working) - 1
      /\ Cardinality(Working) \in Nat /\ Cardinality(Working') \in Nat
  <2>1. Working' \subseteq Workers
    BY <1>2
  <2>2. QED BY <1>2, <2>1, WorkersFinite, FS_RemoveElement
<1>4. Accounted' /\ inflight' \in Nat
  BY <1>1, <1>2, <1>3 DEF Accounted, planVars
<1>5. TypeOK'
  <2>1. /\ pc' \in [Workers -> {"free", "pace", "http", "backoff", "result", "count", "leave"}]
        /\ kind' \in [Workers -> Scenarios \cup {"none"}]
        /\ req' \in [Workers -> 0..3]
        /\ attempt' \in [Workers -> 0..requestAttemptsLimit]
        /\ outcome' \in [Workers -> Outcomes]
    BY RunnerAssumption DEF Leave, Goto, TypeOK, Outcomes
  <2>2. QED BY <1>1, <1>4, <2>1 DEF TypeOK, clockVars, tickerVars, planVars, trackerVars
<1>6. LaunchInv'
  <2>1. pending \in Nat /\ inflight \in Nat /\ held.slots \in Nat
    BY HeldType DEF TypeOK
  <2>2. QED BY <1>1, <2>1 DEF LaunchInv, planVars
<1>7. PathInv' /\ TrackerInv' /\ DoneInv'
  BY <1>1 DEF Leave, PathInv, TrackerInv, DoneInv, TypeOK, trackerVars, planVars
<1>8. QED BY <1>4, <1>5, <1>6, <1>7

\* Every step of loop, workers and environment keeps the invariant.
LEMMA StepInv == IInv /\ [Next]_vars => IInv'
<1> SUFFICES ASSUME IInv, [Next]_vars PROVE IInv'
  OBVIOUS
<1>1. CASE \/ Clock \/ (\E c \in Configs : SetConfig(c)) \/ Cancel
           \/ CtxDone \/ TickerFires \/ TimerFires \/ Launched
  BY <1>1, EnvironmentStep
<1>2. CASE tick \/ durationElapsed
  BY <1>2, PlanningStep
<1>3. CASE report
  BY <1>3, ReportStep
<1>4. CASE \E w \in Workers : launch(w)
  BY <1>4, LaunchStep
<1>5. CASE \E w \in Workers : WorkerStep(w)
  BY <1>5, RequestStep, ResultStep, CountStep, LeaveStep DEF WorkerStep
<1>6. CASE UNCHANGED vars
  <2>1. UNCHANGED <<cfg, changes, clockVars, tickerVars, planVars, trackerVars, countVars,
                    workerVars, cancelled, verdict>>
    BY <1>6 DEF vars
  <2>2. TypeOK' /\ LaunchInv' /\ PathInv' /\ TrackerInv' /\ DoneInv'
    BY <2>1 DEF IInv, TypeOK, LaunchInv, PathInv, TrackerInv, DoneInv, clockVars, tickerVars,
                planVars, trackerVars, countVars, workerVars
  <2>3. Accounted'
    BY <2>1, SameWorkers DEF IInv, Accounted, planVars, countVars, workerVars
  <2>4. QED BY <2>2, <2>3 DEF IInv
<1>7. QED BY <1>1, <1>2, <1>3, <1>4, <1>5, <1>6 DEF Next, reloadRunner, Planning

\* IInv is an invariant of every load run.
THEOREM Invariance == Spec => []IInv
BY InitInv, StepInv, PTL DEF Spec

\* The variables keep their types; no request is tried more often than
\* requestAttemptsLimit allows.
THEOREM TypeCorrectness == Spec => []TypeOK
<1>1. IInv => TypeOK
  BY DEF IInv
<1>2. QED BY <1>1, Invariance, PTL

\* No operation is lost or counted twice, whatever workers, reloads and
\* cancellation do.
THEOREM NothingLost == Spec => []Accounted
<1>1. IInv => Accounted
  BY DEF IInv
<1>2. QED BY <1>1, Invariance, PTL

\* Plans and launches stay within the limits of the configuration read.
THEOREM LimitsHold == Spec => WithinLimits
<1>1. IInv /\ [Next]_vars =>
        [/\ planned' > planned => held.limit = 0 \/ planned' <= held.limit
         /\ inflight' > inflight => inflight' <= held.slots]_vars
  <2> SUFFICES ASSUME IInv, [Next]_vars
               PROVE  /\ planned' > planned => held.limit = 0 \/ planned' <= held.limit
                      /\ inflight' > inflight => inflight' <= held.slots
    OBVIOUS
  <2>0. planned \in Nat /\ inflight \in Nat
    BY DEF IInv, TypeOK
  <2>1. CASE tick \/ durationElapsed
    <3>1. inflight' = inflight
      BY <2>1 DEF tick, durationElapsed, countVars
    <3>2. QED BY <2>0, <2>1, <3>1, PlanningStep
  <2>2. CASE \E w \in Workers : launch(w)
    <3>1. planned' = planned
      BY <2>2 DEF launch
    <3>2. QED BY <2>0, <2>2, <3>1, LaunchStep
  <2>3. CASE \E w \in Workers : Leave(w)
    BY <2>0, <2>3 DEF Leave, planVars
  <2>4. CASE \E w \in Workers : \/ Pace(w) \/ Answered(w) \/ Rejected(w) \/ Retryable(w)
                                \/ Backoff(w) \/ Result(w) \/ Count(w)
    <3>1. planned' = planned /\ inflight' = inflight
      BY <2>4 DEF Pace, Answered, Rejected, Retryable, Backoff, Result, Count, planVars, countVars
    <3>2. QED BY <2>0, <3>1
  <2>5. CASE \/ Clock \/ (\E c \in Configs : SetConfig(c)) \/ Cancel \/ CtxDone
             \/ TickerFires \/ TimerFires \/ Launched \/ report \/ UNCHANGED vars
    <3>1. planned' = planned /\ inflight' = inflight
      BY <2>5 DEF Clock, SetConfig, Cancel, CtxDone, TickerFires, TimerFires, Launched, Back,
                  report, vars, planVars, countVars
    <3>2. QED BY <2>0, <3>1
  <2>6. QED BY <2>1, <2>2, <2>3, <2>4, <2>5 DEF Next, reloadRunner, Planning, WorkerStep
<1>2. QED BY <1>1, Invariance, PTL DEF Spec, WithinLimits

\* The report adds up, and its verdict says no more than what happened.
THEOREM ReportIsHonest == Spec => []HonestReport
<1>1. IInv => HonestReport
  <2> SUFFICES ASSUME IInv, sched = "done"
               PROVE  /\ planned = dropped + success + failed
                      /\ pairs <= success
                      /\ verdict = "PASS" => success = planned /\ success > 0 /\ ~stopped
                      /\ \A met \in BOOLEAN :
                            finishReport(met) = "ok" <=> verdict = "PASS" /\ met
    BY DEF HonestReport
  <2>1. \A w \in Workers : pc[w] = "free"
    BY DEF IInv, DoneInv
  <2>2. Uncounted = {} /\ pending = 0
    BY <2>1 DEF IInv, LaunchInv, Uncounted
  <2>3. planned = dropped + success + failed
    BY <2>2, FS_EmptySet DEF IInv, Accounted, TypeOK
  <2>4. stopped => failed > 0
    BY <2>1 DEF IInv, TrackerInv
  <2>5. verdict = "PASS" => success = planned /\ success > 0 /\ ~stopped
    BY <2>3, <2>4 DEF IInv, DoneInv, TypeOK
  <2>6. ASSUME NEW met \in BOOLEAN
        PROVE  finishReport(met) = "ok" <=> verdict = "PASS" /\ met
    <3>1. loadStatus(met) = "PASS" <=> verdict = "PASS" /\ met
      BY <2>4 DEF loadStatus, IInv, DoneInv, TypeOK
    <3>2. loadStatus(met) \in {"PASS", "SLO_MISSED", "HARNESS_ERROR", "CANCELLED"}
      BY DEF loadStatus
    <3>3. QED BY <3>1, <3>2 DEF finishReport
  <2>7. QED BY <2>3, <2>5, <2>6 DEF IInv, DoneInv
<1>2. QED BY <1>1, Invariance, PTL

-----------------------------------------------------------------------------
(* The planned rate *)

\* What a quotient is.
LEMMA Quotient ==
  ASSUME NEW x \in Nat, NEW i \in Nat \ {0}
  PROVE  /\ x \div i \in Nat
         /\ (x \div i) * i <= x
         /\ x < (x \div i) * i + i
  OBVIOUS

\* Products of slots and intervals.
LEMMA Distribute ==
  ASSUME NEW a \in Nat, NEW b \in Nat, NEW i \in Nat
  PROVE  (a + b) * i = a * i + b * i /\ a * i \in Nat
  OBVIOUS

\* More slots take more time.
LEMMA Monotone ==
  ASSUME NEW a \in Nat, NEW b \in Nat, NEW i \in Nat \ {0}, a * i < b * i
  PROVE  a < b
<1>1. CASE b <= a
  <2>1. PICK c \in Nat : a = b + c
    <3>1. a - b \in Nat /\ a = b + (a - b)
      BY <1>1
    <3>2. QED BY <3>1
  <2>2. a * i = b * i + c * i /\ c * i \in Nat /\ b * i \in Nat
    BY <2>1, Distribute
  <2>3. QED BY <2>2
<1>2. QED BY <1>1

\* The slots that a duration holds are those that end within it.
LEMMA SlotsWithin ==
  ASSUME NEW k \in Nat, NEW d \in Nat, NEW i \in Nat \ {0},
         k * i <= d, d < (k + 1) * i
  PROVE  d \div i = k
<1> DEFINE q == d \div i
<1>1. q \in Nat /\ q * i <= d /\ d < q * i + i
  BY Quotient
<1> HIDE DEF q
<1>2. /\ q * i \in Nat /\ k * i \in Nat
      /\ (q + 1) * i = q * i + i /\ (k + 1) * i = k * i + i
      /\ (q + 1) * i \in Nat /\ (k + 1) * i \in Nat
  <2>1. 1 * i = i
    OBVIOUS
  <2>2. QED BY <1>1, <2>1, Distribute
<1>3. q * i < (k + 1) * i /\ k * i < (q + 1) * i
  BY <1>1, <1>2
<1>4. q < k + 1 /\ k < q + 1
  BY <1>1, <1>3, Monotone
<1>5. QED BY <1>1, <1>4 DEF q

\* Due counts exactly the slots up to time t that were not counted before.
LEMMA DueCounts ==
  ASSUME NEW k \in Nat, NEW t \in Nat, NEW i \in Nat \ {0},
         interval = i, next = (k + 1) * i
  PROVE  /\ Due(t) \in Nat
         /\ next + Due(t) * i = (k + Due(t) + 1) * i
         /\ t < next + Due(t) * i
         /\ t < next => Due(t) = 0
         /\ t >= next => (k + Due(t)) * i <= t
<1>0. next \in Nat /\ next = k * i + i /\ k * i \in Nat
  <2>1. 1 * i = i
    OBVIOUS
  <2>2. QED BY <2>1, Distribute
<1>1. CASE t < next
  <2>1. Due(t) = 0
    BY <1>1 DEF Due
  <2>2. 0 * i = 0 /\ k + 0 + 1 = k + 1
    OBVIOUS
  <2>3. QED BY <1>0, <1>1, <2>1, <2>2
<1>2. CASE t >= next
  <2> DEFINE x == t - next
             q == x \div i
  <2>1. x \in Nat /\ t = next + x
    BY <1>0, <1>2
  <2>2. q \in Nat /\ q * i <= x /\ x < q * i + i
    BY <2>1, Quotient
  <2>3. Due(t) = q + 1
    BY <1>0, <1>2 DEF Due
  <2> HIDE DEF x, q
  <2>4. /\ q * i \in Nat /\ (q + 1) * i = q * i + i
        /\ ((k + 1) + (q + 1)) * i = (k + 1) * i + (q + 1) * i
        /\ (k + (q + 1)) * i = k * i + (q + 1) * i
    <3>1. 1 * i = i
      OBVIOUS
    <3>2. QED BY <2>2, <3>1, Distribute
  <2>5. (k + 1) + (q + 1) = k + (q + 1) + 1
    BY <2>2
  <2>6. (k + (q + 1) + 1) * i = next + (q + 1) * i
    BY <2>4, <2>5
  <2>7. t < next + (q + 1) * i /\ (k + (q + 1)) * i <= t
    BY <1>0, <2>1, <2>2, <2>4
  <2>8. QED BY <1>0, <1>2, <2>2, <2>3, <2>6, <2>7
<1>3. QED BY <1>0, <1>1, <1>2

\* plan moves the count of operations along with that of slots, and ends the
\* loop on the last slot or at the limit.
LEMMA PlanTarget ==
  ASSUME TypeOK, held = cfg, NEW k \in Nat, NEW due \in Nat, NEW last \in BOOLEAN,
         planned = Target(k), plan(due, last)
  PROVE  /\ planned' = Target(k + due)
         /\ sched' = "launch"
         /\ leaving' => last \/ (cfg.enabled /\ cfg.limit > 0 /\ planned' = cfg.limit)
<1>1. cfg.enabled \in BOOLEAN /\ cfg.limit \in Nat
  BY HeldType
<1>2. planned' = Target(k + due)
  BY <1>1 DEF plan, Target, Min
<1>3. cfg.limit > 0 => planned' <= cfg.limit
  BY <1>1, <1>2 DEF Target, Min
<1>4. leaving' => last \/ (cfg.enabled /\ cfg.limit > 0 /\ planned' >= cfg.limit)
  BY DEF plan
<1>5. planned' \in Nat
  BY <1>1, <1>2 DEF Target, Min
<1>6. sched' = "launch"
  BY DEF plan
<1>7. QED BY <1>1, <1>2, <1>3, <1>4, <1>5, <1>6

\* No more slots than units of time have passed.
LEMMA SlotsBelowNext ==
  ASSUME NEW k \in Nat, NEW i \in Nat \ {0}
  PROVE  k \in 0..((k + 1) * i)
<1>1. PICK j \in Nat : i = j + 1
  <2>1. i - 1 \in Nat /\ i = (i - 1) + 1
    OBVIOUS
  <2>2. QED BY <2>1
<1>2. (k + 1) * (j + 1) = (k + 1) * j + (k + 1) /\ (k + 1) * j \in Nat
  BY <1>1
<1>3. QED BY <1>1, <1>2

\* The steps that neither plan nor end the loop.
LEMMA RateFrame ==
  ASSUME RateInv,
         UNCHANGED <<changes, cfg, interval, next, planned>>,
         changes = 0 /\ sched' \in {"tick", "elapsed", "launch"} => held' = cfg,
         Ending' => Ending
  PROVE  RateInv'
BY DEF RateInv, Counted, Target, Over

\* tick and durationElapsed count the slots up to now, or up to the duration.
LEMMA RatePlanning ==
  ASSUME IInv, RateInv, tick \/ durationElapsed
  PROVE  RateInv'
<1>1. UNCHANGED <<cfg, changes, now, trackerVars, cancelled>>
  BY DEF tick, durationElapsed, clockVars
<1>2. CASE changes # 0
  BY <1>1, <1>2 DEF RateInv
<1>3. CASE changes = 0
  <2> DEFINE i == cfg.interval
             d == cfg.duration
  <2>1. /\ TypeOK /\ held = cfg /\ interval = i
        /\ i \in Nat \ {0} /\ d \in Nat /\ now \in Nat /\ next \in Nat
    <3>1. TypeOK
      BY DEF IInv
    <3>2. sched \in {"tick", "elapsed"}
      BY DEF tick, durationElapsed
    <3>3. held = cfg /\ interval = i
      BY <1>3, <3>2 DEF RateInv
    <3>4. now \in Nat /\ next \in Nat
      BY <3>1, RunnerAssumption DEF TypeOK
    <3>5. i \in Nat \ {0} /\ d \in Nat
      BY <3>1, HeldType
    <3>6. QED BY <3>1, <3>3, <3>4, <3>5
  <2>2. PICK k \in 0..next : Counted(k)
    BY <1>3 DEF RateInv
  <2>3. /\ k \in Nat /\ next = (k + 1) * i /\ planned = Target(k)
        /\ d > 0 => k * i <= d
    BY <2>1, <2>2 DEF Counted
  <2>4. ASSUME NEW t \in Nat, d > 0 => t <= d,
               next' = next + Due(t) * i, interval' = i,
               planned' = Target(k + Due(t)),
               sched' \in {"tick", "elapsed", "launch"} => held' = cfg,
               Ending' => (d > 0 /\ t = d) \/ (cfg.enabled /\ cfg.limit > 0 /\ planned' = cfg.limit)
        PROVE  RateInv'
    <3>0. /\ Due(t) \in Nat
          /\ next + Due(t) * i = (k + Due(t) + 1) * i
          /\ t < next + Due(t) * i
          /\ t < next => Due(t) = 0
          /\ t >= next => (k + Due(t)) * i <= t
      BY <2>1, <2>3, DueCounts
    <3> PICK m \in Nat : m = k + Due(t)
      BY <2>3, <3>0
    <3>1. /\ next' = (m + 1) * i /\ t < next'
          /\ t < next => m = k
          /\ t >= next => m * i <= t
      BY <2>3, <2>4, <3>0
    <3>2. m \in Nat /\ m * i \in Nat
      BY <2>1
    <3>3. d > 0 => m * i <= d
      BY <2>1, <2>3, <2>4, <3>1, <3>2
    <3>4. m \in 0..next'
      BY <2>1, <3>1, <3>2, SlotsBelowNext
    <3>5. Counted(m)'
      <4>1. cfg' = cfg /\ planned' = Target(m)
        BY <1>1, <2>4
      <4>2. QED BY <3>1, <3>3, <4>1 DEF Counted, Target
    <3>6. Ending' => Over'
      BY <1>1, <2>4, <3>1 DEF Over
    <3>7. QED BY <1>1, <2>1, <2>4, <3>4, <3>5, <3>6 DEF RateInv
  <2>5. CASE tick
    <3> DEFINE finished == d > 0 /\ now >= d
               t == IF finished THEN d ELSE now
    <3>1. /\ t \in Nat /\ finished \in BOOLEAN /\ (d > 0 => t <= d)
          /\ (finished => d > 0 /\ t = d)
      BY <2>1
    <3>2. Due(t) \in Nat
      BY <2>1, <2>3, <3>1, DueCounts
    <3>3. CASE cfg.enabled
      <4>1. /\ interval' = i /\ held' = held /\ next' = next + Due(t) * i
            /\ plan(Due(t), finished)
        BY <2>1, <2>5, <3>3 DEF tick
      <4> HIDE DEF t, finished
      <4>2. /\ planned' = Target(k + Due(t)) /\ sched' = "launch"
            /\ leaving' => finished \/ (cfg.enabled /\ cfg.limit > 0 /\ planned' = cfg.limit)
        BY <2>1, <2>3, <3>1, <3>2, <4>1, PlanTarget
      <4>3. Ending' => leaving'
        BY <4>2 DEF Ending
      <4>4. QED BY <2>1, <2>4, <3>1, <4>1, <4>2, <4>3
    <3>4. CASE ~cfg.enabled
      <4>1. interval' = i /\ next' = next + Due(t) * i /\ Back("select")
        BY <2>1, <2>5, <3>4 DEF tick
      <4> HIDE DEF t, finished
      <4>2. planned' = Target(k + Due(t)) /\ sched' = "select"
        BY <2>3, <3>4, <4>1 DEF Back, Target
      <4>3. ~Ending'
        BY <4>2 DEF Ending
      <4>4. QED BY <2>4, <3>1, <4>1, <4>2, <4>3
    <3>5. QED BY <3>3, <3>4
  <2>6. CASE durationElapsed
    <3>1. CASE d = 0 \/ now < d
      <4>1. Back("select") /\ UNCHANGED <<next, interval>>
        BY <2>1, <2>6, <3>1 DEF durationElapsed
      <4>2. sched' = "select" /\ planned' = planned /\ ~Ending'
        BY <4>1 DEF Back, Ending
      <4>3. QED BY <1>1, <4>1, <4>2, RateFrame
    <3>2. CASE ~(d = 0 \/ now < d)
      <4>1. /\ interval' = i /\ held' = held /\ next' = next + Due(d) * i
            /\ plan(Due(d), TRUE)
        BY <2>1, <2>6, <3>2 DEF durationElapsed
      <4>2. Due(d) \in Nat
        BY <2>1, <2>3, DueCounts
      <4>3. planned' = Target(k + Due(d))
        <5> HIDE DEF d
        <5>1. TRUE \in BOOLEAN
          OBVIOUS
        <5>2. QED BY <2>1, <2>3, <4>1, <4>2, <5>1, PlanTarget
      <4>4. d > 0
        BY <2>1, <3>2
      <4>5. QED BY <2>1, <2>4, <4>1, <4>3, <4>4
    <3>3. QED BY <3>1, <3>2
  <2>7. QED BY <2>5, <2>6
<1>4. QED BY <1>2, <1>3

\* At the start no slot has been counted, and one interval is to pass.
LEMMA RateInit == Init => RateInv
<1> SUFFICES ASSUME Init PROVE RateInv
  OBVIOUS
<1>1. /\ cfg.interval \in Nat \ {0} /\ cfg.limit \in Nat /\ cfg.duration \in Nat
      /\ next = cfg.interval /\ interval = cfg.interval /\ planned = 0
      /\ sched = "select"
  BY RunnerAssumption DEF Init, ValidConfigs
<1>2. next = (0 + 1) * cfg.interval /\ 0 * cfg.interval = 0 /\ 0 \in 0..next
  BY <1>1
<1>3. Counted(0)
  BY <1>1, <1>2 DEF Counted, Target, Min
<1>4. ~Ending
  BY <1>1 DEF Ending
<1>5. QED BY <1>1, <1>2, <1>3, <1>4 DEF RateInv

\* The end of the context is final.
LEMMA DoneStays ==
  ASSUME IInv, [Next]_vars, Done
  PROVE  Done'
<1>1. CASE cancelled
  BY <1>1 DEF Done, Next, reloadRunner, Planning, WorkerStep, Clock, SetConfig, Cancel, CtxDone,
              TickerFires, TimerFires, tick, durationElapsed, launch, Launched, report,
              Pace, Answered, Rejected, Retryable, Backoff, Result, Count, Leave, vars
<1>2. CASE stopped
  BY <1>2 DEF Done, Next, reloadRunner, Planning, WorkerStep, Clock, SetConfig, Cancel, CtxDone,
              TickerFires, TimerFires, tick, durationElapsed, launch, Launched, report,
              Pace, Answered, Rejected, Retryable, Backoff, Result, record, Count, Leave,
              trackerVars, vars
<1>3. QED BY <1>1, <1>2 DEF Done

\* Every step keeps the count of slots.
LEMMA RateStep == IInv /\ RateInv /\ [Next]_vars => RateInv'
<1> SUFFICES ASSUME IInv, RateInv, [Next]_vars PROVE RateInv'
  OBVIOUS
<1>1. CASE tick \/ durationElapsed
  BY <1>1, RatePlanning
<1>2. CASE \E c \in Configs : SetConfig(c)
  <2>1. changes' # 0
    BY <1>2 DEF SetConfig, IInv, TypeOK
  <2>2. QED BY <2>1 DEF RateInv
<1>3. ASSUME UNCHANGED <<changes, cfg, interval, next, planned, leaving, held>>,
             sched' = sched \/ (sched = "drain" /\ sched' = "done")
      PROVE  RateInv'
  <2>1. Ending' => Ending
    BY <1>3, DoneStays DEF Ending
  <2>2. changes = 0 /\ sched' \in {"tick", "elapsed", "launch"} => held' = cfg
    BY <1>3 DEF RateInv
  <2>3. QED BY <1>3, <2>1, <2>2, RateFrame
<1>4. CASE Clock \/ Cancel \/ report \/ UNCHANGED vars
  BY <1>3, <1>4 DEF Clock, Cancel, report, vars, tickerVars, planVars
<1>5. CASE \E w \in Workers : launch(w) \/ WorkerStep(w)
  BY <1>3, <1>5 DEF launch, WorkerStep, Pace, Answered, Rejected, Retryable, Backoff, Result,
                    Count, Leave, tickerVars, planVars
<1>6. CASE CtxDone
  <2>1. ~Ending' /\ sched' = "drain"
    BY <1>6, DoneStays DEF CtxDone, Ending
  <2>2. QED BY <1>6, <2>1, RateFrame DEF CtxDone, tickerVars
<1>7. CASE TickerFires \/ TimerFires
  <2>1. ~Ending' /\ held' = cfg
    BY <1>7 DEF TickerFires, TimerFires, Ending
  <2>2. QED BY <1>7, <2>1, RateFrame DEF TickerFires, TimerFires, tickerVars
<1>8. CASE Launched
  <2>1. /\ sched = "launch" /\ sched' = IF leaving THEN "drain" ELSE "select"
        /\ UNCHANGED <<changes, cfg, interval, next, planned>>
    BY <1>8 DEF Launched, Back, tickerVars
  <2>2. Ending' => Ending
    BY <2>1 DEF Ending
  <2>3. QED BY <2>1, <2>2, RateFrame
<1>9. QED BY <1>1, <1>2, <1>4, <1>5, <1>6, <1>7, <1>8 DEF Next, reloadRunner, Planning

\* A run without reloads and cancellation plans every slot of its duration, or
\* reaches its limit, for any interval and however late the wake-ups are.
THEOREM PlannedRate == Spec => []FullRate
<1>1. IInv /\ RateInv => FullRate
  <2> SUFFICES ASSUME IInv, RateInv, sched \in {"drain", "done"}, ~Done, changes = 0
               PROVE  planned = IF ~cfg.enabled THEN 0
                                ELSE IF cfg.limit = 0 THEN cfg.duration \div cfg.interval
                                ELSE IF cfg.duration = 0 THEN cfg.limit
                                ELSE Min(cfg.limit, cfg.duration \div cfg.interval)
    BY DEF FullRate
  <2> DEFINE i == cfg.interval
             d == cfg.duration
  <2>1. /\ i \in Nat \ {0} /\ d \in Nat /\ cfg.limit \in Nat /\ next \in Nat
    BY RunnerAssumption DEF IInv, TypeOK, ValidConfigs
  <2>2. PICK k \in 0..next : Counted(k)
    BY DEF RateInv
  <2>3. /\ k \in Nat /\ next = (k + 1) * i /\ planned = Target(k)
        /\ d > 0 => k * i <= d
    BY <2>1, <2>2 DEF Counted
  <2>4. Over
    BY DEF RateInv, Ending
  <2>5. CASE d > 0 /\ d < next
    <3>1. d \div i = k
      BY <2>1, <2>3, <2>5, SlotsWithin
    <3>2. QED BY <2>1, <2>3, <2>5, <3>1 DEF Target, Min
  <2>6. CASE cfg.enabled /\ cfg.limit > 0 /\ planned = cfg.limit
    <3>1. cfg.limit <= k
      BY <2>1, <2>3, <2>6 DEF Target, Min
    <3>2. d > 0 => k <= d \div i
      <4> DEFINE q == d \div i
      <4>0. q \in Nat /\ d < q * i + i
        BY <2>1, Quotient
      <4> HIDE DEF q
      <4>1. q \in Nat /\ d < q * i + i /\ q * i \in Nat /\ k * i \in Nat
        BY <2>1, <2>3, <4>0, Distribute
      <4>2. (q + 1) * i = q * i + i
        <5>1. 1 * i = i
          BY <2>1
        <5>2. QED BY <2>1, <4>1, <5>1, Distribute
      <4>3. d > 0 => k * i < (q + 1) * i
        BY <2>1, <2>3, <4>1, <4>2
      <4>4. d > 0 => k < q + 1
        BY <2>1, <2>3, <4>1, <4>3, Monotone
      <4>5. QED BY <2>3, <4>1, <4>4 DEF q
    <3>3. d > 0 => d \div i \in Nat
      BY <2>1, Quotient
    <3> DEFINE q == d \div i
    <3> HIDE DEF q
    <3>4. d > 0 => Min(cfg.limit, q) = cfg.limit
      BY <2>1, <2>3, <3>1, <3>2, <3>3 DEF Min, q
    <3>5. QED BY <2>1, <2>6, <3>4 DEF q
  <2>7. QED BY <2>4, <2>5, <2>6 DEF Over
<1>2. QED BY <1>1, RateInit, RateStep, Invariance, PTL DEF Spec
=============================================================================
