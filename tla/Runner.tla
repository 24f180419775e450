------------------------------- MODULE Runner -------------------------------
(***************************************************************************)
(* A load run of the mock-client: Runner.Run, the planning loop of         *)
(* runnerExecution, the workers it launches and the availabilityTracker,   *)
(* of internal/mock/client/runner.go.                                      *)
(*                                                                         *)
(* The loop plans one operation for each elapsed slot of the ticker; an    *)
(* operation is launched if capacity is left and dropped otherwise.  A     *)
(* worker sends the requests of its operation one after the other,         *)
(*                                                                         *)
(*     pace -> http -> (backoff -> pace -> http) -> result -> count -> leave *)
(*                                                                         *)
(* The configuration may be replaced at any moment.  Time is an integer,   *)
(* the run starts at 0.  Bodies, latencies and statistics are left out.    *)
(***************************************************************************)
EXTENDS Naturals, FiniteSets

CONSTANTS
    Configs,        \* [enabled, limit, slots, duration, interval]
    Workers,        \* goroutines of launched operations
    Scenarios,      \* the operations that may be drawn
    requestAttemptsLimit,
    consecutiveInvalidLimit,
    MaxTime,
    MaxChanges

\* Config.Validate: limit and duration 0 mean none, slots is the smaller of
\* MaxInFlight and Concurrency.
ValidConfigs == [enabled: BOOLEAN, limit: Nat, slots: Nat \ {0}, duration: Nat,
                 interval: Nat \ {0}]

ASSUME RunnerAssumption ==
    /\ Configs \subseteq ValidConfigs
    /\ IsFiniteSet(Workers)
    /\ \A c \in Configs : c.slots <= Cardinality(Workers)
    /\ Scenarios \subseteq {"request", "mask_only", "round_trip", "stable_retry",
                            "expected_conflict"}
    /\ requestAttemptsLimit \in Nat \ {0}
    /\ consecutiveInvalidLimit \in Nat \ {0}
    /\ MaxTime \in Nat
    /\ MaxChanges \in Nat

VARIABLES
    cfg,            \* Runner.cfg
    changes,
    now,
    wake,           \* the ticker's channel holds a wake-up
    next,           \* realTicker
    interval,
    activeDuration, \* what the duration timer is set to
    sched,          \* the planning loop, and its locals
    held,
    pending,
    leaving,
    planned, dropped, sent, success, failed, pairs, inflight,
    consecutive,    \* availabilityTracker
    maximum,
    stopped,
    cancelled,      \* the caller's context
    verdict,
    pc,             \* the workers
    kind,
    req,
    attempt,
    outcome

clockVars == <<now, wake>>
tickerVars == <<next, interval, activeDuration>>
planVars == <<sched, held, pending, leaving, planned, dropped>>
trackerVars == <<consecutive, maximum, stopped>>
countVars == <<sent, success, failed, pairs, inflight>>
workerVars == <<pc, kind, req, attempt, outcome>>
vars == <<cfg, changes, clockVars, tickerVars, planVars, trackerVars, countVars,
          workerVars, cancelled, verdict>>

NoConfig == [enabled |-> FALSE, limit |-> 0, slots |-> 1, duration |-> 0, interval |-> 1]

Init ==
    /\ cfg \in Configs
    /\ changes = 0
    /\ now = 0
    /\ wake = FALSE
    /\ next = cfg.interval
    /\ interval = cfg.interval
    /\ activeDuration = cfg.duration
    /\ sched = "select"
    /\ held = NoConfig
    /\ pending = 0
    /\ leaving = FALSE
    /\ planned = 0 /\ dropped = 0 /\ sent = 0 /\ success = 0 /\ failed = 0
    /\ pairs = 0 /\ inflight = 0
    /\ consecutive = 0 /\ maximum = 0 /\ stopped = FALSE
    /\ cancelled = FALSE
    /\ verdict = "none"
    /\ pc = [w \in Workers |-> "free"]
    /\ kind = [w \in Workers |-> "none"]
    /\ req = [w \in Workers |-> 0]
    /\ attempt = [w \in Workers |-> 0]
    /\ outcome = [w \in Workers |-> "none"]

\* The context of the requests: the caller's, or the tracker's stop.
Done == cancelled \/ stopped

-----------------------------------------------------------------------------
(* The environment *)

Clock ==
    /\ sched # "done"
    /\ now < MaxTime
    /\ now' = now + 1
    /\ wake' = TRUE
    /\ UNCHANGED <<cfg, changes, tickerVars, planVars, trackerVars, countVars,
                   workerVars, cancelled, verdict>>

SetConfig(c) ==
    /\ sched # "done"
    /\ changes < MaxChanges
    /\ changes' = changes + 1
    /\ cfg' = c
    /\ UNCHANGED <<clockVars, tickerVars, planVars, trackerVars, countVars,
                   workerVars, cancelled, verdict>>

\* The watcher of the document, which hands on what is valid.
reloadRunner == \E c \in Configs : SetConfig(c)

Cancel ==
    /\ sched # "done"
    /\ ~cancelled
    /\ cancelled' = TRUE
    /\ UNCHANGED <<cfg, changes, clockVars, tickerVars, planVars, trackerVars,
                   countVars, workerVars, verdict>>

-----------------------------------------------------------------------------
(* The planning loop: select picks any ready case. *)

CtxDone ==
    /\ sched = "select"
    /\ Done
    /\ sched' = "drain"
    /\ UNCHANGED <<held, pending, leaving, planned, dropped, cfg, changes, clockVars,
                   tickerVars, trackerVars, countVars, workerVars, cancelled, verdict>>

\* The ticker's case: tick reads the configuration.
TickerFires ==
    /\ sched = "select"
    /\ wake
    /\ wake' = FALSE
    /\ held' = cfg
    /\ sched' = "tick"
    /\ UNCHANGED <<now, pending, leaving, planned, dropped, cfg, changes, tickerVars,
                   trackerVars, countVars, workerVars, cancelled, verdict>>

\* The timer's case: durationElapsed reads the configuration.
TimerFires ==
    /\ sched = "select"
    /\ activeDuration > 0
    /\ now >= activeDuration
    /\ held' = cfg
    /\ sched' = "elapsed"
    /\ UNCHANGED <<pending, leaving, planned, dropped, cfg, changes, clockVars, tickerVars,
                   trackerVars, countVars, workerVars, cancelled, verdict>>

Min(a, b) == IF a <= b THEN a ELSE b

\* Mutant: one slot for each wake-up, as time.Ticker alone would count.
DueOne(t) == IF t < next THEN 0 ELSE 1

\* The slots that have elapsed at time t and were not counted before.
Due(t) == IF t < next THEN 0 ELSE ((t - next) \div interval) + 1

plan(due, last) ==
    LET n == IF ~held.enabled THEN 0
             ELSE IF held.limit = 0 THEN due
             ELSE IF planned >= held.limit THEN 0
             ELSE Min(due, held.limit - planned)
        available == IF inflight >= held.slots THEN 0 ELSE held.slots - inflight
        launch == Min(n, available) IN
    /\ planned' = planned + n
    /\ dropped' = dropped + (n - launch)
    /\ pending' = launch
    /\ leaving' = (last \/ (held.enabled /\ due > 0 /\ held.limit > 0
                            /\ planned + n >= held.limit))
    /\ sched' = "launch"

Back(l) ==
    /\ sched' = l
    /\ held' = NoConfig
    /\ UNCHANGED <<pending, leaving, planned, dropped>>

\* Mutant: a new duration does not set the timer.
tickKeepsTimer ==
    LET finished == held.duration > 0 /\ now >= held.duration
        due == Due(IF finished THEN held.duration ELSE now) IN
    /\ sched = "tick"
    /\ UNCHANGED activeDuration
    /\ IF held.enabled
       THEN /\ interval' = held.interval
            /\ next' = IF held.interval # interval THEN now + held.interval
                       ELSE next + due * interval
            /\ wake' = (wake /\ held.interval = interval)
            /\ plan(due, finished)
            /\ UNCHANGED held
       ELSE /\ next' = next + due * interval
            /\ Back("select")
            /\ UNCHANGED <<interval, wake>>
    /\ UNCHANGED <<now, cfg, changes, trackerVars, countVars, workerVars, cancelled, verdict>>

tick ==
    LET finished == held.duration > 0 /\ now >= held.duration
        due == Due(IF finished THEN held.duration ELSE now) IN
    /\ sched = "tick"
    /\ activeDuration' = held.duration
    /\ IF held.enabled
       THEN /\ interval' = held.interval
            /\ next' = IF held.interval # interval THEN now + held.interval
                       ELSE next + due * interval
            /\ wake' = (wake /\ held.interval = interval)
            /\ plan(due, finished)
            /\ UNCHANGED held
       ELSE /\ next' = next + due * interval
            /\ Back("select")
            /\ UNCHANGED <<interval, wake>>
    /\ UNCHANGED <<now, cfg, changes, trackerVars, countVars, workerVars, cancelled, verdict>>

durationElapsed ==
    /\ sched = "elapsed"
    /\ IF held.duration = 0 \/ now < held.duration
       THEN /\ activeDuration' = held.duration
            /\ Back("select")
            /\ UNCHANGED next
       ELSE /\ next' = next + Due(held.duration) * interval
            /\ plan(Due(held.duration), TRUE)
            /\ UNCHANGED <<activeDuration, held>>
    /\ UNCHANGED <<interval, cfg, changes, clockVars, trackerVars, countVars, workerVars,
                   cancelled, verdict>>

launch(w) ==
    /\ sched = "launch"
    /\ pending > 0
    /\ pc[w] = "free"
    /\ pending' = pending - 1
    /\ sent' = sent + 1
    /\ inflight' = inflight + 1
    /\ pc' = [pc EXCEPT ![w] = "pace"]
    /\ \E s \in Scenarios : kind' = [kind EXCEPT ![w] = s]
    /\ req' = [req EXCEPT ![w] = 1]
    /\ attempt' = [attempt EXCEPT ![w] = 1]
    /\ UNCHANGED <<outcome, sched, held, leaving, planned, dropped, success, failed, pairs,
                   cfg, changes, clockVars, tickerVars, trackerVars, cancelled, verdict>>

Launched ==
    /\ sched = "launch"
    /\ pending = 0
    /\ Back(IF leaving THEN "drain" ELSE "select")
    /\ UNCHANGED <<cfg, changes, clockVars, tickerVars, trackerVars, countVars,
                   workerVars, cancelled, verdict>>

Verdict ==
    IF cancelled THEN "CANCELLED"
    ELSE IF failed > 0 \/ dropped > 0 \/ success = 0 THEN "HARNESS_ERROR"
    ELSE "PASS"

\* Mutant: the report does not wait for the workers.
reportEarly ==
    /\ sched = "drain"
    /\ sched' = "done"
    /\ verdict' = Verdict
    /\ UNCHANGED <<held, pending, leaving, planned, dropped, cfg, changes, clockVars,
                   tickerVars, trackerVars, countVars, workerVars, cancelled>>

\* wg.Wait, and the report.
report ==
    /\ sched = "drain"
    /\ \A w \in Workers : pc[w] = "free"
    /\ sched' = "done"
    /\ verdict' = Verdict
    /\ UNCHANGED <<held, pending, leaving, planned, dropped, cfg, changes, clockVars,
                   tickerVars, trackerVars, countVars, workerVars, cancelled>>

\* The command's own status of the report; met says whether rate, latency and
\* mask distance are within the limits it was given.
loadStatus(met) ==
    IF verdict = "CANCELLED" THEN "CANCELLED"
    ELSE IF failed > 0 \/ stopped THEN "HARNESS_ERROR"
    ELSE IF dropped > 0 \/ success = 0 \/ ~met THEN "SLO_MISSED"
    ELSE "PASS"

\* Its exit status, when the report could be written.
finishReport(met) ==
    CASE loadStatus(met) = "SLO_MISSED" -> "slo_missed"
      [] loadStatus(met) \in {"HARNESS_ERROR", "CANCELLED"} -> "run_error"
      [] loadStatus(met) = "PASS" -> "ok"

-----------------------------------------------------------------------------
(* A worker *)

\* How many requests an operation of each scenario sends.
Requests(s) ==
    CASE s \in {"request", "mask_only"} -> 1
      [] s \in {"round_trip", "stable_retry"} -> 2
      [] s = "expected_conflict" -> 3

\* Whether the body of the answer is compared with what it should say.
Checked(s, n) == s # "request" /\ ~(s = "expected_conflict" /\ n = 3)

Goto(w, l) == pc' = [pc EXCEPT ![w] = l]

Conclude(w, o) == Goto(w, "result") /\ outcome' = [outcome EXCEPT ![w] = o]

\* requestPacer.wait.  When the context has ended, the wait or else the request
\* after it returns at once.
Pace(w) ==
    /\ pc[w] = "pace"
    /\ \/ ~Done /\ Goto(w, "http") /\ UNCHANGED outcome
       \/ Done /\ Conclude(w, "cancelled")
    /\ UNCHANGED <<kind, req, attempt, cfg, changes, clockVars, tickerVars, planVars,
                   trackerVars, countVars, cancelled, verdict>>

\* The expected status with its body, which may turn out to be wrong.
Answered(w) ==
    /\ pc[w] = "http"
    /\ \/ Conclude(w, "success")
       \/ Checked(kind[w], req[w]) /\ Conclude(w, "invalid")
    /\ UNCHANGED <<kind, req, attempt, cfg, changes, clockVars, tickerVars, planVars,
                   trackerVars, countVars, cancelled, verdict>>

\* A status that a retry cannot change, or the context has ended.
Rejected(w) ==
    /\ pc[w] = "http"
    /\ \/ Conclude(w, "invalid")
       \/ Done /\ Conclude(w, "cancelled")
    /\ UNCHANGED <<kind, req, attempt, cfg, changes, clockVars, tickerVars, planVars,
                   trackerVars, countVars, cancelled, verdict>>

\* A transport error, a timeout, a 5xx status or a broken body ("invalid"), a
\* 429 ("limited"), or a body that broke off because the context ended ("cut",
\* which the code takes for any other broken body).
Retryable(w) ==
    /\ pc[w] = "http"
    /\ \E o \in {"invalid", "limited"} \cup (IF Done THEN {"cut"} ELSE {}) :
          /\ outcome' = [outcome EXCEPT ![w] = o]
          /\ Goto(w, IF attempt[w] = requestAttemptsLimit THEN "result" ELSE "backoff")
    /\ UNCHANGED <<kind, req, attempt, cfg, changes, clockVars, tickerVars, planVars,
                   trackerVars, countVars, cancelled, verdict>>

\* The wait before a retry.
Backoff(w) ==
    /\ pc[w] = "backoff"
    /\ \/ /\ ~Done
          /\ Goto(w, "pace")
          /\ attempt' = [attempt EXCEPT ![w] = @ + 1]
          /\ UNCHANGED outcome
       \/ /\ Done
          /\ Conclude(w, "cancelled")
          /\ UNCHANGED attempt
    /\ UNCHANGED <<kind, req, cfg, changes, clockVars, tickerVars, planVars, trackerVars,
                   countVars, cancelled, verdict>>

Invalid == {"invalid", "cut"}

\* availabilityTracker.record
record(o) ==
    IF stopped THEN UNCHANGED trackerVars
    ELSE /\ consecutive' = IF o = "success" THEN 0
                           ELSE IF o \in Invalid THEN consecutive + 1 ELSE consecutive
         /\ maximum' = IF consecutive' > maximum THEN consecutive' ELSE maximum
         /\ stopped' = (consecutive' >= consecutiveInvalidLimit)

\* The result of a request is recorded; the operation goes on or is over.
Result(w) ==
    /\ pc[w] = "result"
    /\ record(outcome[w])
    /\ IF outcome[w] = "success" /\ req[w] < Requests(kind[w])
       THEN /\ Goto(w, "pace")
            /\ req' = [req EXCEPT ![w] = @ + 1]
            /\ attempt' = [attempt EXCEPT ![w] = 1]
       ELSE Goto(w, "count") /\ UNCHANGED <<req, attempt>>
    /\ UNCHANGED <<kind, outcome, cfg, changes, clockVars, tickerVars, planVars, countVars,
                   cancelled, verdict>>

\* Mutant: a 429 does not count as a failure.
CountLenient(w) ==
    /\ pc[w] = "count"
    /\ Goto(w, "leave")
    /\ IF outcome[w] = "success"
       THEN /\ success' = success + 1
            /\ pairs' = IF kind[w] = "round_trip" THEN pairs + 1 ELSE pairs
            /\ UNCHANGED failed
       ELSE /\ failed' = IF outcome[w] = "limited" THEN failed ELSE failed + 1
            /\ UNCHANGED <<success, pairs>>
    /\ UNCHANGED <<sent, inflight, kind, req, attempt, outcome, cfg, changes, clockVars,
                   tickerVars, planVars, trackerVars, cancelled, verdict>>

Count(w) ==
    /\ pc[w] = "count"
    /\ Goto(w, "leave")
    /\ IF outcome[w] = "success"
       THEN /\ success' = success + 1
            /\ pairs' = IF kind[w] = "round_trip" THEN pairs + 1 ELSE pairs
            /\ UNCHANGED failed
       ELSE failed' = failed + 1 /\ UNCHANGED <<success, pairs>>
    /\ UNCHANGED <<sent, inflight, kind, req, attempt, outcome, cfg, changes, clockVars,
                   tickerVars, planVars, trackerVars, cancelled, verdict>>

\* The deferred calls of sendOne and of the goroutine.
Leave(w) ==
    /\ pc[w] = "leave"
    /\ Goto(w, "free")
    /\ inflight' = inflight - 1
    /\ kind' = [kind EXCEPT ![w] = "none"]
    /\ req' = [req EXCEPT ![w] = 0]
    /\ attempt' = [attempt EXCEPT ![w] = 0]
    /\ outcome' = [outcome EXCEPT ![w] = "none"]
    /\ UNCHANGED <<sent, success, failed, pairs, cfg, changes, clockVars, tickerVars,
                   planVars, trackerVars, cancelled, verdict>>

WorkerStep(w) ==
    \/ Pace(w) \/ Answered(w) \/ Rejected(w) \/ Retryable(w) \/ Backoff(w)
    \/ Result(w) \/ Count(w) \/ Leave(w)

Planning ==
    \/ TickerFires \/ TimerFires \/ tick \/ durationElapsed
    \/ \E w \in Workers : launch(w)
    \/ Launched \/ report

Next ==
    \/ Clock
    \/ reloadRunner
    \/ Cancel
    \/ CtxDone
    \/ Planning
    \/ \E w \in Workers : WorkerStep(w)

Spec == Init /\ [][Next]_vars

\* Goroutines are scheduled, time passes, requests end at their timeout; select
\* chooses at random, so a case that stays ready is taken sooner or later.
Fairness ==
    /\ WF_vars(Clock)
    /\ SF_vars(CtxDone)
    /\ SF_vars(TimerFires)
    /\ WF_vars(Planning)
    /\ \A w \in Workers : WF_vars(WorkerStep(w))

FairSpec == Spec /\ Fairness

-----------------------------------------------------------------------------
(* Properties *)

Outcomes == {"none", "success", "limited", "cancelled"} \cup Invalid

TypeOK ==
    /\ cfg \in Configs
    /\ held \in Configs \cup {NoConfig}
    /\ sched \in {"tick", "elapsed"} => held \in Configs
    /\ changes \in 0..MaxChanges
    /\ now \in 0..MaxTime
    /\ wake \in BOOLEAN
    /\ next \in Nat
    /\ interval \in Nat \ {0}
    /\ activeDuration \in Nat
    /\ sched \in {"select", "tick", "elapsed", "launch", "drain", "done"}
    /\ pending \in Nat
    /\ leaving \in BOOLEAN
    /\ planned \in Nat /\ dropped \in Nat /\ sent \in Nat
    /\ success \in Nat /\ failed \in Nat /\ pairs \in Nat /\ inflight \in Nat
    /\ consecutive \in 0..consecutiveInvalidLimit
    /\ maximum \in 0..consecutiveInvalidLimit
    /\ stopped \in BOOLEAN
    /\ cancelled \in BOOLEAN
    /\ verdict \in {"none", "CANCELLED", "HARNESS_ERROR", "PASS"}
    /\ pc \in [Workers -> {"free", "pace", "http", "backoff", "result", "count", "leave"}]
    /\ kind \in [Workers -> Scenarios \cup {"none"}]
    /\ req \in [Workers -> 0..3]
    /\ attempt \in [Workers -> 0..requestAttemptsLimit]
    /\ outcome \in [Workers -> Outcomes]

Working == {w \in Workers : pc[w] # "free"}

Uncounted == {w \in Workers : pc[w] \notin {"free", "leave"}}

\* Every planned operation is dropped, about to be launched, at work, or
\* counted once as a success or a failure; the gauge counts the goroutines.
Accounted ==
    /\ planned = dropped + sent + pending
    /\ sent = success + failed + Cardinality(Uncounted)
    /\ inflight = Cardinality(Working)

\* The loop plans and launches within the limits of the configuration it read,
\* whatever workers and reloads do between its check and its launches.
WithinLimits ==
    [][/\ planned' > planned => held.limit = 0 \/ planned' <= held.limit
       /\ inflight' > inflight => inflight' <= held.slots]_vars

\* A run that nobody disturbs plans an operation for every slot up to its
\* duration, or up to its limit, however late its wake-ups and however slow the
\* target: the report never shows a lower load than was asked for.
FullRate ==
    sched \in {"drain", "done"} /\ ~Done /\ changes = 0 =>
        LET slots == cfg.duration \div cfg.interval IN
        planned = IF ~cfg.enabled THEN 0
                  ELSE IF cfg.limit = 0 THEN slots
                  ELSE IF cfg.duration = 0 THEN cfg.limit
                  ELSE Min(cfg.limit, slots)

\* The counts of the report add up, and PASS means that every planned operation
\* was sent and answered as it should be, and that the run did not stop itself.
\* The command judges the counts once more, with its own limits: it exits with
\* success for just the reports that say PASS and meet those limits.
HonestReport ==
    sched = "done" =>
        /\ planned = dropped + success + failed
        /\ pairs <= success
        /\ verdict = "PASS" => success = planned /\ success > 0 /\ ~stopped
        /\ \A met \in BOOLEAN :
              finishReport(met) = "ok" <=> verdict = "PASS" /\ met

\* A run whose context has ended, or whose duration is over for good, returns.
RunEnds ==
    <>[](Done \/ (cfg.duration > 0 /\ now >= cfg.duration)) => <>(sched = "done")

\* What makes these inductive.  What the loop is about to launch fits into the
\* slots of the configuration it read.
LaunchInv ==
    /\ pending + inflight <= held.slots \/ pending = 0
    /\ sched # "launch" => pending = 0

\* Where a worker can be.
PathInv ==
    \A w \in Workers :
        /\ pc[w] # "free" => kind[w] \in Scenarios /\ req[w] <= Requests(kind[w])
        /\ pc[w] = "backoff" => attempt[w] < requestAttemptsLimit

\* The run stops itself only over an operation that fails.
TrackerInv ==
    /\ ~stopped => consecutive < consecutiveInvalidLimit
    /\ stopped => failed > 0 \/ \E w \in Workers : pc[w] = "count" /\ outcome[w] \in Invalid

\* After the report nothing moves that it counted.
DoneInv ==
    /\ pairs <= success
    /\ sched = "done" =>
          /\ \A w \in Workers : pc[w] = "free"
          /\ verdict = "PASS" => failed = 0 /\ dropped = 0 /\ success > 0
          /\ verdict \notin {"PASS", "CANCELLED"} => failed > 0 \/ dropped > 0 \/ success = 0

IInv == TypeOK /\ Accounted /\ LaunchInv /\ PathInv /\ TrackerInv /\ DoneInv

\* Without a reload, k slots have been counted so far: the ticker stands at the
\* next one, none lies behind the duration, and the loop leaves only when the
\* duration holds no further slot or the limit is reached.
Target(k) ==
    IF ~cfg.enabled THEN 0 ELSE IF cfg.limit = 0 THEN k ELSE Min(k, cfg.limit)

Ending ==
    \/ sched = "launch" /\ leaving
    \/ sched \in {"drain", "done"} /\ ~Done

Over ==
    \/ cfg.duration > 0 /\ cfg.duration < next
    \/ cfg.enabled /\ cfg.limit > 0 /\ planned = cfg.limit

Counted(k) ==
    /\ next = (k + 1) * cfg.interval
    /\ cfg.duration > 0 => k * cfg.interval <= cfg.duration
    /\ planned = Target(k)

RateInv ==
    changes = 0 =>
        /\ interval = cfg.interval
        /\ sched \in {"tick", "elapsed", "launch"} => held = cfg
        /\ \E k \in 0..next : Counted(k)
        /\ Ending => Over

\* "Cancellation is run control, not evidence that the endpoint is
\* unavailable": a request that the end of the context cut off does not
\* lengthen the streak.
CancellationIsNoEvidence ==
    [][\A w \in Workers :
         pc[w] = "result" /\ pc'[w] # "result" /\ outcome[w] = "cut"
            => consecutive' = consecutive]_vars
=============================================================================
