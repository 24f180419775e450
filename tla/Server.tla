------------------------------- MODULE Server -------------------------------
(***************************************************************************)
(* Admission, drain and shutdown of the proxy: withMiddleware and          *)
(* acquireRequest of internal/proxy/server.go and serveUntilStopped of     *)
(* cmd/proxy/main.go.  A request takes a slot of the semaphore, passes the *)
(* drain check, works until its deadline at most, and gives everything     *)
(* back in deferred calls, a panic included.                               *)
(*                                                                         *)
(*   arrived -> slot -> handler -> work -> dec -> release -> record -> done *)
(*                                                                         *)
(* Time is counted down in units: only work takes time.  Reading the body, *)
(* the engine and the provider all obey the context of the request, so no  *)
(* unit passes while a request at its deadline still works.  A connection   *)
(* carries at most one request in each unit.                               *)
(***************************************************************************)
EXTENDS Naturals, FiniteSets

CONSTANTS
    Requests,           \* connections; each serves one request after another
    ConcurrencyLimit,
    RequestTimeout,
    DrainDelay,
    ShutdownTimeout

validateServer ==
    /\ ConcurrencyLimit \in Nat \ {0}
    /\ RequestTimeout \in Nat \ {0}
    /\ DrainDelay \in Nat \ {0}
    /\ ShutdownTimeout \in Nat \ {0}
    /\ ShutdownTimeout >= RequestTimeout

ASSUME ServerAssumption == IsFiniteSet(Requests) /\ validateServer

VARIABLES
    pc,         \* where each request is
    business,   \* it goes to /process or /v1/generate, not to a probe
    status,     \* recorder.status by its kind; "none" before WriteHeader
    panicked,
    left,       \* time to the deadline of its context
    sem,        \* the number of slots taken
    gauge,      \* ActiveRequests
    main,       \* serveUntilStopped
    draining,
    timer       \* time to the end of the drain delay or of Shutdown

requestVars == <<pc, business, status, panicked, left>>
vars == <<requestVars, sem, gauge, main, draining, timer>>

Busy == {"arrived", "slot", "handler", "work", "dec", "release", "record"}

Init ==
    /\ pc = [r \in Requests |-> "none"]
    /\ business = [r \in Requests |-> FALSE]
    /\ status = [r \in Requests |-> "none"]
    /\ panicked = [r \in Requests |-> FALSE]
    /\ left = [r \in Requests |-> 0]
    /\ sem = 0
    /\ gauge = 0
    /\ main = "serving"
    /\ draining = FALSE
    /\ timer = 0

\* The process exists.
Up == main \in {"serving", "delay", "shutdown"}

Goto(r, l) == pc' = [pc EXCEPT ![r] = l]

Step(r, from, to) == Up /\ pc[r] = from /\ Goto(r, to)

\* The first WriteHeader counts.
WriteHeader(r, kind) ==
    status' = [status EXCEPT ![r] = IF @ = "none" THEN kind ELSE @]

-----------------------------------------------------------------------------
(* The middleware *)

\* The listener is open until Shutdown.
Arrive(r) ==
    /\ main \in {"serving", "delay"}
    /\ pc[r] = "none"
    /\ \E b \in BOOLEAN :
          /\ business' = [business EXCEPT ![r] = b]
          /\ Goto(r, IF b THEN "arrived" ELSE "handler")
    /\ status' = [status EXCEPT ![r] = "none"]
    /\ panicked' = [panicked EXCEPT ![r] = FALSE]
    /\ left' = [left EXCEPT ![r] = RequestTimeout]
    /\ UNCHANGED <<sem, gauge, main, draining, timer>>

\* The limiter refuses, or all slots are taken: 429, and nothing is held.
Refuse(r) ==
    /\ Step(r, "arrived", "record")
    /\ WriteHeader(r, "refused")
    /\ UNCHANGED <<business, panicked, left, sem, gauge, main, draining, timer>>

acquireRequest(r) ==
    /\ Step(r, "arrived", "slot")
    /\ sem < ConcurrencyLimit
    /\ sem' = sem + 1
    /\ UNCHANGED <<business, status, panicked, left, gauge, main, draining, timer>>

Inc(r) ==
    /\ Step(r, "slot", "handler")
    /\ gauge' = gauge + 1
    /\ UNCHANGED <<business, status, panicked, left, sem, main, draining, timer>>

\* Where the deferred calls begin for r.
Unwind(r) == IF business[r] THEN "dec" ELSE "record"

\* Mutant: a request that was under way may go on while the server drains.
consumerIgnoresDrain(r) ==
    /\ Up
    /\ pc[r] = "handler"
    /\ Goto(r, "work")
    /\ UNCHANGED <<business, status, panicked, left, sem, gauge, main, draining, timer>>

\* consumer and handleReady look at the drain flag first.
consumer(r) ==
    /\ ~draining
    /\ Step(r, "handler", "work")
    /\ UNCHANGED <<business, status, panicked, left, sem, gauge, main, draining, timer>>

\* 503 while draining, a wrong method, an unknown system or a wrong key; the
\* liveness probe and an unknown path end here too.
Answer(r) ==
    /\ Step(r, "handler", Unwind(r))
    /\ \E kind \in IF business[r] THEN {"refused"} ELSE {"ok", "refused"} :
          WriteHeader(r, kind)
    /\ UNCHANGED <<business, panicked, left, sem, gauge, main, draining, timer>>

\* The handler returns with a result or an error, 504 at the deadline.
Finish(r) ==
    /\ Step(r, "work", Unwind(r))
    /\ \E kind \in {"ok", "error"} : WriteHeader(r, kind)
    /\ UNCHANGED <<business, panicked, left, sem, gauge, main, draining, timer>>

\* Mutant: the slot is released at the end of the handler, not deferred.
PanicKeepsSlot(r) ==
    /\ Step(r, "work", "record")
    /\ panicked' = [panicked EXCEPT ![r] = TRUE]
    /\ UNCHANGED <<business, status, left, sem, gauge, main, draining, timer>>

\* A panic of the handler, before or after it wrote the header.
Panic(r) ==
    /\ Up
    /\ pc[r] \in {"handler", "work"}
    /\ Goto(r, Unwind(r))
    /\ panicked' = [panicked EXCEPT ![r] = TRUE]
    /\ UNCHANGED status \/ WriteHeader(r, "ok")
    /\ UNCHANGED <<business, left, sem, gauge, main, draining, timer>>

\* The deferred calls, last in first out.
Dec(r) ==
    /\ Step(r, "dec", "release")
    /\ gauge' = gauge - 1
    /\ UNCHANGED <<business, status, panicked, left, sem, main, draining, timer>>

Release(r) ==
    /\ Step(r, "release", "record")
    /\ sem' = sem - 1
    /\ UNCHANGED <<business, status, panicked, left, gauge, main, draining, timer>>

\* Mutant: a recovered panic is not answered.
RecordSilently(r) ==
    /\ Step(r, "record", "done")
    /\ UNCHANGED <<business, status, panicked, left, sem, gauge, main, draining, timer>>

\* recover writes 500 when nothing was written; then recordRequest.
Record(r) ==
    /\ Step(r, "record", "done")
    /\ IF panicked[r] THEN WriteHeader(r, "error") ELSE UNCHANGED status
    /\ UNCHANGED <<business, panicked, left, sem, gauge, main, draining, timer>>

RequestStep(r) ==
    \/ Refuse(r)
    \/ acquireRequest(r)
    \/ Inc(r)
    \/ consumer(r)
    \/ Answer(r)
    \/ Finish(r)
    \/ Panic(r)
    \/ Dec(r)
    \/ Release(r)
    \/ Record(r)

-----------------------------------------------------------------------------
(* serveUntilStopped *)

ServeFails ==
    /\ main = "serving"
    /\ main' = "failed"
    /\ UNCHANGED <<requestVars, sem, gauge, draining, timer>>

\* Mutant: a repeated signal starts the delay again.
SignalAgain ==
    /\ main \in {"serving", "delay"}
    /\ main' = "delay"
    /\ draining' = TRUE
    /\ timer' = DrainDelay
    /\ UNCHANGED <<requestVars, sem, gauge>>

Signal ==
    /\ main = "serving"
    /\ main' = "delay"
    /\ draining' = TRUE
    /\ timer' = DrainDelay
    /\ UNCHANGED <<requestVars, sem, gauge>>

DelayOver ==
    /\ main = "delay"
    /\ timer = 0
    /\ main' = "shutdown"
    /\ timer' = ShutdownTimeout
    /\ UNCHANGED <<requestVars, sem, gauge, draining>>

\* http.Server.Shutdown returns when every connection is idle, or when its
\* context ends: then the process exits and cuts the others off.
Shutdown ==
    LET idle == \A r \in Requests : pc[r] \notin Busy IN
    /\ main = "shutdown"
    /\ timer > 0 => idle
    /\ main' = IF idle THEN "stopped" ELSE "cut"
    /\ UNCHANGED <<requestVars, sem, gauge, draining, timer>>

\* One unit of time; what is done makes room for the next request.
Tick ==
    /\ Up
    /\ \A r \in Requests : pc[r] \in Busy => pc[r] = "work" /\ left[r] > 0
    /\ main # "serving" => timer > 0
    /\ left' = [r \in Requests |-> IF pc[r] = "work" THEN left[r] - 1 ELSE left[r]]
    /\ timer' = IF main = "serving" THEN timer ELSE timer - 1
    /\ pc' = [r \in Requests |-> IF pc[r] = "done" THEN "none" ELSE pc[r]]
    /\ UNCHANGED <<business, status, panicked, sem, gauge, main, draining>>

Next ==
    \/ \E r \in Requests : Arrive(r) \/ RequestStep(r)
    \/ ServeFails
    \/ Signal
    \/ DelayOver
    \/ Shutdown
    \/ Tick

Spec == Init /\ [][Next]_vars

\* Request goroutines and the main goroutine are scheduled.  A request at
\* work may use all of its time; it goes on at the deadline because no unit of
\* time passes before that.
Fairness ==
    /\ \A r \in Requests : WF_vars(pc[r] # "work" /\ RequestStep(r))
    /\ \A r \in Requests : WF_vars(left[r] = 0 /\ Finish(r))
    /\ WF_vars(DelayOver)
    /\ WF_vars(Shutdown)
    /\ WF_vars(Tick)

FairSpec == Spec /\ Fairness

-----------------------------------------------------------------------------
(* Properties *)

Kinds == {"none", "ok", "refused", "error"}

TypeOK ==
    /\ pc \in [Requests -> Busy \cup {"none", "done"}]
    /\ business \in [Requests -> BOOLEAN]
    /\ status \in [Requests -> Kinds]
    /\ panicked \in [Requests -> BOOLEAN]
    /\ left \in [Requests -> 0..RequestTimeout]
    /\ sem \in 0..ConcurrencyLimit
    /\ gauge \in 0..ConcurrencyLimit
    /\ main \in {"serving", "failed", "delay", "shutdown", "stopped", "cut"}
    /\ draining = (main \notin {"serving", "failed"})
    /\ timer \in Nat

SlotHolders ==
    {r \in Requests : business[r] /\ pc[r] \in {"slot", "handler", "work", "dec", "release"}}

Counted ==
    {r \in Requests : business[r] /\ pc[r] \in {"handler", "work", "dec"}}

\* Every slot that is taken belongs to a request that is going to return it,
\* and the gauge counts the requests being handled: no path through the
\* handler, a panic included, loses capacity.
SlotsMatchHolders ==
    /\ sem = Cardinality(SlotHolders)
    /\ gauge = Cardinality(Counted)

\* The process never exits on a signal while it still works for a caller.  It
\* takes the drain check, the delay and the order of the two timeouts together:
\* each request at work began before the delay did.
NoWorkCut == main # "cut"

\* What makes these inductive.  Only business requests meet the semaphore.
PathInv ==
    \A r \in Requests : pc[r] \in {"arrived", "slot", "dec", "release"} => business[r]

\* While the server drains, a request at work began before the delay did, so
\* what it has left shrinks with it; in Shutdown it reaches its deadline at
\* least DrainDelay before the context of Shutdown ends.
DrainInv ==
    /\ main = "delay" =>
          \A r \in Requests :
              pc[r] = "work" => left[r] + DrainDelay <= RequestTimeout + timer
    /\ main = "shutdown" =>
          \A r \in Requests :
              /\ pc[r] = "work" => left[r] + DrainDelay <= timer
              /\ pc[r] \in Busy => timer > 0
    /\ NoWorkCut

IInv == TypeOK /\ SlotsMatchHolders /\ PathInv /\ DrainInv

\* Every request is answered, also one whose handler panicked, unless the
\* listener itself fails.
EveryRequestAnswered ==
    \A r \in Requests :
        pc[r] \in Busy ~> (pc[r] = "done" /\ status[r] # "none") \/ main = "failed"

\* A signal ends the process in an orderly way, whatever probes and callers
\* still arrive during the delay.
ShutdownCompletes == main = "delay" ~> main = "stopped"
=============================================================================
