---------------------------- MODULE ServerProofs ----------------------------
(***************************************************************************)
(* Proofs about Server, for any number of connections, any limit and any   *)
(* timeouts that Config.Validate accepts.  The slots are counted first,    *)
(* then types, and then time.                                              *)
(***************************************************************************)
EXTENDS Server, FiniteSetTheorems, TLAPS

\* The requests with a slot are finitely many, and those counted by the gauge
\* are among them.
LEMMA HoldersFinite ==
  ASSUME TypeOK
  PROVE  /\ IsFiniteSet(SlotHolders) /\ IsFiniteSet(Counted)
         /\ Cardinality(SlotHolders) \in Nat /\ Cardinality(Counted) \in Nat
         /\ Cardinality(Counted) <= Cardinality(SlotHolders)
<1>1. SlotHolders \in SUBSET Requests /\ Counted \in SUBSET SlotHolders
  BY DEF SlotHolders, Counted
<1>2. IsFiniteSet(SlotHolders)
  BY <1>1, FS_Subset, ServerAssumption DEF validateServer
<1>3. IsFiniteSet(Counted) /\ Cardinality(Counted) <= Cardinality(SlotHolders)
  BY <1>1, <1>2, FS_Subset
<1>4. QED BY <1>2, <1>3, FS_CardinalityType

\* The server starts idle, with all slots free.
LEMMA InitInv == Init => IInv
<1> SUFFICES ASSUME Init PROVE IInv
  OBVIOUS
<1>1. TypeOK
  <2>1. business \in [Requests -> BOOLEAN] /\ panicked \in [Requests -> BOOLEAN]
    BY DEF Init
  <2>2. draining = (main \notin {"serving", "failed"})
    BY DEF Init
  <2>3. QED BY <2>1, <2>2, ServerAssumption DEF validateServer, Init, TypeOK, Busy, Kinds
<1>2. SlotHolders = {} /\ Counted = {}
  BY DEF Init, SlotHolders, Counted
<1>3. SlotsMatchHolders
  BY <1>2, FS_EmptySet DEF Init, SlotsMatchHolders
<1>4. PathInv /\ DrainInv
  BY DEF Init, PathInv, DrainInv, NoWorkCut
<1>5. QED BY <1>1, <1>3, <1>4 DEF IInv

\* Which requests hold what after a step that takes or returns nothing.
LEMMA SameHolders ==
  ASSUME TypeOK, PathInv, SlotsMatchHolders, NEW r \in Requests,
         \/ Arrive(r) \/ Refuse(r) \/ consumer(r) \/ Answer(r)
         \/ Finish(r) \/ Panic(r) \/ Record(r)
  PROVE  SlotsMatchHolders'
<1>1. SlotHolders' = SlotHolders /\ Counted' = Counted
  <2>1. CASE Arrive(r)
    BY <2>1 DEF Arrive, Goto, TypeOK, SlotHolders, Counted
  <2>2. CASE Refuse(r) \/ consumer(r) \/ Record(r)
    BY <2>2 DEF Refuse, consumer, Record, Step, Goto, TypeOK, SlotHolders, Counted
  <2>3. CASE Answer(r) \/ Finish(r) \/ Panic(r)
    BY <2>3 DEF Answer, Finish, Panic, Step, Unwind, Goto, TypeOK, SlotHolders, Counted
  <2>4. QED BY <2>1, <2>2, <2>3
<1>2. sem' = sem /\ gauge' = gauge
  BY DEF Arrive, Refuse, consumer, Answer, Finish, Panic, Record
<1>3. QED BY <1>1, <1>2 DEF SlotsMatchHolders

\* The four steps that take or return something, deferred calls included.
LEMMA ChangedHolders ==
  ASSUME TypeOK, PathInv, SlotsMatchHolders, NEW r \in Requests,
         acquireRequest(r) \/ Inc(r) \/ Dec(r) \/ Release(r)
  PROVE  SlotsMatchHolders'
<1>1. CASE acquireRequest(r)
  <2>1. /\ r \notin SlotHolders /\ SlotHolders' = SlotHolders \cup {r}
        /\ Counted' = Counted
    BY <1>1 DEF acquireRequest, Step, Goto, TypeOK, PathInv, SlotHolders, Counted
  <2>2. Cardinality(SlotHolders') = Cardinality(SlotHolders) + 1
    BY <2>1, HoldersFinite, FS_AddElement
  <2>3. QED BY <1>1, <2>1, <2>2 DEF acquireRequest, SlotsMatchHolders
<1>2. CASE Inc(r)
  <2>1. /\ r \notin Counted /\ Counted' = Counted \cup {r}
        /\ SlotHolders' = SlotHolders
    BY <1>2 DEF Inc, Step, Goto, TypeOK, PathInv, SlotHolders, Counted
  <2>2. Cardinality(Counted') = Cardinality(Counted) + 1
    BY <2>1, HoldersFinite, FS_AddElement
  <2>3. QED BY <1>2, <2>1, <2>2 DEF Inc, SlotsMatchHolders
<1>3. CASE Dec(r)
  <2>1. /\ r \in Counted /\ Counted' = Counted \ {r}
        /\ SlotHolders' = SlotHolders
    BY <1>3 DEF Dec, Step, Goto, TypeOK, PathInv, SlotHolders, Counted
  <2>2. Cardinality(Counted') = Cardinality(Counted) - 1
    BY <2>1, HoldersFinite, FS_RemoveElement
  <2>3. QED BY <1>3, <2>1, <2>2 DEF Dec, SlotsMatchHolders
<1>4. CASE Release(r)
  <2>1. /\ r \in SlotHolders /\ SlotHolders' = SlotHolders \ {r}
        /\ Counted' = Counted
    BY <1>4 DEF Release, Step, Goto, TypeOK, PathInv, SlotHolders, Counted
  <2>2. Cardinality(SlotHolders') = Cardinality(SlotHolders) - 1
    BY <2>1, HoldersFinite, FS_RemoveElement
  <2>3. QED BY <1>4, <2>1, <2>2 DEF Release, SlotsMatchHolders
<1>5. QED BY <1>1, <1>2, <1>3, <1>4

\* serveUntilStopped holds no slot, and time moves none.
LEMMA MainHolders ==
  ASSUME TypeOK, SlotsMatchHolders,
         ServeFails \/ Signal \/ DelayOver \/ Shutdown \/ Tick
  PROVE  SlotsMatchHolders'
<1>1. /\ business' = business /\ sem' = sem /\ gauge' = gauge
      /\ \A r \in Requests : pc'[r] = pc[r] \/ (pc[r] = "done" /\ pc'[r] = "none")
  BY DEF ServeFails, Signal, DelayOver, Shutdown, Tick, requestVars
<1>2. SlotHolders' = SlotHolders /\ Counted' = Counted
  BY <1>1 DEF SlotHolders, Counted
<1>3. QED BY <1>1, <1>2 DEF SlotsMatchHolders

\* A request moves along the middleware.
LEMMA StepHolders == IInv /\ Next => SlotsMatchHolders'
<1> SUFFICES ASSUME IInv, Next PROVE SlotsMatchHolders'
  OBVIOUS
<1> USE DEF IInv
<1>1. CASE \E r \in Requests : Arrive(r) \/ RequestStep(r)
  BY <1>1, SameHolders, ChangedHolders DEF RequestStep
<1>2. CASE ServeFails \/ Signal \/ DelayOver \/ Shutdown \/ Tick
  BY <1>2, MainHolders
<1>3. QED BY <1>1, <1>2 DEF Next

\* Every field of a request keeps its type.
LEMMA StepRequestTypes ==
  ASSUME TypeOK, Next
  PROVE  /\ pc' \in [Requests -> Busy \cup {"none", "done"}]
         /\ business' \in [Requests -> BOOLEAN]
         /\ status' \in [Requests -> Kinds]
         /\ panicked' \in [Requests -> BOOLEAN]
         /\ left' \in [Requests -> 0..RequestTimeout]
<1> USE DEF Next, RequestStep, ServeFails, Signal, DelayOver, Shutdown, requestVars
<1>1. pc' \in [Requests -> Busy \cup {"none", "done"}]
  BY DEF TypeOK, Busy, Step, Goto, Unwind, Arrive, Refuse, acquireRequest, Inc, consumer,
         Answer, Finish, Panic, Dec, Release, Record, Tick
<1>2. business' \in [Requests -> BOOLEAN]
  BY Zenon DEF TypeOK, Arrive, Refuse, acquireRequest, Inc, consumer,
         Answer, Finish, Panic, Dec, Release, Record, Tick
<1>3. status' \in [Requests -> Kinds]
  BY DEF TypeOK, Kinds, WriteHeader, Arrive, Refuse, acquireRequest, Inc, consumer,
         Answer, Finish, Panic, Dec, Release, Record, Tick
<1>4. panicked' \in [Requests -> BOOLEAN]
  BY Zenon DEF TypeOK, Arrive, Refuse, acquireRequest, Inc, consumer,
         Answer, Finish, Panic, Dec, Release, Record, Tick
<1>5. left' \in [Requests -> 0..RequestTimeout]
  <2>1. CASE Tick
    BY <2>1, ServerAssumption DEF validateServer, TypeOK, Tick, Busy
  <2>2. CASE ~Tick
    BY <2>2, ServerAssumption DEF validateServer, TypeOK, Arrive, Refuse, acquireRequest, Inc, consumer,
         Answer, Finish, Panic, Dec, Release, Record
  <2>3. QED BY <2>1, <2>2
<1>6. QED BY <1>1, <1>2, <1>3, <1>4, <1>5

\* The drain flag follows main, and the timer counts down to 0.
LEMMA StepMainTypes ==
  ASSUME TypeOK, Next
  PROVE  /\ main' \in {"serving", "failed", "delay", "shutdown", "stopped", "cut"}
         /\ draining' = (main' \notin {"serving", "failed"})
         /\ timer' \in Nat
<1>1. CASE \E r \in Requests : Arrive(r) \/ RequestStep(r)
  <2>1. main' = main /\ draining' = draining /\ timer' = timer
    BY <1>1 DEF RequestStep, Arrive, Refuse, acquireRequest, Inc, consumer, Answer,
                Finish, Panic, Dec, Release, Record
  <2>2. QED BY <2>1 DEF TypeOK
<1>2. CASE ServeFails
  BY <1>2 DEF TypeOK, ServeFails
<1>3. CASE Signal
  BY <1>3, ServerAssumption DEF validateServer, TypeOK, Signal
<1>4. CASE DelayOver
  BY <1>4, ServerAssumption DEF validateServer, TypeOK, DelayOver
<1>5. CASE Shutdown
  BY <1>5 DEF TypeOK, Shutdown
<1>6. CASE Tick
  BY <1>6, ServerAssumption DEF validateServer, TypeOK, Tick
<1>7. QED BY <1>1, <1>2, <1>3, <1>4, <1>5, <1>6 DEF Next

\* The semaphore is never overfull: the select takes a slot only when one is
\* free, and the gauge counts some of the holders.
LEMMA StepTypes == IInv /\ Next => TypeOK'
<1> SUFFICES ASSUME IInv, Next PROVE TypeOK'
  OBVIOUS
<1>1. SlotsMatchHolders'
  BY StepHolders
<1>2. /\ Cardinality(SlotHolders') \in Nat /\ Cardinality(Counted') \in Nat
      /\ Cardinality(Counted') <= Cardinality(SlotHolders')
  <2>1. SlotHolders' \in SUBSET Requests /\ Counted' \in SUBSET SlotHolders'
    BY DEF SlotHolders, Counted
  <2>2. IsFiniteSet(SlotHolders') /\ IsFiniteSet(Counted')
    BY <2>1, FS_Subset, ServerAssumption DEF validateServer
  <2>3. QED BY <2>1, <2>2, FS_Subset, FS_CardinalityType
<1>3. sem' <= ConcurrencyLimit
  <2>1. \/ sem' = sem
        \/ sem < ConcurrencyLimit /\ sem' = sem + 1
        \/ sem' = sem - 1
    BY DEF Next, RequestStep, Arrive, Refuse, acquireRequest, Inc, consumer, Answer,
           Finish, Panic, Dec, Release, Record, ServeFails, Signal, DelayOver, Shutdown, Tick
  <2>2. sem \in 0..ConcurrencyLimit
    BY DEF IInv, TypeOK
  <2>3. QED BY <2>1, <2>2, ServerAssumption DEF validateServer
<1>4. sem' \in 0..ConcurrencyLimit /\ gauge' \in 0..ConcurrencyLimit
  BY <1>1, <1>2, <1>3, ServerAssumption DEF validateServer, SlotsMatchHolders
<1>5. QED BY <1>4, StepRequestTypes, StepMainTypes DEF IInv, TypeOK

\* No step of a request meets the semaphore for a probe.
LEMMA StepPath == IInv /\ Next => PathInv'
<1> SUFFICES ASSUME IInv, Next PROVE PathInv'
  OBVIOUS
<1>1. CASE \E r \in Requests : Arrive(r)
  BY <1>1 DEF IInv, TypeOK, PathInv, Arrive, Goto
<1>2. CASE \E r \in Requests : RequestStep(r)
  BY <1>2 DEF IInv, TypeOK, PathInv, RequestStep, Step, Goto, Unwind, Refuse, acquireRequest,
              Inc, consumer, Answer, Finish, Panic, Dec, Release, Record
<1>3. CASE ServeFails \/ Signal \/ DelayOver \/ Shutdown \/ Tick
  BY <1>3 DEF IInv, PathInv, ServeFails, Signal, DelayOver, Shutdown, Tick, requestVars
<1>4. QED BY <1>1, <1>2, <1>3 DEF Next

\* While the server drains no request begins to work, so a step of a request
\* leaves every bound as it was; Signal and DelayOver set the timer to a bound
\* that holds already; and a unit of time takes one from both sides.
LEMMA StepDrain == IInv /\ Next => DrainInv'
<1> SUFFICES ASSUME IInv, Next PROVE DrainInv'
  OBVIOUS
<1> USE ServerAssumption DEF validateServer, NoWorkCut
<1>0. \A r \in Requests : left[r] \in 0..RequestTimeout
  BY DEF IInv, TypeOK
<1>1. CASE \E r \in Requests : Arrive(r)
  BY <1>1 DEF IInv, TypeOK, DrainInv, Arrive, Goto, Busy
<1>2. ASSUME NEW r \in Requests, RequestStep(r)
      PROVE  DrainInv'
  <2>1. main' = main /\ timer' = timer /\ left' = left
    BY <1>2 DEF RequestStep, Refuse, acquireRequest, Inc, consumer, Answer,
                Finish, Panic, Dec, Release, Record
  <2>2. draining => ~consumer(r)
    BY DEF consumer
  <2>3. main \in {"delay", "shutdown"} => draining
    BY DEF IInv, TypeOK
  <2>4. /\ pc' \in [Requests -> Busy \cup {"none", "done"}]
        /\ pc[r] \in Busy
        /\ \A q \in Requests : q # r => pc'[q] = pc[q]
    BY <1>2, StepRequestTypes DEF IInv, TypeOK, RequestStep, Step, Goto, Unwind, Busy, Refuse,
            acquireRequest, Inc, consumer, Answer, Finish, Panic, Dec, Release, Record
  <2>5. draining => pc'[r] # "work"
    BY <1>2, <2>2 DEF IInv, TypeOK, RequestStep, Step, Goto, Unwind, Refuse,
            acquireRequest, Inc, Answer, Finish, Panic, Dec, Release, Record
  <2>6. QED BY <2>1, <2>3, <2>4, <2>5 DEF IInv, DrainInv
<1>3. CASE ServeFails
  BY <1>3 DEF DrainInv, ServeFails
<1>4. CASE Signal
  BY <1>0, <1>4 DEF DrainInv, Signal, requestVars
<1>5. CASE DelayOver
  BY <1>0, <1>5 DEF IInv, DrainInv, DelayOver, requestVars, Busy
<1>6. CASE Shutdown
  BY <1>6 DEF IInv, TypeOK, DrainInv, Shutdown
<1>7. CASE Tick
  <2>1. timer \in Nat
    BY DEF IInv, TypeOK
  <2>2. main' = main /\ (main # "serving" => timer > 0 /\ timer' = timer - 1)
    BY <1>7 DEF Tick
  <2>3. \A r \in Requests :
           pc'[r] \in Busy => /\ pc[r] = "work" /\ pc'[r] = "work"
                              /\ left[r] > 0 /\ left'[r] = left[r] - 1
    BY <1>7 DEF Tick, IInv, TypeOK, Busy
  <2>4. "work" \in Busy
    BY DEF Busy
  <2>5. QED BY <1>0, <2>1, <2>2, <2>3, <2>4 DEF IInv, DrainInv
<1>8. QED BY <1>1, <1>2, <1>3, <1>4, <1>5, <1>6, <1>7 DEF Next

\* The four parts hold together in every reachable state.
THEOREM Invariance == Spec => []IInv
<1>1. IInv /\ [Next]_vars => IInv'
  <2> SUFFICES ASSUME IInv, [Next]_vars PROVE IInv'
    OBVIOUS
  <2>1. CASE Next
    BY <2>1, StepHolders, StepTypes, StepPath, StepDrain DEF IInv
  <2>2. CASE UNCHANGED vars
    BY <2>2 DEF vars, requestVars, IInv, TypeOK, SlotsMatchHolders, SlotHolders, Counted,
                PathInv, DrainInv, NoWorkCut
  <2>3. QED BY <2>1, <2>2
<1>2. QED BY <1>1, InitInv, PTL DEF Spec

\* The variables keep their types; in particular the semaphore never holds
\* more than ConcurrencyLimit.
THEOREM TypeCorrectness == Spec => []TypeOK
<1>1. IInv => TypeOK
  BY DEF IInv
<1>2. QED BY <1>1, Invariance, PTL

\* Every slot and every unit of the gauge belongs to a request on its way to
\* the deferred call that returns it, whatever path the handlers take.
THEOREM NoLeakedSlot == Spec => []SlotsMatchHolders
<1>1. IInv => SlotsMatchHolders
  BY DEF IInv
<1>2. QED BY <1>1, Invariance, PTL

\* With the timeouts that Config.Validate accepts, Shutdown never runs out of
\* time while a request is in progress.
THEOREM GracefulShutdown == Spec => []NoWorkCut
<1>1. IInv => NoWorkCut
  BY DEF IInv, DrainInv
<1>2. QED BY <1>1, Invariance, PTL
=============================================================================
