------------------------- MODULE MemoryContextsProofs -------------------------
(***************************************************************************)
(* Proofs about the engine over the memory store, for any number of        *)
(* requests, keys, texts and policies: its invariants, that it implements  *)
(* ContextRegister, and what the handlers of Generate promise on top.      *)
(***************************************************************************)
EXTENDS Generate, TLAPS

-----------------------------------------------------------------------------
(* What the pure operators return *)

\* mask returns a text, and a transform map of markers.
LEMMA NewRecordType ==
    ASSUME NEW r \in Requests, NEW text \in Texts, NEW pol \in Policies,
           NEW force \in BOOLEAN, NEW now \in Nat
    PROVE  NewRecord(r, text, pol, force, now) \in Records
<1> DEFINE found == Detect(text, pol)
           tokens == UseTokens(pol, force)
<1>1. found \subseteq Values /\ found \subseteq text
  BY DEF Detect, Policies
<1>2. tokens \in BOOLEAN
  BY DEF UseTokens, Policies
<1>3. \A v \in found : Replacement(v, tokens, r) \in Fragments
  BY <1>1, ConstantsAssumption DEF Replacement, Fragments, Markers
<1>4. MaskedText(text, pol, force, r) \in Texts
  BY <1>3 DEF MaskedText, Texts
<1>5. TransformMap(text, pol, force, r) \in SUBSET Markers
  BY <1>1 DEF TransformMap, Markers
<1>6. pol.ttl \in Nat
  BY ConstantsAssumption DEF Policies
<1>7. now + pol.ttl \in Nat
  BY <1>6
<1> QED
  BY <1>4, <1>5, <1>7 DEF NewRecord, Records

\* Whatever the operation, an answer is an answer.
LEMMA AnswerType ==
    ASSUME NEW x \in Records, NEW j \in Jobs
    PROVE  AnswerFrom(x, j) \in Answers
<1> USE DEF Success, Failure, Answers, AnswerKinds
<1>1. x.original \in Texts /\ x.masked \in Texts /\ x.map \in SUBSET Markers
  BY DEF Records
<1>2. j.text \in Texts /\ j.pol \in Policies /\ j.op \in Operations
  BY DEF Jobs
<1>3. {} \in Texts
  BY DEF Texts
<1>4. processExisting(x, j.text, j.pol.allow) \in Answers
  BY <1>1, <1>3 DEF processExisting
<1>5. MaskExisting(x, j.text) \in Answers
  BY <1>1, <1>3 DEF MaskExisting
<1>6. Sanitize(j.text, j.pol) \in Texts
  BY <1>2, ConstantsAssumption DEF Sanitize, Texts, Fragments
<1>7. restoreTokens(Sanitize(j.text, j.pol), x.map) \in Texts
  <2>1. \A m \in x.map : m[1] \in Values
    BY <1>1 DEF Markers
  <2> QED
    BY <2>1, <1>6 DEF restoreTokens, Texts, Fragments
<1>8. DemaskExisting(x, j.text, j.pol) \in Answers
  BY <1>1, <1>6, <1>7 DEF DemaskExisting
<1> QED
  BY <1>2, <1>4, <1>5, <1>8 DEF AnswerFrom, Operations

\* A client's operation is an operation on texts the model knows.
LEMMA ClientJobType ==
    ASSUME TypeOK, NEW j \in ClientJobs
    PROVE  j \in Jobs
<1>1. KnownTexts \subseteq Texts
  <2>1. InputTexts \subseteq Texts
    BY InputsAssumption DEF Texts, Fragments
  <2>2. \A q \in Requests : ans[q].text \in Texts
    BY DEF TypeOK, EngineTypeOK, Answers
  <2> QED
    BY <2>1, <2>2 DEF KnownTexts
<1>2. j \in [op: OfferedOps, key: Keys, text: KnownTexts, pol: OfferedPolicies]
  BY DEF ClientJobs
<1> QED
  BY <1>1, <1>2, InputsAssumption DEF Jobs

\* A failure is an answer.
LEMMA FailureType ==
    ASSUME NEW kind \in AnswerKinds
    PROVE  Failure(kind) \in Answers
BY DEF Failure, Answers, Texts

-----------------------------------------------------------------------------
(* Type correctness *)

\* The server starts with no request and an empty map.
LEMMA InitType == Init => TypeOK
<1> SUFFICES ASSUME Init PROVE TypeOK
  OBVIOUS
<1>1. Failure("none") \in Answers
  BY FailureType DEF AnswerKinds
<1> QED
  BY <1>1 DEF Init, EngineInit, TypeOK, EngineTypeOK, PCs

\* Every handler, store call and environment step keeps the types.
LEMMA StepType ==
    ASSUME TypeOK, HandsInv, [Next]_vars
    PROVE  TypeOK'
<1> USE DEF TypeOK, EngineTypeOK
<1>f. \A kind \in AnswerKinds : Failure(kind) \in Answers
  BY FailureType
<1>g. /\ Failure("ctx") \in Answers /\ Failure("store") \in Answers
      /\ Failure("gone") \in Answers /\ Failure("detection") \in Answers
      /\ Failure("invalid") \in Answers
  BY <1>f DEF AnswerKinds
<1>1. CASE Tick /\ UNCHANGED items
  BY <1>1 DEF Tick
<1>2. ASSUME NEW r \in Requests, Cancel(r), UNCHANGED items PROVE TypeOK'
  BY <1>2 DEF Cancel
<1>3. ASSUME NEW r \in Requests, ClientCall(r), UNCHANGED items PROVE TypeOK'
  <2>1. PICK j \in ClientJobs : Begin(r, j)
    BY <1>3 DEF ClientCall
  <2>2. j \in Jobs
    BY ClientJobType
  <2> QED
    BY <1>3, <1>g, <2>1, <2>2 DEF Begin, Goto, Finish, PCs
<1>4. CASE Cleanup
  BY <1>4 DEF Cleanup, engineVars
<1>5. ASSUME NEW r \in Requests, Get(r) PROVE TypeOK'
  <2>1. pc[r] = "read" /\ Key(r) \in Keys
    BY <1>5 DEF Get, HandsInv, Key, Jobs, NoJob
  <2> QED
    BY <1>5, <2>1 DEF Get, Goto, PCs
<1>6. ASSUME NEW r \in Requests, GetEvict(r) PROVE TypeOK'
  BY <1>6 DEF GetEvict, Goto, PCs
<1>7. ASSUME NEW r \in Requests, CreateIfAbsent(r) PROVE TypeOK'
  <2>1. Key(r) \in Keys
    BY <1>7 DEF CreateIfAbsent, HandsInv, Key, Jobs, NoJob
  <2> QED
    BY <1>7, <2>1 DEF CreateIfAbsent, Goto, PCs
<1>8. ASSUME NEW r \in Requests, CtxFail(r), UNCHANGED items PROVE TypeOK'
  BY <1>8, <1>g DEF CtxFail, Finish, Goto, PCs
<1>9. ASSUME NEW r \in Requests, ReadLive(r), UNCHANGED items PROVE TypeOK'
  BY <1>9 DEF ReadLive, Goto, PCs
<1>10. ASSUME NEW r \in Requests, ReadAbsent(r), UNCHANGED items PROVE TypeOK'
  BY <1>10, <1>g DEF ReadAbsent, Finish, Goto, PCs
<1>11. ASSUME NEW r \in Requests, MaskStep(r), UNCHANGED items PROVE TypeOK'
  <2>1. job[r] \in Jobs
    BY <1>11 DEF MaskStep, HandsInv, NoJob
  <2>2. NewRecord(r, job[r].text, job[r].pol, job[r].op = "mask", clock) \in Records
    BY <2>1, NewRecordType DEF Jobs
  <2> QED
    BY <1>11, <1>g, <2>2 DEF MaskStep, Finish, Goto, PCs
<1>12. ASSUME NEW r \in Requests, DetectFail(r), UNCHANGED items PROVE TypeOK'
  BY <1>12, <1>g DEF DetectFail, Finish, Goto, PCs
<1>13. ASSUME NEW r \in Requests, SaveLive(r), UNCHANGED items PROVE TypeOK'
  BY <1>13 DEF SaveLive, Goto, PCs
<1>14. ASSUME NEW r \in Requests, SaveExpired(r), UNCHANGED items PROVE TypeOK'
  BY <1>14, <1>g DEF SaveExpired, Finish, Goto, PCs
<1>15. ASSUME NEW r \in Requests, Respond(r), UNCHANGED items PROVE TypeOK'
  <2>1. rec[r] \in Records /\ job[r] \in Jobs
    BY <1>15 DEF Respond, HandsInv, NoJob
  <2>2. AnswerFrom(rec[r], job[r]) \in Answers
    BY <2>1, AnswerType
  <2> QED
    BY <1>15, <1>g, <2>2 DEF Respond, Finish, Goto, PCs
<1>16. CASE UNCHANGED vars
  BY <1>16 DEF vars, engineVars
<1> QED
  BY <1>1, <1>2, <1>3, <1>4, <1>5, <1>6, <1>7, <1>8, <1>9, <1>10, <1>11, <1>12,
     <1>13, <1>14, <1>15, <1>16
  DEF Next, Environment, RequestStep, StoreStep, EngineStep

-----------------------------------------------------------------------------
(* What each request holds *)

\* With no request and an empty map the invariant holds vacuously.
LEMMA InitInv == Init => IInv
<1> SUFFICES ASSUME Init PROVE IInv
  OBVIOUS
<1>1. TypeOK
  BY InitType
<1>2. HandsInv
  <2> SUFFICES ASSUME NEW r \in Requests
               PROVE  /\ job[r] = NoJob /\ pc[r] = "idle"
                      /\ ans[r] = Failure("none") /\ rec[r] = NoRecord
                      /\ obs[r] <= clock
    BY DEF HandsInv
  <2> QED
    BY DEF Init, EngineInit
<1>3. HeldInForce /\ Provenance
  BY DEF Init, EngineInit, HeldInForce, Provenance, InForce
<1>4. OneBindingAtATime
  BY DEF Init, EngineInit, OneBindingAtATime, Observed
<1>5. OriginalsStayInTheirContext
  BY DEF Init, EngineInit, OriginalsStayInTheirContext, Failure
<1> QED
  BY <1>1, <1>2, <1>3, <1>4, <1>5 DEF IInv

\* The control flow of Process, Mask and Demask: what a request holds, where.
LEMMA StepHands ==
    ASSUME TypeOK, HandsInv, [Next]_vars
    PROVE  HandsInv'
<1> USE DEF TypeOK, EngineTypeOK, HandsInv, Drafted, Expired, InForce
<1>1. CASE Tick /\ UNCHANGED items
  <2>1. clock' = clock + 1 /\ clock \in Nat
    BY <1>1 DEF Tick
  <2>2. \A r \in Requests : pc[r] = "evict" => Expired(rec[r], clock)'
    <3> SUFFICES ASSUME NEW r \in Requests, pc[r] = "evict"
                 PROVE  clock' >= rec[r].expires
      BY <1>1 DEF Tick
    <3>1. rec[r] \in Records /\ clock >= rec[r].expires
      OBVIOUS
    <3>2. rec[r].expires \in Nat
      BY <3>1 DEF Records
    <3> QED
      BY ONLY <2>1, <3>1, <3>2
  <2>3. \A r \in Requests : pc[r] = "save" => Drafted(r)'
    <3> SUFFICES ASSUME NEW r \in Requests, pc[r] = "save" PROVE Drafted(r)'
      BY <1>1 DEF Tick
    <3>1. 0..clock \subseteq 0..clock'
      BY ONLY <2>1
    <3>2. Drafted(r)
      OBVIOUS
    <3> QED
      BY <1>1, <3>1, <3>2 DEF Tick
  <2>4. \A r \in Requests : obs[r] <= clock'
    BY <2>1
  <2> QED
    BY <1>1, <2>2, <2>3, <2>4 DEF Tick
<1>2. CASE Cleanup
  BY <1>2 DEF Cleanup, engineVars
<1>3. ASSUME NEW r \in Requests, Cancel(r), UNCHANGED items PROVE HandsInv'
  BY <1>3 DEF Cancel
<1>4. ASSUME NEW r \in Requests, ClientCall(r), UNCHANGED items PROVE HandsInv'
  <2>1. PICK j \in ClientJobs : Begin(r, j)
    BY <1>4 DEF ClientCall
  <2>2. j # NoJob
    BY ClientJobType, NoRecordAssumption DEF NoJob
  <2> QED
    BY <1>4, <2>1, <2>2 DEF Begin, Goto, Finish
<1>5. ASSUME NEW r \in Requests, Get(r) PROVE HandsInv'
  BY <1>5 DEF Get, Goto, Finish
<1>6. ASSUME NEW r \in Requests, GetEvict(r) PROVE HandsInv'
  BY <1>6 DEF GetEvict, Goto, Finish
<1>7. ASSUME NEW r \in Requests, CreateIfAbsent(r) PROVE HandsInv'
  BY <1>7 DEF CreateIfAbsent, Goto, Finish
<1>8. ASSUME NEW r \in Requests, CtxFail(r), UNCHANGED items PROVE HandsInv'
  BY <1>8 DEF CtxFail, Goto, Finish
<1>9. ASSUME NEW r \in Requests, ReadLive(r), UNCHANGED items PROVE HandsInv'
  BY <1>9 DEF ReadLive, Goto, Finish
<1>10. ASSUME NEW r \in Requests, ReadAbsent(r), UNCHANGED items PROVE HandsInv'
  BY <1>10 DEF ReadAbsent, Goto, Finish
<1>11. ASSUME NEW r \in Requests, MaskStep(r), UNCHANGED items PROVE HandsInv'
  <2>1. job[r] \in Jobs
    BY <1>11 DEF MaskStep, NoJob
  <2>2. NewRecord(r, job[r].text, job[r].pol, job[r].op = "mask", clock) \in Records
    BY <2>1, NewRecordType DEF Jobs
  <2>3. clock \in 0..clock
    <3>1. clock \in Nat
      OBVIOUS
    <3> QED
      BY ONLY <3>1
  <2> QED
    BY <1>11, <2>2, <2>3, NoRecordAssumption DEF MaskStep, Goto, Finish
<1>12. ASSUME NEW r \in Requests, DetectFail(r), UNCHANGED items PROVE HandsInv'
  BY <1>12 DEF DetectFail, Goto, Finish
<1>13. ASSUME NEW r \in Requests, SaveLive(r), UNCHANGED items PROVE HandsInv'
  BY <1>13 DEF SaveLive, Goto, Finish
<1>14. ASSUME NEW r \in Requests, SaveExpired(r), UNCHANGED items PROVE HandsInv'
  BY <1>14 DEF SaveExpired, Goto, Finish
<1>15. ASSUME NEW r \in Requests, Respond(r), UNCHANGED items PROVE HandsInv'
  BY <1>15 DEF Respond, Goto, Finish
<1>16. CASE UNCHANGED vars
  BY <1>16 DEF vars, engineVars
<1> QED
  BY <1>1, <1>2, <1>3, <1>4, <1>5, <1>6, <1>7, <1>8, <1>9,
     <1>10, <1>11, <1>12, <1>13, <1>14, <1>15, <1>16
  DEF Next, Environment, RequestStep, StoreStep, EngineStep

-----------------------------------------------------------------------------
(* Who writes what *)

\* Nothing that belongs to q changes.
SameFor(q) ==
    /\ pc'[q] = pc[q] /\ job'[q] = job[q] /\ draft'[q] = draft[q]
    /\ rec'[q] = rec[q] /\ obs'[q] = obs[q] /\ ans'[q] = ans[q]

\* A step of one request leaves time, calls and all other requests alone.
LEMMA RequestFrame ==
    ASSUME TypeOK, NEW r \in Requests, RequestStep(r)
    PROVE  /\ clock' = clock /\ job' = job /\ cancelled' = cancelled
           /\ \A q \in Requests \ {r} : SameFor(q)
<1> USE DEF TypeOK, EngineTypeOK, SameFor, Goto, Finish
<1>1. CASE StoreStep(r)
  BY <1>1 DEF StoreStep, Get, GetEvict, CreateIfAbsent
<1>2. CASE CtxFail(r) \/ ReadLive(r) \/ ReadAbsent(r)
  BY <1>2 DEF CtxFail, ReadLive, ReadAbsent
<1>3. CASE MaskStep(r) \/ DetectFail(r)
  BY <1>3 DEF MaskStep, DetectFail
<1>4. CASE SaveLive(r) \/ SaveExpired(r) \/ Respond(r)
  BY <1>4 DEF SaveLive, SaveExpired, Respond
<1> QED
  BY <1>1, <1>2, <1>3, <1>4 DEF RequestStep, EngineStep

\* A call gives a request its job, and leaves everything else alone.
LEMMA BeginFrame ==
    ASSUME TypeOK, HandsInv, NEW r \in Requests, NEW j \in Jobs, Begin(r, j)
    PROVE  /\ UNCHANGED <<clock, draft, rec, obs, cancelled>>
           /\ pc[r] = "idle" /\ job[r] = NoJob /\ rec[r] = NoRecord
           /\ job'[r] = j
           /\ \/ pc'[r] = "read" /\ ans'[r] = ans[r]
              \/ pc'[r] = "done" /\ ans'[r] = Failure("invalid")
           /\ \A q \in Requests \ {r} : SameFor(q)
<1>1. pc[r] = "idle" /\ job[r] = NoJob /\ rec[r] = NoRecord
  BY DEF Begin, HandsInv
<1> QED
  BY <1>1 DEF TypeOK, EngineTypeOK, Begin, Goto, Finish, SameFor

\* The same, of a client's call.
LEMMA CallFrame ==
    ASSUME TypeOK, HandsInv, NEW r \in Requests, ClientCall(r)
    PROVE  /\ UNCHANGED <<clock, draft, rec, obs, cancelled>>
           /\ pc[r] = "idle" /\ job[r] = NoJob /\ rec[r] = NoRecord
           /\ job'[r] \in Jobs
           /\ \/ pc'[r] = "read" /\ ans'[r] = ans[r]
              \/ pc'[r] = "done" /\ ans'[r] = Failure("invalid")
           /\ \A q \in Requests \ {r} : SameFor(q)
<1>1. PICK j \in ClientJobs : Begin(r, j)
  BY DEF ClientCall
<1>2. j \in Jobs
  BY ClientJobType
<1> QED
  BY <1>1, <1>2, BeginFrame

\* Whatever a call asks for, the invariants of the engine survive it.
LEMMA BeginInv ==
    ASSUME TypeOK, HandsInv, HeldInForce, UNCHANGED items,
           NEW r \in Requests, NEW j \in Jobs, Begin(r, j)
    PROVE  TypeOK' /\ HandsInv' /\ HeldInForce'
<1>f. Failure("invalid") \in Answers
  BY FailureType DEF AnswerKinds
<1>1. TypeOK'
  BY <1>f DEF Begin, Goto, Finish, PCs, TypeOK, EngineTypeOK
<1>2. j # NoJob
  BY NoRecordAssumption DEF NoJob
<1>3. HandsInv'
  BY <1>2 DEF Begin, Goto, Finish, HandsInv, Drafted, Expired, TypeOK, EngineTypeOK
<1>4. HeldInForce'
  <2>1. rec'[r] = NoRecord /\ clock' = clock
        /\ \A q \in Requests \ {r} : rec'[q] = rec[q] /\ job'[q] = job[q]
    BY BeginFrame DEF SameFor
  <2> QED
    BY <2>1 DEF HeldInForce, Key, InForce, Expired
<1> QED
  BY <1>1, <1>3, <1>4

\* Time does not go back.
LEMMA ClockUp ==
    ASSUME TypeOK, HandsInv, [Next]_vars
    PROVE  clock' = clock \/ clock' = clock + 1
<1>1. ASSUME NEW r \in Requests, RequestStep(r) PROVE clock' = clock
  BY <1>1, RequestFrame
<1>2. ASSUME NEW r \in Requests, ClientCall(r) PROVE clock' = clock
  BY <1>2, CallFrame
<1> QED
  BY <1>1, <1>2 DEF Next, Environment, Cleanup, Cancel, Tick, vars, engineVars

-----------------------------------------------------------------------------
(* A record in force is never lost *)

\* Once expired, a record stays so.
LEMMA ExpiryIsFinal ==
    ASSUME TypeOK, HandsInv, [Next]_vars,
           NEW x \in Records \cup {NoRecord}, InForce(x, clock')
    PROVE  InForce(x, clock)
<1>1. x \in Records /\ x.expires \in Nat /\ clock \in Nat
  BY DEF InForce, Records, TypeOK, EngineTypeOK
<1> QED
  BY <1>1, ClockUp DEF InForce, Expired

\* The identity test in Get and the tests in CreateIfAbsent and Cleanup keep
\* what is in force.
LEMMA NotLost ==
    ASSUME TypeOK, HandsInv, [Next]_vars, NEW k \in Keys, InForce(items[k], clock)
    PROVE  items'[k] = items[k]
<1>1. ASSUME NEW r \in Requests, GetEvict(r) PROVE items'[k] = items[k]
  <2>1. ~InForce(rec[r], clock)
    BY <1>1 DEF GetEvict, HandsInv, InForce
  <2> QED
    BY <1>1, <2>1 DEF GetEvict, TypeOK
<1>2. ASSUME NEW r \in Requests, CreateIfAbsent(r) PROVE items'[k] = items[k]
  BY <1>2 DEF CreateIfAbsent, TypeOK
<1>3. Cleanup => items'[k] = items[k]
  BY DEF Cleanup
<1> QED
  BY <1>1, <1>2, <1>3
  DEF Next, Environment, RequestStep, StoreStep, Get, vars

\* What was held in force stays held while it is in force.
LEMMA HeldStays ==
    ASSUME TypeOK, HandsInv, [Next]_vars,
           NEW k \in Keys, NEW x \in Records \cup {NoRecord},
           InForce(x, clock) => items[k] = x
    PROVE  InForce(x, clock') => items'[k] = x
BY ExpiryIsFinal, NotLost

\* A request takes into its hand what is in the map, or what it puts there.
LEMMA StepHeld ==
    ASSUME TypeOK, HandsInv, HeldInForce, [Next]_vars
    PROVE  HeldInForce'
<1>k. \A r \in Requests : pc[r] # "idle" => Key(r) \in Keys
  BY DEF HandsInv, Key, Jobs, NoJob, TypeOK, EngineTypeOK
<1> DEFINE Held(q) == InForce(rec'[q], clock') => items'[job'[q].key] = rec'[q]
<1>o. ASSUME NEW q \in Requests, SameFor(q) PROVE Held(q)
  <2>1. CASE pc[q] = "idle"
    BY <1>o, <2>1 DEF SameFor, HandsInv, InForce
  <2>2. CASE pc[q] # "idle"
    <3>1. Key(q) \in Keys /\ rec[q] \in Records \cup {NoRecord}
      BY <1>k, <2>2 DEF TypeOK, EngineTypeOK
    <3>2. InForce(rec[q], clock') => items'[Key(q)] = rec[q]
      BY <3>1, HeldStays DEF HeldInForce
    <3> QED
      BY <1>o, <3>2 DEF SameFor, Key
  <2> QED
    BY <2>1, <2>2
<1> SUFFICES \A q \in Requests : Held(q)
  BY DEF HeldInForce, Key, InForce, Expired
<1>1. CASE Tick /\ UNCHANGED items
  BY <1>1, <1>o DEF Tick, SameFor
<1>2. CASE Cleanup
  BY <1>2, <1>o DEF Cleanup, engineVars, SameFor
<1>3. ASSUME NEW r \in Requests, Cancel(r) PROVE \A q \in Requests : Held(q)
  BY <1>3, <1>o DEF Cancel, SameFor
<1>4. ASSUME NEW r \in Requests, ClientCall(r) PROVE \A q \in Requests : Held(q)
  <2>1. Held(r)
    BY <1>4, CallFrame DEF InForce
  <2> QED
    BY <1>4, <1>o, <2>1, CallFrame
<1>5. ASSUME NEW r \in Requests, RequestStep(r) PROVE \A q \in Requests : Held(q)
  <2>f. clock' = clock /\ job' = job
    BY <1>5, RequestFrame
  <2> SUFFICES Held(r)
    BY <1>5, <1>o, RequestFrame
  <2> USE DEF TypeOK, EngineTypeOK, HeldInForce, Key, Goto, Finish
  <2>n. ~InForce(NoRecord, clock)
    BY DEF InForce
  <2>1. CASE Get(r)
    BY <2>1, <2>f DEF Get
  <2>2. CASE GetEvict(r)
    BY <2>2, <2>f, <2>n DEF GetEvict
  <2>3. CASE CreateIfAbsent(r)
    <3>1. Key(r) \in Keys
      BY <2>3, <1>k DEF CreateIfAbsent
    <3> QED
      BY <2>3, <2>f, <3>1 DEF CreateIfAbsent
  <2>4. CASE (CtxFail(r) \/ ReadLive(r) \/ ReadAbsent(r)) /\ UNCHANGED items
    BY <2>4, <2>f, <2>n DEF CtxFail, ReadLive, ReadAbsent
  <2>5. CASE (MaskStep(r) \/ DetectFail(r)) /\ UNCHANGED items
    BY <2>5, <2>f DEF MaskStep, DetectFail
  <2>6. CASE (SaveLive(r) \/ SaveExpired(r) \/ Respond(r)) /\ UNCHANGED items
    BY <2>6, <2>f, <2>n DEF SaveLive, SaveExpired, Respond
  <2> QED
    BY <1>5, <2>1, <2>2, <2>3, <2>4, <2>5, <2>6 DEF RequestStep, StoreStep, EngineStep
<1>6. CASE UNCHANGED vars
  BY <1>6, <1>o DEF vars, engineVars, SameFor
<1> QED
  BY <1>1, <1>2, <1>3, <1>4, <1>5, <1>6 DEF Next, Environment

\* A record stays with the key of the call that made it.
LEMMA StepProvenance ==
    ASSUME TypeOK, HandsInv, Provenance, [Next]_vars
    PROVE  Provenance'
<1> USE DEF TypeOK, EngineTypeOK, Provenance, MadeUnder, Key
<1>1. CASE Tick /\ UNCHANGED items
  BY <1>1 DEF Tick
<1>2. CASE Cleanup
  BY <1>2 DEF Cleanup, engineVars
<1>3. ASSUME NEW r \in Requests, Cancel(r), UNCHANGED items PROVE Provenance'
  BY <1>3 DEF Cancel
<1>4. ASSUME NEW r \in Requests, ClientCall(r), UNCHANGED items PROVE Provenance'
  <2>1. PICK j \in ClientJobs : Begin(r, j)
    BY <1>4 DEF ClientCall
  <2>2. job[r] = NoJob /\ rec[r] = NoRecord
    BY <2>1 DEF Begin, HandsInv
  <2>3. \A q \in Requests : job[q] # NoJob => job'[q] = job[q]
    BY <2>1, <2>2 DEF Begin
  <2>4. \A x \in Records : \A k : MadeUnder(x, k) => MadeUnder(x, k)'
    BY <2>3 DEF Records
  <2> QED
    BY <1>4, <2>1, <2>2, <2>3, <2>4 DEF Begin
<1>5. ASSUME NEW r \in Requests, Get(r) PROVE Provenance'
  <2>1. Key(r) \in Keys
    BY <1>5 DEF Get, HandsInv, Jobs, NoJob
  <2>2. UNCHANGED <<job, items>> /\ rec' = [rec EXCEPT ![r] = items[Key(r)]]
    BY <1>5 DEF Get
  <2>3. ASSUME NEW q \in Requests, rec'[q] # NoRecord
        PROVE  /\ job[rec'[q].id] # NoJob /\ job[rec'[q].id].key = job[q].key
               /\ job[rec'[q].id].op # "demask"
               /\ job[rec'[q].id].text = rec'[q].original
    <3>1. CASE q = r
      BY <2>1, <2>2, <2>3, <3>1
    <3>2. CASE q # r
      BY <2>2, <2>3, <3>2
    <3> QED
      BY <3>1, <3>2
  <2> QED
    BY <2>2, <2>3
<1>6. ASSUME NEW r \in Requests, GetEvict(r) PROVE Provenance'
  BY <1>6 DEF GetEvict, Goto, Finish
<1>7. ASSUME NEW r \in Requests, CreateIfAbsent(r) PROVE Provenance'
  <2>1. Key(r) \in Keys /\ job[r] # NoJob
    BY <1>7 DEF CreateIfAbsent, HandsInv, Jobs, NoJob
  <2>2. Drafted(r) /\ job[r].op # "demask"
    BY <1>7 DEF CreateIfAbsent, HandsInv
  <2>3. draft[r].id = r /\ draft[r].original = job[r].text
    BY <2>2 DEF Drafted, NewRecord
  <2>4. MadeUnder(draft[r], Key(r))
    BY <2>1, <2>2, <2>3
  <2>5. job' = job
    BY <1>7 DEF CreateIfAbsent
  <2>6. \A k \in Keys : items'[k] = items[k] \/ (k = Key(r) /\ items'[k] = draft[r])
    BY <1>7, <2>1 DEF CreateIfAbsent
  <2>7. \A q \in Requests :
           \/ rec'[q] = rec[q]
           \/ q = r /\ (rec'[q] = draft[r] \/ rec'[q] = items[Key(r)])
    BY <1>7 DEF CreateIfAbsent
  <2> QED
    BY <2>1, <2>4, <2>5, <2>6, <2>7
<1>8. ASSUME NEW r \in Requests, CtxFail(r), UNCHANGED items PROVE Provenance'
  BY <1>8 DEF CtxFail, Goto, Finish
<1>9. ASSUME NEW r \in Requests, ReadLive(r), UNCHANGED items PROVE Provenance'
  BY <1>9 DEF ReadLive, Goto, Finish
<1>10. ASSUME NEW r \in Requests, ReadAbsent(r), UNCHANGED items PROVE Provenance'
  BY <1>10 DEF ReadAbsent, Goto, Finish
<1>11. ASSUME NEW r \in Requests, MaskStep(r), UNCHANGED items PROVE Provenance'
  BY <1>11 DEF MaskStep, Goto, Finish
<1>12. ASSUME NEW r \in Requests, DetectFail(r), UNCHANGED items PROVE Provenance'
  BY <1>12 DEF DetectFail, Goto, Finish
<1>13. ASSUME NEW r \in Requests, SaveLive(r), UNCHANGED items PROVE Provenance'
  BY <1>13 DEF SaveLive, Goto, Finish
<1>14. ASSUME NEW r \in Requests, SaveExpired(r), UNCHANGED items PROVE Provenance'
  BY <1>14 DEF SaveExpired, Goto, Finish
<1>15. ASSUME NEW r \in Requests, Respond(r), UNCHANGED items PROVE Provenance'
  BY <1>15 DEF Respond, Goto, Finish
<1>16. CASE UNCHANGED vars
  BY <1>16 DEF vars, engineVars
<1> QED
  BY <1>1, <1>2, <1>3, <1>4, <1>5, <1>6, <1>7, <1>8, <1>9,
     <1>10, <1>11, <1>12, <1>13, <1>14, <1>15, <1>16
  DEF Next, Environment, RequestStep, StoreStep, EngineStep

-----------------------------------------------------------------------------
(* The safety invariants *)

\* Who answers from a record either did so before or accepts it now, in force.
LEMMA Observation ==
    ASSUME TypeOK, HandsInv, [Next]_vars, NEW q \in Requests, Observed(q)'
    PROVE  /\ rec'[q] = rec[q] /\ job'[q] = job[q]
           /\ \/ Observed(q) /\ obs'[q] = obs[q]
              \/ InForce(rec[q], clock) /\ obs'[q] = clock
<1> DEFINE Goal == /\ rec'[q] = rec[q] /\ job'[q] = job[q]
                   /\ \/ Observed(q) /\ obs'[q] = obs[q]
                      \/ InForce(rec[q], clock) /\ obs'[q] = clock
<1>o. SameFor(q) => Goal
  BY DEF SameFor, Observed
<1>1. CASE Tick \/ Cleanup
  BY <1>1, <1>o DEF Tick, Cleanup, engineVars, SameFor
<1>2. ASSUME NEW r \in Requests, Cancel(r) PROVE Goal
  BY <1>2, <1>o DEF Cancel, SameFor
<1>3. ASSUME NEW r \in Requests, ClientCall(r) PROVE Goal
  BY <1>3, <1>o, CallFrame DEF Observed
<1>4. ASSUME NEW r \in Requests, RequestStep(r) PROVE Goal
  <2>1. CASE q # r
    BY <1>4, <1>o, <2>1, RequestFrame
  <2>2. CASE q = r
    <3> USE DEF TypeOK, EngineTypeOK, HandsInv, Observed, Goto, Finish
    <3>1. CASE StoreStep(q)
      BY <3>1 DEF StoreStep, Get, GetEvict, CreateIfAbsent
    <3>2. CASE CtxFail(q) \/ ReadLive(q) \/ ReadAbsent(q)
      BY <3>2 DEF CtxFail, ReadLive, ReadAbsent
    <3>3. CASE MaskStep(q) \/ DetectFail(q)
      BY <3>3 DEF MaskStep, DetectFail
    <3>4. CASE SaveLive(q) \/ SaveExpired(q) \/ Respond(q)
      BY <3>4 DEF SaveLive, SaveExpired, Respond, InForce
    <3> QED
      BY <1>4, <2>2, <3>1, <3>2, <3>3, <3>4 DEF RequestStep, EngineStep
  <2> QED
    BY <2>1, <2>2
<1>5. CASE UNCHANGED vars
  BY <1>5, <1>o DEF vars, engineVars, SameFor
<1> QED
  BY <1>1, <1>2, <1>3, <1>4, <1>5 DEF Next, Environment

\* A request observes a record that is in force; whoever observed another one
\* under the key held a record that is in force no longer.
LEMMA StepOneBinding ==
    ASSUME TypeOK, HandsInv, HeldInForce, OneBindingAtATime, [Next]_vars
    PROVE  OneBindingAtATime'
<1> SUFFICES ASSUME NEW p \in Requests, NEW q \in Requests,
                    Observed(p)', Observed(q)', Key(p)' = Key(q)', rec'[p] # rec'[q]
             PROVE  Expired(rec'[p], obs'[q]) \/ Expired(rec'[q], obs'[p])
  BY DEF OneBindingAtATime, Expired
<1>1. /\ rec'[p] = rec[p] /\ rec'[q] = rec[q] /\ rec[p] # rec[q] /\ Key(p) = Key(q)
      /\ rec[p] # NoRecord /\ rec[q] # NoRecord
  BY Observation DEF Key, Observed
<1>2. InForce(rec[p], clock) => ~InForce(rec[q], clock)
  BY <1>1 DEF HeldInForce
<1>3. CASE obs'[p] = clock /\ InForce(rec[p], clock)
  BY <1>1, <1>2, <1>3 DEF InForce
<1>4. CASE obs'[q] = clock /\ InForce(rec[q], clock)
  BY <1>1, <1>2, <1>4 DEF InForce
<1>5. CASE Observed(p) /\ obs'[p] = obs[p] /\ Observed(q) /\ obs'[q] = obs[q]
  BY <1>1, <1>5 DEF OneBindingAtATime
<1> QED
  BY <1>3, <1>4, <1>5, Observation

\* An answer that is new is a failure, or comes from the record in the hand.
LEMMA NewAnswer ==
    ASSUME TypeOK, HandsInv, [Next]_vars, NEW q \in Requests, ans'[q] # ans[q]
    PROVE  \/ \E kind \in {"ctx", "store", "detection", "invalid"} : ans'[q] = Failure(kind)
           \/ ReadAbsent(q) /\ job[q].op = "demask" /\ ans'[q] = Failure("gone")
           \/ Respond(q) /\ ans'[q] = AnswerFrom(rec[q], job[q])
<1> DEFINE Goal ==
       \/ \E kind \in {"ctx", "store", "detection", "invalid"} : ans'[q] = Failure(kind)
       \/ ReadAbsent(q) /\ job[q].op = "demask" /\ ans'[q] = Failure("gone")
       \/ Respond(q) /\ ans'[q] = AnswerFrom(rec[q], job[q])
<1>1. ASSUME NEW r \in Requests, ClientCall(r) PROVE Goal
  BY <1>1, CallFrame DEF SameFor
<1>2. ASSUME NEW r \in Requests, RequestStep(r) PROVE Goal
  <2>1. q = r
    BY <1>2, RequestFrame DEF SameFor
  <2> USE DEF TypeOK, EngineTypeOK, Goto, Finish
  <2>2. ~StoreStep(q)
    BY DEF StoreStep, Get, GetEvict, CreateIfAbsent
  <2>3. CASE CtxFail(q) \/ ReadLive(q)
    BY <2>3 DEF CtxFail, ReadLive
  <2>4. CASE ReadAbsent(q)
    BY <2>4 DEF ReadAbsent
  <2>5. CASE MaskStep(q) \/ DetectFail(q)
    BY <2>5 DEF MaskStep, DetectFail
  <2>6. CASE SaveLive(q) \/ SaveExpired(q)
    BY <2>6 DEF SaveLive, SaveExpired
  <2>7. CASE Respond(q)
    BY <2>7 DEF Respond
  <2> QED
    BY <1>2, <2>1, <2>2, <2>3, <2>4, <2>5, <2>6, <2>7 DEF RequestStep, EngineStep
<1> QED
  BY <1>1, <1>2 DEF Next, Environment, Tick, Cancel, Cleanup, vars, engineVars

\* A call is made once.
LEMMA JobsStay ==
    ASSUME TypeOK, HandsInv, [Next]_vars, NEW q \in Requests, job[q] # NoJob
    PROVE  job'[q] = job[q]
<1>1. ASSUME NEW r \in Requests, RequestStep(r) PROVE job' = job
  BY <1>1, RequestFrame
<1>2. ASSUME NEW r \in Requests, ClientCall(r) PROVE job'[q] = job[q]
  BY <1>2, CallFrame DEF SameFor
<1> QED
  BY <1>1, <1>2 DEF Next, Environment, Tick, Cancel, Cleanup, vars, engineVars

\* An original comes from the record, and the record from a call on the key.
LEMMA StepOriginals ==
    ASSUME TypeOK, HandsInv, Provenance, OriginalsStayInTheirContext, [Next]_vars
    PROVE  OriginalsStayInTheirContext'
<1> SUFFICES ASSUME NEW r \in Requests, ans'[r].kind = "original"
             PROVE  \E q \in Requests : /\ job'[q] # NoJob
                                        /\ job'[q].key = job'[r].key
                                        /\ job'[q].op # "demask"
                                        /\ job'[q].text = ans'[r].text
  BY DEF OriginalsStayInTheirContext
<1>1. CASE ans'[r] = ans[r]
  <2>1. job[r] # NoJob
    BY <1>1 DEF HandsInv, Failure
  <2> QED
    BY <1>1, <2>1, JobsStay DEF OriginalsStayInTheirContext
<1>2. CASE ans'[r] # ans[r]
  <2>1. Respond(r) /\ ans'[r] = AnswerFrom(rec[r], job[r])
    BY <1>2, NewAnswer DEF Failure
  <2>2. rec[r] \in Records /\ job[r] \in Jobs
    BY <2>1 DEF Respond, HandsInv, NoJob, TypeOK, EngineTypeOK
  <2>3. MadeUnder(rec[r], Key(r)) /\ rec[r].id \in Requests
    BY <2>2, NoRecordAssumption DEF Provenance, Records
  <2>4. ans'[r].text = rec[r].original
    BY <2>1, <2>2 DEF AnswerFrom, processExisting, MaskExisting, DemaskExisting,
       Success, Failure
  <2> QED
    BY <2>1, <2>3, <2>4 DEF MadeUnder, Key, Respond
<1> QED
  BY <1>1, <1>2

\* No step breaks the invariant.
LEMMA StepInv ==
    ASSUME IInv, [Next]_vars
    PROVE  IInv'
<1> USE DEF IInv
<1>1. TypeOK' /\ HandsInv'
  BY StepType, StepHands
<1>2. HeldInForce' /\ Provenance'
  BY StepHeld, StepProvenance
<1>3. OneBindingAtATime' /\ OriginalsStayInTheirContext'
  BY StepOneBinding, StepOriginals
<1> QED
  BY <1>1, <1>2, <1>3

\* The inductive invariant holds in every reachable state of the engine over
\* the memory store.
THEOREM Invariance == Spec => []IInv
<1>1. Init => IInv
  BY InitInv
<1>2. IInv /\ [Next]_vars => IInv'
  BY StepInv
<1> QED
  BY <1>1, <1>2, PTL DEF Spec

\* Every variable keeps its type (records, jobs and answers included).
THEOREM TypeCorrectness == Spec => []TypeOK
<1>1. IInv => TypeOK
  BY DEF IInv
<1> QED
  BY <1>1, Invariance, PTL

\* No two requests ever answer from two bindings of one key that were both in
\* force (Get, CreateIfAbsent, Cleanup and the expiry tests of read and save).
THEOREM OneBinding == Spec => []OneBindingAtATime
<1>1. IInv => OneBindingAtATime
  BY DEF IInv
<1> QED
  BY <1>1, Invariance, PTL

\* An original never leaves the system, namespace and identifier it came
\* under (Processor.key).
THEOREM ContextIsolation == Spec => []OriginalsStayInTheirContext
<1>1. IInv => OriginalsStayInTheirContext
  BY DEF IInv
<1> QED
  BY <1>1, Invariance, PTL

-----------------------------------------------------------------------------
(***************************************************************************)
(* The engine over TTLStore implements ContextRegister.  The map refines   *)
(* to the bindings that are in force; a request has seen its record from   *)
(* the moment read or save accepted it.  CreateIfAbsent is the step that   *)
(* binds, the expiry test of read and save the one that observes, and the  *)
(* inductive invariant (what is in force in a hand is what is in the map)  *)
(* is what makes that observation one of the current binding.              *)
(***************************************************************************)

\* The refinement mapping of the map and of the requests' hands.
Bound == [k \in Keys |-> LiveBinding(k)]

Seen == [r \in Requests |->
            IF pc[r] \in {"respond", "done"} THEN rec[r] ELSE NoRecord]

\* The data of the register are those of the engine.
LEMMA SameData ==
    /\ Register!Keys = Keys
    /\ Register!Jobs = Jobs
    /\ \A x, t : Register!Expired(x, t) <=> Expired(x, t)
    /\ \A x, t : Register!InForce(x, t) <=> InForce(x, t)
    /\ \A kind : Register!Failure(kind) = Failure(kind)
    /\ \A x, j : Register!AnswerFrom(x, j) = AnswerFrom(x, j)
    /\ \A r, text, pol, force, t :
          Register!NewRecord(r, text, pol, force, t) = NewRecord(r, text, pol, force, t)
    /\ \A text, masked, pol :
          Register!Verified(text, masked, pol) <=> Verified(text, masked, pol)
<1>1. Register!Keys = Keys
  BY DEF Keys, Register!Keys, Namespaces, Register!Namespaces
<1>2. Register!Jobs = Jobs
  <2>1. Register!Texts = Texts
    BY DEF Markers, Register!Markers, Fragments, Register!Fragments, Texts, Register!Texts
  <2>2. Register!Policies = Policies
    BY DEF Policies, Register!Policies
  <2>3. Register!Operations = Operations
    BY DEF Operations, Register!Operations
  <2> QED
    BY <1>1, <2>1, <2>2, <2>3 DEF Jobs, Register!Jobs
<1>3. \A x, t : Register!Expired(x, t) <=> Expired(x, t)
  BY DEF Expired, Register!Expired
<1>4. \A x, t : Register!InForce(x, t) <=> InForce(x, t)
  BY DEF InForce, Register!InForce, Expired, Register!Expired
<1>5. \A kind : Register!Failure(kind) = Failure(kind)
  BY DEF Failure, Register!Failure
<1>6. \A x, j : Register!AnswerFrom(x, j) = AnswerFrom(x, j)
  BY DEF AnswerFrom, Register!AnswerFrom, processExisting, Register!processExisting, MaskExisting, Register!MaskExisting, DemaskExisting, Register!DemaskExisting, ExactEcho, Register!ExactEcho, restoreTokens, Register!restoreTokens, Sanitize, Register!Sanitize, Detect, Register!Detect, Success, Register!Success, Failure, Register!Failure
<1>7. \A r, text, pol, force, t :
          Register!NewRecord(r, text, pol, force, t) = NewRecord(r, text, pol, force, t)
  BY DEF NewRecord, Register!NewRecord, MaskedText, Register!MaskedText, Detect, Register!Detect, UseTokens, Register!UseTokens, Replacement, Register!Replacement, TransformMap, Register!TransformMap
<1>8. \A text, masked, pol :
          Register!Verified(text, masked, pol) <=> Verified(text, masked, pol)
  BY DEF Verified, Register!Verified, Detect, Register!Detect
<1> QED
  BY <1>1, <1>2, <1>3, <1>4, <1>5, <1>6, <1>7, <1>8

\* The empty map is the empty register.
LEMMA RefInit ==
    ASSUME Init
    PROVE  Register!Init
<1>1. Bound = [k \in Keys |-> NoRecord]
  BY DEF Init, Bound, LiveBinding, InForce
<1>2. Seen = [r \in Requests |-> NoRecord]
  BY DEF Init, EngineInit, Seen
<1> QED
  BY <1>1, <1>2, SameData DEF Register!Init, Init, EngineInit, Bound, Seen, NoJob

\* The register does not move when no binding does and no request observes or
\* answers.
Stutter == UNCHANGED <<clock, job, Bound, Seen, ans>>

\* The same, in the terms of the instantiated module.
LEMMA StutterIsStutter == Stutter => UNCHANGED Register!registerVars
BY DEF Stutter, Register!registerVars, Bound, Seen

\* No step of the map can be seen at k: both items, if any, are expired.
Undisturbed(k) ==
    \/ items'[k] = items[k]
    \/ ~InForce(items[k], clock) /\ ~InForce(items'[k], clock)

\* Get and Cleanup delete nothing that is in force.
LEMMA LiveBindings ==
    ASSUME clock' = clock,
           \A k \in Keys : Undisturbed(k)
    PROVE  Bound' = Bound
BY DEF Bound, LiveBinding, Undisturbed

\* Every step of the engine and of the store is one of the register, or none.
LEMMA RefStep ==
    ASSUME IInv, [Next]_vars
    PROVE  [Register!Next]_(Register!registerVars)
<1> DEFINE Goal == [Register!Next]_(Register!registerVars)
<1>t. TypeOK /\ HandsInv /\ HeldInForce
  BY DEF IInv
<1>s. Stutter => Goal
  BY StutterIsStutter
<1>k. \A r \in Requests : pc[r] # "idle" => Key(r) \in Keys /\ job[r] \in Jobs
  BY <1>t DEF TypeOK, EngineTypeOK, HandsInv, Key, Jobs, NoJob
<1>p. \A r \in Requests : pc[r] \notin {"idle", "done"} => Register!Pending(r)
  BY <1>t DEF HandsInv, Register!Pending, NoJob, Failure
<1>u. UNCHANGED <<clock, items>> => Bound' = Bound
  BY DEF Bound, LiveBinding
<1>1. CASE Tick /\ UNCHANGED items
  <2>1. clock' = clock + 1 /\ items' = items /\ Seen' = Seen /\ UNCHANGED <<job, ans>>
    BY <1>1 DEF Tick, Seen
  <2>2. \A k \in Keys : LiveBinding(k)' =
           IF InForce(LiveBinding(k), clock') THEN LiveBinding(k) ELSE NoRecord
    <3> SUFFICES ASSUME NEW k \in Keys, InForce(items[k], clock') PROVE InForce(items[k], clock)
      BY <2>1 DEF LiveBinding, InForce
    <3>1. items[k] \in Records /\ clock \in Nat
      BY <1>t DEF TypeOK, EngineTypeOK, InForce
    <3>2. items[k].expires \in Nat
      BY <3>1 DEF Records
    <3> QED
      BY <2>1, <3>1, <3>2 DEF InForce, Expired
  <2>3. Register!Tick
    BY <2>1, <2>2, SameData DEF Register!Tick, Seen
  <2> QED
    BY <2>3 DEF Register!Next
<1>2. CASE Cleanup
  <2>1. UNCHANGED <<clock, job, Seen, ans>>
    BY <1>2 DEF Cleanup, engineVars, Seen
  <2>2. Bound' = Bound
    <3>1. ~InForce(NoRecord, clock)
      BY DEF InForce
    <3>2. \A k \in Keys : Undisturbed(k)
      BY <1>2, <3>1 DEF Cleanup, Undisturbed
    <3> QED
      BY <2>1, <3>2, LiveBindings
  <2> QED
    BY <1>s, <2>1, <2>2 DEF Stutter
<1>3. ASSUME NEW r \in Requests, Cancel(r), UNCHANGED items PROVE Goal
  <2>1. UNCHANGED <<clock, job, Seen, ans>>
    BY <1>3 DEF Cancel, Seen
  <2> QED
    BY <1>3, <1>s, <1>u, <2>1 DEF Stutter
<1>4. ASSUME NEW r \in Requests, ClientCall(r), UNCHANGED items PROVE Goal
  <2>1. PICK j \in ClientJobs : Begin(r, j)
    BY <1>4 DEF ClientCall
  <2>2. j \in Jobs
    BY <1>t, ClientJobType
  <2>3. job[r] = NoRecord /\ rec[r] = NoRecord /\ pc[r] = "idle"
    BY <1>t, <2>1 DEF Begin, HandsInv, NoJob
  <2>4. Seen' = Seen /\ Bound' = Bound /\ clock' = clock
    BY <1>4, <1>t, <1>u, <2>1, <2>3 DEF Begin, Seen, Goto, Finish, TypeOK, EngineTypeOK
  <2>5. job' = [job EXCEPT ![r] = j] /\ job'[r] = j
    BY <1>t, <2>1 DEF Begin, TypeOK, EngineTypeOK
  <2>6. ans' = IF j.pol.valid THEN ans ELSE [ans EXCEPT ![r] = Failure("invalid")]
    BY <2>1 DEF Begin, Finish
  <2>7. Register!Call(r)
    <3>0. j \in Register!Jobs
      BY <2>2, SameData
    <3>1. job'[r] \in Register!Jobs /\ job' = [job EXCEPT ![r] = job'[r]]
      BY <2>5, <3>0
    <3>2. ans' = IF job'[r].pol.valid THEN ans
                 ELSE [ans EXCEPT ![r] = Register!Failure("invalid")]
      BY <2>5, <2>6, SameData
    <3> QED
      BY <2>3, <2>4, <3>1, <3>2 DEF Register!Call, Seen, Bound
  <2> QED
    BY <2>7 DEF Register!Next
<1>5. ASSUME NEW r \in Requests, Get(r) PROVE Goal
  <2>1. UNCHANGED <<clock, job, items, Seen, ans>>
    BY <1>5, <1>t DEF Get, Goto, Seen, TypeOK, EngineTypeOK
  <2> QED
    BY <1>s, <1>u, <2>1 DEF Stutter
<1>6. ASSUME NEW r \in Requests, GetEvict(r) PROVE Goal
  <2>1. UNCHANGED <<clock, job, Seen, ans>>
    BY <1>6, <1>t DEF GetEvict, Goto, Seen, TypeOK, EngineTypeOK
  <2>2. ~InForce(rec[r], clock)
    BY <1>6, <1>t DEF GetEvict, HandsInv, InForce
  <2>3. Bound' = Bound
    <3>1. ~InForce(NoRecord, clock)
      BY DEF InForce
    <3>2. \A k \in Keys : Undisturbed(k)
      BY <1>6, <1>t, <2>2, <3>1 DEF GetEvict, TypeOK, Undisturbed
    <3> QED
      BY <2>1, <3>2, LiveBindings
  <2> QED
    BY <1>s, <2>1, <2>3 DEF Stutter
<1>7. ASSUME NEW r \in Requests, CreateIfAbsent(r) PROVE Goal
  <2>1. UNCHANGED <<clock, job, Seen, ans>>
    BY <1>7, <1>t DEF CreateIfAbsent, Goto, Seen, TypeOK, EngineTypeOK
  <2>2. Key(r) \in Keys /\ pc[r] = "save" /\ Drafted(r) /\ draft[r] # NoRecord
    BY <1>7, <1>t, <1>k DEF CreateIfAbsent, HandsInv, Drafted
  <2>3. CASE InForce(items[Key(r)], clock) \/ ~InForce(draft[r], clock)
    <3>1. \A k \in Keys : Undisturbed(k)
      <4>1. \/ items' = items
            \/ /\ ~InForce(items[Key(r)], clock)
               /\ items' = [items EXCEPT ![Key(r)] = draft[r]]
        BY <1>7 DEF CreateIfAbsent
      <4> QED
        BY <4>1, <1>t, <2>3, <2>2 DEF TypeOK, Undisturbed
    <3>2. Bound' = Bound
      BY <3>1, <2>1, LiveBindings
    <3> QED
      BY <1>s, <2>1, <3>2 DEF Stutter
  <2>4. CASE ~InForce(items[Key(r)], clock) /\ InForce(draft[r], clock)
    <3>1. items' = [items EXCEPT ![Key(r)] = draft[r]]
      BY <1>7, <2>4 DEF CreateIfAbsent
    <3>2. Bound' = [Bound EXCEPT ![Key(r)] = draft[r]]
      <4>1. \A k \in Keys : LiveBinding(k)' = IF k = Key(r) THEN draft[r] ELSE LiveBinding(k)
        BY <1>t, <2>1, <2>2, <2>4, <3>1 DEF LiveBinding, TypeOK
      <4> QED
        BY <4>1, <2>2 DEF Bound
    <3>3. Bound[Key(r)] = NoRecord
      BY <2>2, <2>4 DEF Bound, LiveBinding
    <3>4. PICK t \in 0..clock :
             draft[r] = NewRecord(r, job[r].text, job[r].pol, job[r].op = "mask", t)
      BY <2>2 DEF Drafted
    <3>5. /\ Verified(job[r].text, draft[r].masked, job[r].pol)
          /\ ~Expired(draft[r], clock)
          /\ job[r].op # "demask" /\ job[r] # NoRecord /\ ans[r].kind = "none"
      BY <1>t, <2>2, <2>4 DEF Drafted, InForce, HandsInv, NoJob, Failure
    <3>s. Seen[r] = NoRecord
      BY <1>7 DEF CreateIfAbsent, Seen
    <3>6. Register!Bind(r)
      BY <2>1, <3>2, <3>3, <3>4, <3>5, <3>s, SameData DEF Register!Bind, Bound, Seen, Key
    <3> QED
      BY <3>6 DEF Register!Next
  <2> QED
    BY <2>3, <2>4
\* A step that only ends the call with a failure.
<1>f. ASSUME NEW r \in Requests, NEW kind \in {"ctx", "store", "detection", "gone"},
             pc[r] \notin {"idle", "done"},
             kind = "gone" => job[r].op = "demask" /\ Seen[r] = NoRecord,
             ans' = [ans EXCEPT ![r] = Failure(kind)],
             UNCHANGED <<clock, job, items, Seen>>
      PROVE  Goal
  <2>1. Register!Fail(r)
    BY <1>f, <1>p, <1>u, SameData DEF Register!Fail, Bound, Seen
  <2> QED
    BY <2>1 DEF Register!Next
\* A step that accepts the record the request holds.
<1>o. ASSUME NEW r \in Requests, pc[r] \in {"got", "saved"},
             InForce(rec[r], clock),
             pc' = [pc EXCEPT ![r] = "respond"],
             UNCHANGED <<clock, job, items, rec, ans>>
      PROVE  Goal
  <2>1. items[Key(r)] = rec[r] /\ Key(r) \in Keys
    BY <1>o, <1>t, <1>k DEF HeldInForce
  <2>2. Bound[job[r].key] = rec[r] /\ rec[r] # NoRecord
    BY <1>o, <2>1 DEF Bound, LiveBinding, Key, InForce
  <2>3. Seen[r] = NoRecord
    BY <1>o DEF Seen
  <2>4. Seen' = [Seen EXCEPT ![r] = rec[r]]
    BY <1>o, <1>t DEF Seen, TypeOK, EngineTypeOK
  <2>5. Register!Observe(r)
    BY <1>o, <1>p, <1>u, <2>2, <2>3, <2>4 DEF Register!Observe, Bound, Seen
  <2> QED
    BY <2>5 DEF Register!Next
<1>8. ASSUME NEW r \in Requests, CtxFail(r), UNCHANGED items PROVE Goal
  <2>1. Seen' = Seen
    BY <1>8, <1>t DEF CtxFail, Finish, Goto, Seen, TypeOK, EngineTypeOK
  <2> QED
    BY <1>8, <1>f, <2>1 DEF CtxFail, Finish
<1>9. ASSUME NEW r \in Requests, ReadLive(r), UNCHANGED items PROVE Goal
  BY <1>9, <1>o DEF ReadLive, Goto
<1>10. ASSUME NEW r \in Requests, ReadAbsent(r), UNCHANGED items PROVE Goal
  <2>1. Seen' = Seen /\ Seen[r] = NoRecord
    BY <1>10, <1>t DEF ReadAbsent, Finish, Goto, Seen, TypeOK, EngineTypeOK
  <2>2. CASE job[r].op = "demask"
    BY <1>10, <1>f, <2>1, <2>2 DEF ReadAbsent, Finish
  <2>3. CASE job[r].op # "demask"
    <3>1. UNCHANGED <<clock, job, ans, Bound>>
      BY <1>10, <1>u, <2>3 DEF ReadAbsent
    <3> QED
      BY <1>s, <2>1, <3>1 DEF Stutter
  <2> QED
    BY <2>2, <2>3
<1>11. ASSUME NEW r \in Requests, MaskStep(r), UNCHANGED items PROVE Goal
  <2>1. Seen' = Seen
    BY <1>11, <1>t DEF MaskStep, Finish, Goto, Seen, HandsInv, TypeOK, EngineTypeOK
  <2>2. CASE ans' = [ans EXCEPT ![r] = Failure("detection")]
    BY <1>11, <1>f, <2>1, <2>2 DEF MaskStep
  <2>3. CASE UNCHANGED ans
    <3>1. UNCHANGED <<clock, job, ans, Bound>>
      BY <1>11, <1>u, <2>3 DEF MaskStep
    <3> QED
      BY <1>s, <2>1, <3>1 DEF Stutter
  <2> QED
    BY <1>11, <2>2, <2>3 DEF MaskStep, Finish
<1>12. ASSUME NEW r \in Requests, DetectFail(r), UNCHANGED items PROVE Goal
  <2>1. Seen' = Seen
    BY <1>12, <1>t DEF DetectFail, Finish, Goto, Seen, HandsInv, TypeOK, EngineTypeOK
  <2> QED
    BY <1>12, <1>f, <2>1 DEF DetectFail, Finish
<1>13. ASSUME NEW r \in Requests, SaveLive(r), UNCHANGED items PROVE Goal
  <2>1. InForce(rec[r], clock)
    BY <1>13, <1>t DEF SaveLive, HandsInv, InForce
  <2> QED
    BY <1>13, <1>o, <2>1 DEF SaveLive, Goto
<1>14. ASSUME NEW r \in Requests, SaveExpired(r), UNCHANGED items PROVE Goal
  <2>1. Seen' = Seen
    BY <1>14, <1>t DEF SaveExpired, Finish, Goto, Seen, TypeOK, EngineTypeOK
  <2> QED
    BY <1>14, <1>f, <2>1 DEF SaveExpired, Finish
<1>15. ASSUME NEW r \in Requests, Respond(r), UNCHANGED items PROVE Goal
  <2>1. Seen' = Seen
    BY <1>15, <1>t DEF Respond, Finish, Goto, Seen, TypeOK, EngineTypeOK
  <2>2. CASE ans' = [ans EXCEPT ![r] = Failure("ctx")]
    BY <1>15, <1>f, <2>1, <2>2 DEF Respond
  <2>3. CASE ans' = [ans EXCEPT ![r] = AnswerFrom(rec[r], job[r])]
    <3>1. Seen[r] = rec[r] /\ rec[r] # NoRecord
      BY <1>15, <1>t DEF Respond, Seen, HandsInv
    <3>2. Register!Answer(r)
      BY <1>15, <1>p, <1>u, <2>1, <2>3, <3>1, SameData DEF Register!Answer, Respond, Bound, Seen
    <3> QED
      BY <3>2 DEF Register!Next
  <2> QED
    BY <1>15, <2>2, <2>3 DEF Respond, Finish
<1>16. CASE UNCHANGED vars
  <2>1. UNCHANGED <<clock, job, Seen, ans, Bound>>
    BY <1>16, <1>u DEF vars, engineVars, Seen
  <2> QED
    BY <1>s, <2>1 DEF Stutter
<1> QED
  BY <1>1, <1>2, <1>3, <1>4, <1>5, <1>6, <1>7, <1>8, <1>9, <1>10, <1>11,
     <1>12, <1>13, <1>14, <1>15, <1>16
     DEF Next, Environment, RequestStep, StoreStep, EngineStep

\* The engine over the memory store implements the write-once register with
\* expiry: for any number of requests, tenants, texts and policies, every
\* step of the goroutines is one step of the register or none.
THEOREM Refinement == Spec => ImplementsRegister
<1>1. Init => Register!Init
  BY RefInit
<1>2. IInv /\ [Next]_vars => [Register!Next]_(Register!registerVars)
  BY RefStep
<1> QED
  BY <1>1, <1>2, Invariance, PTL DEF Spec, ImplementsRegister, Register!Spec

-----------------------------------------------------------------------------
(***************************************************************************)
(* The handlers.  The three calls of handleGenerate share a key, a policy  *)
(* snapshot and the caller's text, but not the store between them.  What   *)
(* the caller gets back is bounded by two facts: Demask restores a value   *)
(* only for a marker of the record it reads, and while the context of Mask *)
(* is in force that is the record it reads.  Nothing is asked of the reply.*)
(***************************************************************************)

\* Demask restores a value only by permission and for a marker in the text;
\* the exact echo of a record made with tokens is no exception.
LEMMA DemaskRestores ==
    ASSUME NEW x \in Records, NEW q \in Requests, NEW text, NEW pol \in Policies, NEW now,
           MadeAs(x, q, text, pol, TRUE, now),
           NEW j \in Jobs, j.op = "demask",
           NEW v \in (AnswerFrom(x, j).text \cap Values) \ j.text
    PROVE  j.pol.allow /\ <<v, q>> \in j.text /\ v \in text
<1>1. AnswerFrom(x, j) = DemaskExisting(x, j.text, j.pol)
  BY DEF AnswerFrom
<1>2. CASE ExactEcho(x, j.text, j.pol)
  <2>0. x.original = text /\ x.masked = MaskedText(text, pol, TRUE, q)
    BY DEF MadeAs, NewRecord
  <2>a. j.pol.allow /\ j.text = x.masked
    BY <1>2 DEF ExactEcho
  <2>b. AnswerFrom(x, j).text = x.original
    BY <1>1, <1>2 DEF DemaskExisting, Success
  <2>1. /\ v \in text /\ v \notin j.text
        /\ j.text = MaskedText(text, pol, TRUE, q) /\ j.pol.allow
    BY <2>0, <2>a, <2>b
  <2>2. v \in Detect(text, pol)
    BY <2>1 DEF MaskedText
  <2>3. <<v, q>> \in MaskedText(text, pol, TRUE, q)
    BY <2>2 DEF MaskedText, Replacement, UseTokens
  <2> QED
    BY <2>1, <2>3
<1>3. Redacted \notin Values
  BY ConstantsAssumption
<1>4. Sanitize(j.text, j.pol) \subseteq j.text \cup {Redacted}
  BY DEF Sanitize
<1>5. CASE ~ExactEcho(x, j.text, j.pol) /\ j.pol.allow
  <2>1. v \in restoreTokens(Sanitize(j.text, j.pol), x.map)
    BY <1>1, <1>5 DEF DemaskExisting, Success
  <2>2. v \notin Sanitize(j.text, j.pol)
    BY <1>3, <1>4
  <2>3. PICK m \in Sanitize(j.text, j.pol) \cap x.map : m[1] = v
    BY <2>1, <2>2 DEF restoreTokens
  <2>4. m \in Markers /\ m # Redacted
    BY ConstantsAssumption DEF Records
  <2>5. x.map = Detect(text, pol) \X {q}
    BY DEF MadeAs, NewRecord, TransformMap, UseTokens
  <2>6. m = <<v, q>> /\ v \in text
    BY <2>3, <2>5 DEF Detect
  <2> QED
    BY <1>4, <1>5, <2>3, <2>4, <2>6
<1>6. CASE ~ExactEcho(x, j.text, j.pol) /\ ~j.pol.allow
  BY <1>1, <1>3, <1>4, <1>6 DEF DemaskExisting, Success
<1> QED
  BY <1>2, <1>5, <1>6

\* An answer "masked" is the mask of the text that was asked; no record is
\* answered with "gone".
LEMMA MaskedAnswer ==
    ASSUME NEW x, NEW j \in Jobs
    PROVE  /\ AnswerFrom(x, j).kind = "masked" =>
                AnswerFrom(x, j).text = x.masked /\ x.original = j.text
           /\ AnswerFrom(x, j).kind # "gone"
BY DEF AnswerFrom, processExisting, MaskExisting, DemaskExisting, Success, Failure

\* Made once is made for good.
LEMMA MadeAsLater ==
    ASSUME NEW x, NEW q, NEW text, NEW pol, NEW force, NEW now \in Nat,
           MadeAs(x, q, text, pol, force, now)
    PROVE  MadeAs(x, q, text, pol, force, now + 1)
<1>1. 0..now \subseteq 0..(now + 1)
  OBVIOUS
<1> QED
  BY <1>1 DEF MadeAs

-----------------------------------------------------------------------------
(* How the handlers move the engine *)

\* What a caller of a handler sends is an operation.
LEMMA CallerJobType ==
    ASSUME TypeOK, NEW op \in {"process", "mask"}, NEW j \in CallerJobs(op)
    PROVE  j \in Jobs /\ j.op = op /\ j.key.ns = NamespaceOf(op)
<1>1. CallerTexts \subseteq Texts
  <2>1. InputTexts \subseteq Texts
    BY InputsAssumption DEF Texts, Fragments
  <2>2. \A q \in Requests : ans[q].text \in Texts
    BY DEF TypeOK, EngineTypeOK, Answers
  <2> QED
    BY <2>1, <2>2 DEF CallerTexts
<1>2. /\ j \in [op: {op}, key: Keys, text: CallerTexts, pol: OfferedPolicies]
      /\ j.key.ns = NamespaceOf(j.op)
  BY DEF CallerJobs
<1>3. j.op = op
  BY <1>2
<1>4. j \in Jobs
  BY <1>1, <1>2, InputsAssumption DEF Jobs, Operations
<1> QED
  BY <1>2, <1>3, <1>4

\* A call of a handler is a call of the engine.
LEMMA HandlerCalls ==
    ASSUME TypeOK, NEW r \in Requests, CallProcess(r) \/ CallMask(r)
    PROVE  \E j \in Jobs :
              /\ Begin(r, j)
              /\ j.key.ns = NamespaceOf(j.op)
              /\ asked' = [asked EXCEPT ![r] = j.text]
              /\ \/ j.op = "process" /\ phase' = [phase EXCEPT ![r] = "processing"]
                 \/ j.op = "mask" /\ phase' = [phase EXCEPT ![r] = "masking"]
<1>1. CASE CallProcess(r)
  <2>1. PICK j \in CallerJobs("process") : Begin(r, j) /\ asked' = [asked EXCEPT ![r] = j.text]
    BY <1>1 DEF CallProcess
  <2>2. j \in Jobs /\ j.op = "process" /\ j.key.ns = NamespaceOf(j.op)
    BY <2>1, CallerJobType
  <2> QED
    BY <1>1, <2>1, <2>2 DEF CallProcess
<1>2. CASE CallMask(r)
  <2>1. PICK j \in CallerJobs("mask") : Begin(r, j) /\ asked' = [asked EXCEPT ![r] = j.text]
    BY <1>2 DEF CallMask
  <2>2. j \in Jobs /\ j.op = "mask" /\ j.key.ns = NamespaceOf(j.op)
    BY <2>1, CallerJobType
  <2> QED
    BY <1>2, <2>1, <2>2 DEF CallMask
<1> QED
  BY <1>1, <1>2

\* A step of the handlers is a step of the engine and its store, or a call, or
\* the end of a context, or the provider's reply, which starts the second call.
LEMMA EngineMoves ==
    ASSUME [GenNext]_genVars
    PROVE  \/ [Next]_vars
           \/ \E r \in Requests : CallProcess(r) \/ CallMask(r)
           \/ \E r \in Requests : GenCancel(r)
           \/ \E r \in Requests : ProviderReplies(r)
<1>1. ASSUME NEW r \in Requests, HandlerStep(r) PROVE [Next]_vars
  BY <1>1 DEF HandlerStep, EngineFailed, CallProvider, Reply, Next
<1> QED
  BY <1>1 DEF GenNext, Next, Environment, ProviderFails, genVars

\* The provider's reply becomes the text of the second call.
LEMMA ReplyFrame ==
    ASSUME GenTypeOK, HandsInv, NEW r \in Requests, Handler(r), ProviderReplies(r)
    PROVE  /\ UNCHANGED <<clock, cancelled, draft, obs, items, asked, sent, masking>>
           /\ phase[r] = "provider" /\ phase'[r] = "demasking" /\ pc'[r] = "read"
           /\ rec'[r] = NoRecord /\ ans'[r] = Failure("none")
           /\ job[r] \in Jobs /\ job[r].op = "mask" /\ job'[r] \in Jobs
           /\ job'[r].key = job[r].key /\ job'[r].pol = job[r].pol
           /\ job'[r].op = "demask" /\ job'[r].text = reply'[r]
           /\ reply'[r] \in Texts
           /\ \A q \in Requests \ {r} :
                 SameFor(q) /\ phase'[q] = phase[q] /\ reply'[q] = reply[q]
           /\ job' \in [Requests -> Jobs \cup {NoJob}]
           /\ reply' \in [Requests -> Texts]
<1> USE DEF GenTypeOK, TypeOK, EngineTypeOK
<1>1. PICK kept \in SUBSET Received, added \in Additions :
         /\ reply' = [reply EXCEPT ![r] = kept \cup added]
         /\ job' = [job EXCEPT ![r].op = "demask", ![r].text = kept \cup added]
  BY DEF ProviderReplies
<1>2. phase[r] = "provider" /\ job[r].op = "mask" /\ job[r] # NoJob
  BY DEF ProviderReplies, Handler
<1>3. job[r] \in Jobs
  BY <1>2 DEF NoJob
<1>4. kept \cup added \in Texts
  <2>1. kept \subseteq Fragments
    BY DEF Received, Texts
  <2>2. added \subseteq Fragments
    BY AdditionsAssumption DEF Texts
  <2> QED
    BY <2>1, <2>2 DEF Texts
<1>6. /\ job'[r] \in Jobs
      /\ job'[r].key = job[r].key /\ job'[r].pol = job[r].pol
      /\ job'[r].op = "demask" /\ job'[r].text = kept \cup added
  BY <1>1, <1>3, <1>4 DEF Jobs, Operations
<1>7. job' \in [Requests -> Jobs \cup {NoJob}] /\ reply' \in [Requests -> Texts]
  BY <1>1, <1>4, <1>6
<1> QED
  BY <1>1, <1>2, <1>3, <1>4, <1>6, <1>7 DEF ProviderReplies, Goto, SameFor

\* Nothing that belongs to q changes, in the engine or in its handler.
AllSameFor(q) ==
    /\ SameFor(q)
    /\ phase'[q] = phase[q] /\ asked'[q] = asked[q] /\ sent'[q] = sent[q]
    /\ masking'[q] = masking[q] /\ reply'[q] = reply[q]

\* The steps of one request.
Moves(r) ==
    \/ CallProcess(r)
    \/ CallMask(r)
    \/ ProviderReplies(r)
    \/ ProviderFails(r)
    \/ HandlerStep(r)

\* A step moves one request, or only time, the map or the end of a context.
LEMMA OneMoves ==
    ASSUME GenTypeOK, HandsInv, \A r \in Requests : Handler(r), [GenNext]_genVars
    PROVE  \/ \A q \in Requests : AllSameFor(q)
           \/ \E r \in Requests : Moves(r) /\ \A q \in Requests \ {r} : AllSameFor(q)
<1> USE DEF AllSameFor, handlerVars
<1>t. TypeOK
  BY DEF GenTypeOK
<1>1. CASE Tick /\ UNCHANGED <<items, handlerVars>>
  BY <1>1 DEF Tick, SameFor
<1>2. CASE Cleanup /\ UNCHANGED handlerVars
  BY <1>2 DEF Cleanup, engineVars, SameFor
<1>3. ASSUME NEW r \in Requests, GenCancel(r) PROVE \A q \in Requests : AllSameFor(q)
  BY <1>3 DEF GenCancel, SameFor
<1>4. ASSUME NEW r \in Requests, CallProcess(r) \/ CallMask(r)
      PROVE  \A q \in Requests \ {r} : AllSameFor(q)
  <2>1. \A q \in Requests \ {r} : SameFor(q)
    BY <1>4, <1>t, HandlerCalls, BeginFrame
  <2> QED
    BY <1>4, <2>1 DEF CallProcess, CallMask, GenTypeOK
<1>6. ASSUME NEW r \in Requests, ProviderReplies(r)
      PROVE  \A q \in Requests \ {r} : AllSameFor(q)
  BY <1>6, ReplyFrame
<1>7. ASSUME NEW r \in Requests, RequestStep(r), UNCHANGED handlerVars
      PROVE  \A q \in Requests \ {r} : AllSameFor(q)
  BY <1>7, <1>t, RequestFrame
<1>8. ASSUME NEW r \in Requests,
             EngineFailed(r) \/ CallProvider(r) \/ Reply(r) \/ ProviderFails(r)
      PROVE  \A q \in Requests \ {r} : AllSameFor(q)
  BY <1>8 DEF EngineFailed, CallProvider, Reply, ProviderFails, vars, engineVars,
     SameFor, GenTypeOK
<1>9. CASE UNCHANGED genVars
  BY <1>9 DEF genVars, vars, engineVars, SameFor
<1> QED
  BY <1>1, <1>2, <1>3, <1>4, <1>6, <1>7, <1>8, <1>9
  DEF GenNext, Moves, HandlerStep

\* The engine's invariants survive its use by the handlers: a call after a
\* call starts with empty hands.
LEMMA GenEngine ==
    ASSUME GenTypeOK, HandsInv, HeldInForce, \A r \in Requests : Handler(r),
           [GenNext]_genVars
    PROVE  /\ TypeOK' /\ HandsInv' /\ HeldInForce'
           /\ clock' = clock \/ clock' = clock + 1
           /\ \A k \in Keys : InForce(items[k], clock) => items'[k] = items[k]
<1>t. TypeOK
  BY DEF GenTypeOK
<1>1. CASE [Next]_vars
  BY <1>1, <1>t, StepType, StepHands, StepHeld, ClockUp, NotLost
<1>2. ASSUME NEW r \in Requests, GenCancel(r)
      PROVE  /\ TypeOK' /\ HandsInv' /\ HeldInForce' /\ clock' = clock /\ items' = items
  BY <1>2, <1>t DEF GenCancel, TypeOK, EngineTypeOK, HandsInv, Drafted, HeldInForce,
     Key, InForce, Expired
<1>3. ASSUME NEW r \in Requests, ProviderReplies(r)
      PROVE  /\ TypeOK' /\ HandsInv' /\ HeldInForce' /\ clock' = clock /\ items' = items
  <2>1. Failure("none") \in Answers
    BY FailureType DEF AnswerKinds
  <2>2. UNCHANGED <<clock, cancelled, draft, obs, items>>
    BY <1>3 DEF ProviderReplies
  <2>3. TypeOK'
    <3>1. job' \in [Requests -> Jobs \cup {NoJob}]
      BY <1>3, ReplyFrame
    <3> QED
      BY <1>3, <1>t, <2>1, <2>2, <3>1 DEF ProviderReplies, Goto, TypeOK, EngineTypeOK, PCs
  <2>4. HandsInv'
    <3>1. /\ pc'[r] = "read" /\ rec'[r] = NoRecord /\ ans'[r] = Failure("none")
          /\ job'[r] # NoJob
      BY <1>3, ReplyFrame, NoRecordAssumption DEF NoJob
    <3>2. \A q \in Requests \ {r} : SameFor(q)
      BY <1>3, ReplyFrame
    <3> QED
      BY <2>2, <3>1, <3>2 DEF HandsInv, Drafted, Expired, SameFor
  <2>5. HeldInForce'
    <3>1. rec'[r] = NoRecord /\ \A q \in Requests \ {r} : SameFor(q)
      BY <1>3, ReplyFrame
    <3> QED
      BY <2>2, <3>1 DEF HeldInForce, Key, InForce, Expired, SameFor
  <2> QED
    BY <2>2, <2>3, <2>4, <2>5
<1>4. ASSUME NEW r \in Requests, CallProcess(r) \/ CallMask(r)
      PROVE  /\ TypeOK' /\ HandsInv' /\ HeldInForce' /\ clock' = clock /\ items' = items
  <2>1. UNCHANGED items
    BY <1>4 DEF CallProcess, CallMask
  <2>2. PICK j \in Jobs : Begin(r, j)
    BY <1>4, <1>t, HandlerCalls
  <2> QED
    BY <1>t, <2>1, <2>2, BeginFrame, BeginInv
<1> QED
  BY <1>1, <1>2, <1>3, <1>4, EngineMoves

\* The handlers keep their types.
LEMMA GenStepType ==
    ASSUME GenTypeOK, HandsInv, HeldInForce, \A r \in Requests : Handler(r),
           [GenNext]_genVars
    PROVE  GenTypeOK'
<1> USE DEF GenTypeOK
<1>t. TypeOK /\ TypeOK'
  BY GenEngine
<1>1. ASSUME NEW r \in Requests, CallProcess(r) \/ CallMask(r) PROVE GenTypeOK'
  <2>1. PICK j \in Jobs : asked' = [asked EXCEPT ![r] = j.text]
    BY <1>1, <1>t, HandlerCalls
  <2>2. j.text \in Texts
    BY DEF Jobs
  <2> QED
    BY <1>1, <1>t, <2>1, <2>2 DEF CallProcess, CallMask, Phases
<1>3. ASSUME NEW r \in Requests, ProviderReplies(r) PROVE GenTypeOK'
  <2>1. reply' \in [Requests -> Texts]
    BY <1>3, ReplyFrame
  <2> QED
    BY <1>3, <1>t, <2>1 DEF ProviderReplies, Phases
<1>4. ASSUME NEW r \in Requests, CallProvider(r) PROVE GenTypeOK'
  <2>1. ans[r].text \in Texts /\ rec[r] \in Records \cup {NoRecord}
    BY <1>t DEF TypeOK, EngineTypeOK, Answers
  <2> QED
    BY <1>4, <1>t, <2>1 DEF CallProvider, Phases
<1>5. ASSUME NEW r \in Requests, EngineFailed(r) \/ Reply(r) \/ ProviderFails(r)
      PROVE  GenTypeOK'
  BY <1>5, <1>t DEF EngineFailed, Reply, ProviderFails, Phases
<1>6. CASE UNCHANGED handlerVars
  BY <1>6, <1>t DEF handlerVars
<1> QED
  BY <1>1, <1>3, <1>4, <1>5, <1>6 DEF GenNext, HandlerStep, GenCancel, genVars

\* What a handler was asked, and under which key and policy, is fixed.
LEMMA CallsStay ==
    ASSUME GenTypeOK, HandsInv, \A r \in Requests : Handler(r), [GenNext]_genVars,
           NEW q \in Requests, job[q] # NoJob
    PROVE  /\ job'[q] # NoJob /\ job'[q].key = job[q].key /\ job'[q].pol = job[q].pol
           /\ asked'[q] = asked[q]
<1> DEFINE Goal == /\ job'[q] # NoJob /\ job'[q].key = job[q].key
                   /\ job'[q].pol = job[q].pol /\ asked'[q] = asked[q]
<1>1. AllSameFor(q) => Goal
  BY DEF AllSameFor, SameFor
<1>2. ASSUME Moves(q) PROVE Goal
  <2>1. ~CallProcess(q) /\ ~CallMask(q)
    BY DEF CallProcess, CallMask, Handler
  <2>2. CASE ProviderReplies(q)
    BY <2>2, ReplyFrame, NoRecordAssumption DEF NoJob
  <2>3. CASE RequestStep(q) /\ UNCHANGED handlerVars
    BY <2>3, RequestFrame DEF handlerVars, GenTypeOK
  <2>4. CASE EngineFailed(q) \/ CallProvider(q) \/ Reply(q) \/ ProviderFails(q)
    BY <2>4 DEF EngineFailed, CallProvider, Reply, ProviderFails, vars, engineVars
  <2> QED
    BY <1>2, <2>1, <2>2, <2>3, <2>4 DEF Moves, HandlerStep
<1> QED
  BY <1>1, <1>2, OneMoves

-----------------------------------------------------------------------------
(* Where a record comes from *)

\* MadeFor(x, k) of the next state, for a record x of this one.
MadeForNext(x, k) ==
    /\ job'[x.id] # NoJob
    /\ job'[x.id].key = k
    /\ MadeAs(x, x.id, asked'[x.id], job'[x.id].pol, k.ns = "generate", clock')

\* Whoever made a record, it stays made.
LEMMA MadeForStays ==
    ASSUME GenIInv, [GenNext]_genVars, NEW x \in Records, NEW k, MadeFor(x, k)
    PROVE  MadeForNext(x, k)
<1>1. x.id \in Requests /\ job[x.id] # NoJob
  BY DEF Records, MadeFor
<1>2. /\ job'[x.id] # NoJob /\ job'[x.id].key = k
      /\ asked'[x.id] = asked[x.id] /\ job'[x.id].pol = job[x.id].pol
  BY <1>1, CallsStay DEF GenIInv, MadeFor
<1>3. clock' = clock \/ clock' = clock + 1
  BY GenEngine DEF GenIInv
<1>4. clock \in Nat
  BY DEF GenIInv, GenTypeOK, TypeOK, EngineTypeOK
<1>5. MadeAs(x, x.id, asked[x.id], job[x.id].pol, k.ns = "generate", clock')
  BY <1>3, <1>4, MadeAsLater DEF MadeFor
<1> QED
  BY <1>2, <1>5 DEF MadeForNext

\* A record expires a lifetime of its policy after it was made, which is over.
LEMMA MadeWithin ==
    ASSUME TypeOK, NEW x \in Records, NEW k, MadeFor(x, k)
    PROVE  x.expires <= clock + job[x.id].pol.ttl
<1>1. PICK t \in 0..clock :
         x = NewRecord(x.id, asked[x.id], job[x.id].pol, k.ns = "generate", t)
  BY DEF MadeFor, MadeAs
<1>2. x.expires = t + job[x.id].pol.ttl
  BY <1>1 DEF NewRecord
<1>3. job[x.id].pol.ttl \in Nat
  <2>1. x.id \in Requests /\ job[x.id] \in Jobs
    BY DEF MadeFor, Records, NoJob, TypeOK, EngineTypeOK
  <2>2. job[x.id].pol \in Policies
    BY <2>1 DEF Jobs
  <2> QED
    BY <2>2, ConstantsAssumption DEF Policies
<1>4. clock \in Nat
  BY DEF TypeOK, EngineTypeOK
<1> QED
  BY <1>2, <1>3, <1>4

\* A draft is the record of its own request.
LEMMA DraftMade ==
    ASSUME GenIInv, NEW r \in Requests, pc[r] = "save"
    PROVE  draft[r] \in Records /\ MadeFor(draft[r], Key(r))
<1>1. /\ job[r] \in Jobs /\ job[r] # NoJob /\ job[r].op # "demask"
      /\ Drafted(r) /\ Handler(r)
  BY DEF GenIInv, GenTypeOK, TypeOK, EngineTypeOK, HandsInv, NoJob
<1>2. draft[r] \in Records
  BY <1>1 DEF Drafted, GenIInv, GenTypeOK, TypeOK, EngineTypeOK
<1>3. job[r].text = asked[r] /\ job[r].key.ns = NamespaceOf(job[r].op)
  BY <1>1 DEF Handler
<1>4. (job[r].op = "mask") = (Key(r).ns = "generate")
  BY <1>1, <1>3 DEF NamespaceOf, Jobs, Operations, Key
<1>5. draft[r].id = r
  BY <1>1 DEF Drafted, NewRecord
<1>6. MadeAs(draft[r], r, asked[r], job[r].pol, Key(r).ns = "generate", clock)
  BY <1>1, <1>3, <1>4 DEF Drafted, MadeAs
<1> QED
  BY <1>1, <1>2, <1>5, <1>6 DEF MadeFor, Key

\* What the map and the hands hold next, they held before, or a request read it
\* under its key, or it was drafted.
LEMMA Sources ==
    ASSUME GenIInv, [GenNext]_genVars
    PROVE  /\ \A k \in Keys :
                 \/ items'[k] \in {items[k], NoRecord}
                 \/ \E r \in Requests : /\ pc[r] = "save" /\ Key(r) = k
                                        /\ items'[k] = draft[r]
           /\ \A q \in Requests :
                 \/ rec'[q] \in {rec[q], NoRecord}
                 \/ pc[q] # "idle" /\ rec'[q] = items[Key(q)]
                 \/ pc[q] = "save" /\ rec'[q] = draft[q]
<1> DEFINE Map == \A k \in Keys :
                    \/ items'[k] \in {items[k], NoRecord}
                    \/ \E r \in Requests : /\ pc[r] = "save" /\ Key(r) = k
                                           /\ items'[k] = draft[r]
           Hand(q) == \/ rec'[q] \in {rec[q], NoRecord}
                      \/ pc[q] # "idle" /\ rec'[q] = items[Key(q)]
                      \/ pc[q] = "save" /\ rec'[q] = draft[q]
<1>t. TypeOK /\ HandsInv /\ GenTypeOK
  BY DEF GenIInv, GenTypeOK
<1>0. ASSUME items' = items, rec' = rec PROVE Map /\ \A q \in Requests : Hand(q)
  BY <1>0
<1>1. CASE Cleanup
  BY <1>1 DEF Cleanup, engineVars
<1>2. ASSUME NEW r \in Requests, StoreStep(r) PROVE Map /\ \A q \in Requests : Hand(q)
  BY <1>2, <1>t DEF StoreStep, Get, GetEvict, CreateIfAbsent, TypeOK, EngineTypeOK
<1>3. ASSUME NEW r \in Requests, EngineStep(r), UNCHANGED items
      PROVE  Map /\ \A q \in Requests : Hand(q)
  <2>1. rec' = rec \/ rec' = [rec EXCEPT ![r] = NoRecord]
    BY <1>3 DEF EngineStep, CtxFail, ReadLive, ReadAbsent, MaskStep, DetectFail,
       SaveLive, SaveExpired, Respond
  <2> QED
    BY <1>3, <1>t, <2>1 DEF TypeOK, EngineTypeOK
<1>4. ASSUME NEW r \in Requests, ProviderReplies(r)
      PROVE  Map /\ \A q \in Requests : Hand(q)
  BY <1>4, <1>t DEF ProviderReplies, TypeOK, EngineTypeOK
<1>5. ASSUME NEW r \in Requests, ClientCall(r), UNCHANGED items
      PROVE  items' = items /\ rec' = rec
  BY <1>5, <1>t, CallFrame
<1>6. CASE [Next]_vars
  BY <1>0, <1>1, <1>2, <1>3, <1>5, <1>6
  DEF Next, Environment, RequestStep, Tick, Cancel, vars, engineVars
<1>7. ASSUME NEW r \in Requests, CallProcess(r) \/ CallMask(r)
      PROVE  items' = items /\ rec' = rec
  BY <1>7, <1>t, HandlerCalls, BeginFrame DEF CallProcess, CallMask
<1> QED
  BY <1>0, <1>4, <1>6, <1>7, EngineMoves DEF GenCancel

\* Every record in the map, in a hand or behind a mask was made by a handler of
\* its caller's text under the key it is found at.
LEMMA StepOrigin ==
    ASSUME GenIInv, [GenNext]_genVars
    PROVE  Origin'
<1>0. GenTypeOK /\ HandsInv /\ Origin /\ \A q \in Requests : Handler(q)
  BY DEF GenIInv
<1>1. ASSUME NEW k \in Keys, items'[k] # NoRecord PROVE MadeForNext(items'[k], k)
  <2>1. CASE items'[k] = items[k]
    <3>1. items[k] \in Records /\ MadeFor(items[k], k)
      BY <1>0, <1>1, <2>1 DEF Origin, GenTypeOK, TypeOK
    <3> QED
      BY <2>1, <3>1, MadeForStays
  <2>2. ASSUME NEW r \in Requests, pc[r] = "save", Key(r) = k, items'[k] = draft[r]
        PROVE  MadeForNext(items'[k], k)
    BY <2>2, DraftMade, MadeForStays
  <2> QED
    BY <1>1, <2>1, <2>2, Sources
<1>2. ASSUME NEW q \in Requests, job[q] # NoJob PROVE job'[q].key = Key(q)
  BY <1>0, <1>2, CallsStay DEF Key
<1>3. ASSUME NEW q \in Requests, rec[q] # NoRecord
      PROVE  MadeForNext(rec[q], job'[q].key)
  <2>1. job[q] # NoJob
    BY <1>0, <1>3 DEF HandsInv
  <2>2. rec[q] \in Records /\ MadeFor(rec[q], Key(q))
    BY <1>0, <1>3 DEF Origin, GenTypeOK, TypeOK, EngineTypeOK
  <2> QED
    BY <1>2, <2>1, <2>2, MadeForStays
<1>4. ASSUME NEW q \in Requests, rec'[q] # NoRecord
      PROVE  MadeForNext(rec'[q], job'[q].key)
  <2>1. CASE rec'[q] = rec[q]
    BY <1>3, <1>4, <2>1
  <2>2. CASE pc[q] # "idle" /\ rec'[q] = items[Key(q)]
    <3>1. job[q] # NoJob /\ Key(q) \in Keys
      BY <1>0, <2>2 DEF HandsInv, Key, Jobs, NoJob, GenTypeOK, TypeOK, EngineTypeOK
    <3>2. items[Key(q)] \in Records /\ MadeFor(items[Key(q)], Key(q))
      BY <1>0, <1>4, <2>2, <3>1 DEF Origin, GenTypeOK, TypeOK
    <3> QED
      BY <1>2, <2>2, <3>1, <3>2, MadeForStays
  <2>3. CASE pc[q] = "save" /\ rec'[q] = draft[q]
    <3>1. job[q] # NoJob
      BY <1>0, <2>3 DEF HandsInv
    <3> QED
      BY <1>2, <2>3, <3>1, DraftMade, MadeForStays
  <2> QED
    BY <1>4, <2>1, <2>2, <2>3, Sources
<1>5. ASSUME NEW q \in Requests PROVE masking'[q] \in {masking[q], rec[q]}
  <2>1. Moves(q) => masking'[q] \in {masking[q], rec[q]}
    BY <1>0 DEF Moves, CallProcess, CallMask, ProviderReplies, ProviderFails, HandlerStep,
       EngineFailed, CallProvider, Reply, handlerVars, GenTypeOK
  <2> QED
    BY <1>0, <2>1, OneMoves DEF AllSameFor
<1>6. ASSUME NEW q \in Requests, masking'[q] # NoRecord
      PROVE  MadeForNext(masking'[q], job'[q].key)
  <2>1. CASE masking'[q] = masking[q]
    <3>1. masking[q] \in Records /\ MadeFor(masking[q], Key(q)) /\ job[q] # NoJob
      BY <1>0, <1>6, <2>1 DEF Origin, GenTypeOK, Handler
    <3> QED
      BY <1>2, <2>1, <3>1, MadeForStays
  <2> QED
    BY <1>3, <1>5, <1>6, <2>1
<1> QED
  BY <1>1, <1>4, <1>6 DEF Origin, MadeFor, MadeForNext, Key

-----------------------------------------------------------------------------
(* What a handler knows *)

\* The handler's own state follows its three calls.
LEMMA StepHandler ==
    ASSUME GenIInv, [GenNext]_genVars, NEW q \in Requests
    PROVE  Handler(q)'
<1>0. GenTypeOK /\ HandsInv /\ Handler(q) /\ Told(q) /\ \A r \in Requests : Handler(r)
  BY DEF GenIInv
<1>t. TypeOK
  BY <1>0 DEF GenTypeOK
<1>1. CASE AllSameFor(q)
  BY <1>0, <1>1 DEF AllSameFor, SameFor, Handler
<1>2. CASE CallProcess(q) \/ CallMask(q)
  <2>1. PICK j \in Jobs :
           /\ Begin(q, j) /\ asked'[q] = j.text
           /\ j.key.ns = NamespaceOf(j.op)
           /\ \/ j.op = "process" /\ phase'[q] = "processing"
              \/ j.op = "mask" /\ phase'[q] = "masking"
    BY <1>0, <1>2, <1>t, HandlerCalls DEF GenTypeOK
  <2>2. UNCHANGED <<sent, masking, reply>> /\ phase[q] = "start"
    BY <1>2 DEF CallProcess, CallMask
  <2>3. masking[q] = NoRecord
    BY <1>0, <2>2 DEF Handler
  <2>4. job'[q] = j
    BY <1>t, <2>1 DEF Begin, TypeOK, EngineTypeOK
  <2>5. j # NoJob
    BY NoRecordAssumption DEF NoJob
  <2>6. CASE j.op = "process" /\ phase'[q] = "processing"
    BY <1>0, <2>1, <2>2, <2>3, <2>4, <2>5, <2>6 DEF Handler
  <2>7. CASE j.op = "mask" /\ phase'[q] = "masking"
    BY <1>0, <2>1, <2>2, <2>3, <2>4, <2>5, <2>7 DEF Handler
  <2> QED
    BY <2>1, <2>6, <2>7
<1>3. CASE ProviderReplies(q)
  <2>1. /\ UNCHANGED <<asked, sent, masking>>
        /\ phase[q] = "provider" /\ phase'[q] = "demasking"
        /\ job[q] \in Jobs /\ job[q].op = "mask" /\ job'[q] \in Jobs
        /\ job'[q].key = job[q].key
        /\ job'[q].op = "demask" /\ job'[q].text = reply'[q]
    BY <1>0, <1>3, ReplyFrame
  <2>2. job[q] # NoJob /\ job'[q] # NoJob
    BY <2>1, NoRecordAssumption DEF NoJob
  <2>3. masking[q] # NoRecord
    BY <1>0, <2>1 DEF Handler
  <2>4. NamespaceOf("mask") = NamespaceOf("demask")
    BY DEF NamespaceOf
  <2> QED
    BY <1>0, <2>1, <2>2, <2>3, <2>4 DEF Handler
<1>4. CASE RequestStep(q) /\ UNCHANGED handlerVars
  <2>1. pc[q] # "done"
    BY <1>4 DEF RequestStep, StoreStep, Get, GetEvict, CreateIfAbsent, EngineStep, CtxFail,
       ReadLive, ReadAbsent, MaskStep, DetectFail, SaveLive, SaveExpired, Respond
  <2>2. phase[q] \notin {"provider", "replied"}
    BY <1>0, <2>1 DEF Handler
  <2>3. job' = job
    BY <1>4, <1>t, RequestFrame
  <2> QED
    BY <1>0, <1>4, <2>2, <2>3 DEF Handler, handlerVars
<1>5. CASE EngineFailed(q) \/ Reply(q) \/ ProviderFails(q)
  <2>1. job' = job /\ pc' = pc /\ UNCHANGED <<asked, sent, masking, reply>>
    BY <1>5 DEF EngineFailed, Reply, ProviderFails, vars, engineVars
  <2>2. /\ phase[q] # "start"
        /\ \/ phase'[q] = "failed"
           \/ /\ phase'[q] = "replied" /\ phase[q] \in {"processing", "demasking"}
              /\ pc[q] = "done"
    BY <1>0, <1>5 DEF EngineFailed, Reply, ProviderFails, GenTypeOK
  <2> QED
    BY <1>0, <2>1, <2>2 DEF Handler
<1>6. CASE CallProvider(q)
  <2>1. UNCHANGED <<pc, job, rec, asked, reply>> /\ phase[q] = "masking" /\ pc[q] = "done"
    BY <1>6 DEF CallProvider, vars, engineVars
  <2>2. \/ phase'[q] = "failed" /\ UNCHANGED <<sent, masking>>
        \/ /\ phase'[q] = "provider" /\ sent'[q] = ans[q].text /\ masking'[q] = rec[q]
    BY <1>0, <1>6 DEF CallProvider, GenTypeOK
  <2>3. /\ rec[q] # NoRecord /\ job[q] # NoJob
        /\ ans[q].text = rec[q].masked /\ rec[q].original = job[q].text
    BY <1>0, <1>6 DEF CallProvider, Told
  <2>4. job[q].op = "mask" /\ job[q].text = asked[q]
    BY <1>0, <2>1, <2>3 DEF Handler
  <2> QED
    BY <1>0, <2>1, <2>2, <2>3, <2>4 DEF Handler
<1> QED
  BY <1>0, <1>1, <1>2, <1>3, <1>4, <1>5, <1>6, OneMoves DEF Moves, HandlerStep

\* The context behind a mask stays where Demask looks for it.
LEMMA StepMaskingHeld ==
    ASSUME GenIInv, [GenNext]_genVars, NEW q \in Requests
    PROVE  MaskingHeld(q)'
<1>0. /\ GenTypeOK /\ HandsInv /\ HeldInForce /\ Handler(q) /\ MaskingHeld(q)
      /\ \A r \in Requests : Handler(r)
  BY DEF GenIInv
<1>t. TypeOK /\ clock \in Nat
  BY <1>0 DEF GenTypeOK, TypeOK, EngineTypeOK
<1> SUFFICES ASSUME InForce(masking'[q], clock')
             PROVE  /\ items'[job'[q].key] = masking'[q]
                    /\ job'[q].op = "demask" =>
                          pc'[q] # "evict" /\ (pc'[q] = "got" => rec'[q] = masking'[q])
  BY DEF MaskingHeld, Key, InForce, Expired
<1>c. clock' = clock \/ clock' = clock + 1
  BY <1>0, GenEngine
<1>e. ASSUME NEW x \in Records \cup {NoRecord}, InForce(x, clock') PROVE InForce(x, clock)
  <2>1. x \in Records /\ x.expires \in Nat
    BY <1>e DEF InForce, Records
  <2> QED
    BY <1>e, <1>c, <1>t, <2>1 DEF InForce, Expired
<1>k. ASSUME NEW x, job[q] # NoJob, items[Key(q)] = x, InForce(x, clock)
      PROVE  items'[job'[q].key] = x
  <2>1. Key(q) \in Keys
    BY <1>k, <1>t DEF Key, Jobs, NoJob, TypeOK, EngineTypeOK
  <2>2. job'[q].key = Key(q)
    BY <1>0, <1>k, CallsStay DEF Key
  <2> QED
    BY <1>0, <1>k, <2>1, <2>2, GenEngine
<1>m. ASSUME masking'[q] = masking[q]
      PROVE  /\ InForce(masking[q], clock) /\ job[q] # NoJob
             /\ items[Key(q)] = masking[q] /\ items'[job'[q].key] = masking'[q]
             /\ job[q].op = "demask" =>
                   pc[q] # "evict" /\ (pc[q] = "got" => rec[q] = masking[q])
  <2>1. InForce(masking[q], clock)
    BY <1>0, <1>m, <1>e DEF GenTypeOK
  <2>2. job[q] # NoJob
    BY <1>0, <2>1 DEF Handler, InForce
  <2> QED
    BY <1>0, <1>m, <1>k, <2>1, <2>2 DEF MaskingHeld
<1>1. CASE AllSameFor(q)
  BY <1>1, <1>m DEF AllSameFor, SameFor
<1>2. CASE CallProcess(q) \/ CallMask(q)
  <2>1. masking' = masking /\ phase[q] = "start"
    BY <1>2 DEF CallProcess, CallMask
  <2> QED
    BY <1>0, <1>m, <2>1 DEF Handler
<1>3. CASE ProviderReplies(q)
  <2>1. masking' = masking /\ pc'[q] = "read"
    BY <1>0, <1>3, ReplyFrame
  <2> QED
    BY <1>m, <2>1
<1>4. CASE RequestStep(q) /\ UNCHANGED handlerVars
  <2>1. masking' = masking /\ job' = job /\ clock' = clock
    BY <1>4, <1>t, RequestFrame DEF handlerVars
  <2>2. CASE Get(q)
    BY <1>t, <1>m, <2>1, <2>2 DEF Get, Goto, InForce, TypeOK, EngineTypeOK
  <2>3. CASE GetEvict(q)
    BY <1>m, <2>1, <2>3 DEF GetEvict
  <2>4. CASE CreateIfAbsent(q) \/ EngineStep(q)
    <3>1. pc'[q] \notin {"got", "evict"}
      BY <1>t, <2>4 DEF CreateIfAbsent, EngineStep, CtxFail, ReadLive, ReadAbsent, MaskStep,
         DetectFail, SaveLive, SaveExpired, Respond, Goto, Finish, TypeOK, EngineTypeOK
    <3> QED
      BY <1>m, <2>1, <3>1
  <2> QED
    BY <1>4, <2>2, <2>3, <2>4 DEF RequestStep, StoreStep
<1>5. CASE EngineFailed(q) \/ Reply(q) \/ ProviderFails(q)
  BY <1>m, <1>5 DEF EngineFailed, Reply, ProviderFails, vars, engineVars
<1>6. CASE CallProvider(q)
  <2>1. UNCHANGED vars /\ phase[q] = "masking" /\ masking'[q] \in {masking[q], rec[q]}
    BY <1>0, <1>6 DEF CallProvider, GenTypeOK
  <2>2. job[q].op = "mask" /\ job[q] # NoJob
    BY <1>0, <2>1 DEF Handler
  <2>3. CASE masking'[q] = rec[q]
    <3>1. InForce(rec[q], clock)
      BY <2>1, <2>3 DEF vars, engineVars
    <3> QED
      BY <1>0, <1>k, <2>1, <2>2, <2>3, <3>1 DEF HeldInForce, vars, engineVars
  <2> QED
    BY <1>m, <2>1, <2>2, <2>3 DEF vars, engineVars
<1> QED
  BY <1>0, <1>1, <1>2, <1>3, <1>4, <1>5, <1>6, OneMoves DEF Moves, HandlerStep

\* An answer of the engine tells the truth about the records.
LEMMA StepTold ==
    ASSUME GenIInv, [GenNext]_genVars, NEW q \in Requests
    PROVE  Told(q)'
<1>0. /\ GenTypeOK /\ HandsInv /\ HeldInForce /\ Origin
      /\ Handler(q) /\ MaskingHeld(q) /\ Told(q)
      /\ \A r \in Requests : Handler(r)
  BY DEF GenIInv
<1>t. TypeOK /\ clock \in Nat
  BY <1>0 DEF GenTypeOK, TypeOK, EngineTypeOK
<1>c. clock' = clock \/ clock' = clock + 1
  BY <1>0, GenEngine
<1>e. ASSUME masking[q] # NoRecord, Expired(masking[q], clock)
      PROVE  Expired(masking[q], clock')
  <2>1. masking[q].expires \in Nat
    BY <1>0, <1>e DEF GenTypeOK, Records
  <2> QED
    BY <1>e, <1>c, <1>t, <2>1 DEF Expired
<1> DEFINE
      TellsMask == ans'[q].kind = "masked" =>
          /\ rec'[q] # NoRecord /\ job'[q] # NoJob
          /\ ans'[q].text = rec'[q].masked
          /\ rec'[q].original = job'[q].text
      TellsGone == ans'[q].kind = "gone" =>
          masking'[q] # NoRecord /\ Expired(masking'[q], clock')
      TellsText == job'[q] # NoJob /\ job'[q].op = "demask" =>
          \A v \in (ans'[q].text \cap Values) \ reply'[q] :
              /\ job'[q].pol.allow
              /\ rec'[q] # NoRecord
              /\ <<v, rec'[q].id>> \in reply'[q]
              /\ v \in asked'[rec'[q].id]
      TellsLive == Observed(q)' =>
          /\ ~Expired(rec'[q], obs'[q])
          /\ rec'[q].expires <= obs'[q] + job'[rec'[q].id].pol.ttl
          /\ job'[q].op = "demask" /\ rec'[q] # masking'[q] => Expired(masking'[q], obs'[q])
<1> SUFFICES TellsMask /\ TellsGone /\ TellsText /\ TellsLive
  BY DEF Told, Expired
<1>f. ASSUME NEW kind \in AnswerKinds \ {"masked", "gone"}, ans'[q] = Failure(kind)
      PROVE  TellsMask /\ TellsGone /\ TellsText
  BY <1>f DEF Failure
<1>m. ASSUME NEW x \in Records, MadeFor(x, Key(q))
      PROVE  asked'[x.id] = asked[x.id] /\ job'[x.id].pol = job[x.id].pol
  <2>1. x.id \in Requests /\ job[x.id] # NoJob
    BY <1>m DEF Records, MadeFor
  <2> QED
    BY <1>0, <2>1, CallsStay
<1>s. ASSUME SameFor(q), reply'[q] = reply[q],
             masking'[q] = masking[q] \/ (ans[q].kind = "masked" /\ job[q].op = "mask")
      PROVE  TellsMask /\ TellsGone /\ TellsText /\ TellsLive
  <2>0. rec[q] # NoRecord =>
           asked'[rec[q].id] = asked[rec[q].id] /\ job'[rec[q].id].pol = job[rec[q].id].pol
    BY <1>0, <1>t, <1>m DEF Origin, TypeOK, EngineTypeOK
  <2>1. TellsMask /\ TellsText
    BY <1>0, <1>s, <2>0 DEF Told, SameFor
  <2>2. TellsGone
    BY <1>0, <1>s, <1>e DEF Told, SameFor
  <2>3. TellsLive
    BY <1>0, <1>s, <2>0 DEF Told, SameFor, Observed
  <2> QED
    BY <2>1, <2>2, <2>3
<1>1. CASE AllSameFor(q)
  BY <1>1, <1>s DEF AllSameFor
<1>2. CASE CallProcess(q) \/ CallMask(q)
  <2>2. /\ pc[q] = "idle" /\ rec[q] = NoRecord /\ rec' = rec
        /\ ans'[q] = ans[q] \/ ans'[q] = Failure("invalid")
    BY <1>0, <1>2, <1>t, HandlerCalls, BeginFrame
  <2>3. ans[q] = Failure("none")
    BY <1>0, <2>2 DEF HandsInv
  <2> QED
    BY <1>f, <2>2, <2>3 DEF AnswerKinds, Observed
<1>3. CASE ProviderReplies(q)
  <2>1. ans'[q] = Failure("none") /\ pc'[q] = "read"
    BY <1>0, <1>3, ReplyFrame
  <2> QED
    BY <1>f, <2>1 DEF AnswerKinds, Observed
<1>4. CASE RequestStep(q) /\ UNCHANGED handlerVars
  <2>n. [Next]_vars
    BY <1>4 DEF Next
  <2>1. pc[q] # "done" /\ ans[q] = Failure("none") /\ pc[q] # "idle"
    <3>1. pc[q] # "done" /\ pc[q] # "idle"
      BY <1>4 DEF RequestStep, StoreStep, Get, GetEvict, CreateIfAbsent, EngineStep, CtxFail,
         ReadLive, ReadAbsent, MaskStep, DetectFail, SaveLive, SaveExpired, Respond
    <3> QED
      BY <1>0, <3>1 DEF HandsInv
  <2>2. job' = job /\ clock' = clock /\ masking' = masking /\ reply' = reply
    BY <1>4, <1>t, RequestFrame DEF handlerVars
  <2>3. job[q] \in Jobs /\ job[q] # NoJob
    BY <1>0, <1>t, <2>1 DEF HandsInv, NoJob, TypeOK, EngineTypeOK
  <2>4. TellsLive
    <3> SUFFICES ASSUME Observed(q)' PROVE TellsLive
      OBVIOUS
    <3>1. rec'[q] = rec[q]
      BY <1>0, <1>t, <2>n, Observation
    <3>2. \/ Observed(q) /\ obs'[q] = obs[q]
          \/ InForce(rec[q], clock) /\ obs'[q] = clock
      BY <1>0, <1>t, <2>n, Observation
    <3>3. rec[q] \in Records /\ rec[q] # NoRecord /\ MadeFor(rec[q], Key(q))
      BY <1>0, <1>t, <3>1 DEF Observed, Origin, TypeOK, EngineTypeOK
    <3>4. job'[rec[q].id].pol = job[rec[q].id].pol
      BY <1>m, <3>3
    <3>5. CASE Observed(q) /\ obs'[q] = obs[q]
      BY <1>0, <2>2, <3>1, <3>4, <3>5 DEF Told
    <3>6. CASE InForce(rec[q], clock) /\ obs'[q] = clock
      <4>1. rec[q].expires <= clock + job[rec[q].id].pol.ttl
        BY <1>t, <3>3, MadeWithin
      <4>2. ASSUME job[q].op = "demask", rec[q] # masking[q]
            PROVE  Expired(masking[q], clock)
        <5>1. items[Key(q)] = rec[q]
          BY <1>0, <3>6 DEF HeldInForce
        <5>2. ~InForce(masking[q], clock) /\ masking[q] # NoRecord
          BY <1>0, <2>3, <4>2, <5>1 DEF MaskingHeld, Handler
        <5> QED
          BY <5>2 DEF InForce
      <4> QED
        BY <2>2, <3>1, <3>4, <3>6, <4>1, <4>2 DEF InForce
    <3> QED
      BY <3>2, <3>5, <3>6
  <2>5. CASE ans'[q] = ans[q]
    BY <1>f, <2>1, <2>4, <2>5 DEF AnswerKinds
  <2>6. ASSUME NEW kind \in {"ctx", "store", "detection", "invalid"}, ans'[q] = Failure(kind)
        PROVE  TellsMask /\ TellsGone /\ TellsText
    BY <1>f, <2>6 DEF AnswerKinds
  <2>7. CASE ReadAbsent(q) /\ job[q].op = "demask" /\ ans'[q] = Failure("gone")
    <3>1. pc[q] = "got" /\ ~InForce(rec[q], clock) /\ masking[q] # NoRecord
      BY <1>0, <2>3, <2>7 DEF ReadAbsent, Handler
    <3>2. Expired(masking[q], clock)
      BY <1>0, <2>7, <3>1 DEF MaskingHeld, InForce
    <3> QED
      BY <2>2, <2>4, <2>7, <3>1, <3>2 DEF Failure
  <2>8. CASE Respond(q) /\ ans'[q] = AnswerFrom(rec[q], job[q])
    <3>1. rec'[q] = rec[q] /\ rec[q] \in Records /\ rec[q] # NoRecord
      BY <1>0, <1>t, <2>8 DEF Respond, HandsInv, TypeOK, EngineTypeOK
    <3>2. TellsMask
      BY <2>2, <2>3, <2>8, <3>1, MaskedAnswer
    <3>3. TellsGone
      BY <2>3, <2>8, MaskedAnswer
    <3>4. ASSUME job[q].op = "demask",
                 NEW v \in (AnswerFrom(rec[q], job[q]).text \cap Values) \ job[q].text
          PROVE  /\ job[q].pol.allow /\ <<v, rec[q].id>> \in job[q].text
                 /\ v \in asked[rec[q].id] /\ asked'[rec[q].id] = asked[rec[q].id]
      <4>1. rec[q].id \in Requests /\ MadeFor(rec[q], Key(q))
        BY <1>0, <3>1 DEF Origin, Records
      <4>2. job[rec[q].id].pol \in Policies
        BY <1>t, <4>1 DEF MadeFor, NoJob, Jobs, TypeOK, EngineTypeOK
      <4>3. (Key(q).ns = "generate") = TRUE
        BY <1>0, <2>3, <3>4 DEF Handler, Key, NamespaceOf
      <4>4. MadeAs(rec[q], rec[q].id, asked[rec[q].id], job[rec[q].id].pol, TRUE, clock)
        BY <4>1, <4>3 DEF MadeFor
      <4>5. /\ job[q].pol.allow /\ <<v, rec[q].id>> \in job[q].text
            /\ v \in asked[rec[q].id]
        BY <2>3, <3>1, <3>4, <4>1, <4>2, <4>4, DemaskRestores
      <4>6. asked'[rec[q].id] = asked[rec[q].id]
        BY <1>m, <3>1, <4>1
      <4> QED
        BY <4>5, <4>6
    <3>5. TellsText
      <4>1. job[q].op = "demask" => job[q].text = reply[q]
        BY <1>0, <2>3 DEF Handler
      <4> QED
        BY <2>2, <2>8, <3>1, <3>4, <4>1
    <3> QED
      BY <2>4, <3>2, <3>3, <3>5
  <2> QED
    BY <1>0, <1>t, <2>n, <2>4, <2>5, <2>6, <2>7, <2>8, NewAnswer
<1>5. CASE EngineFailed(q) \/ Reply(q) \/ ProviderFails(q) \/ CallProvider(q)
  <2>1. CallProvider(q) => job[q].op = "mask"
    BY <1>0 DEF CallProvider, Handler
  <2> QED
    BY <1>s, <1>5, <2>1
    DEF EngineFailed, Reply, ProviderFails, CallProvider, vars, engineVars, SameFor
<1> QED
  BY <1>0, <1>1, <1>2, <1>3, <1>4, <1>5, OneMoves DEF Moves, HandlerStep

\* What a request holds is its own record, or one that was held before: only
\* MaskStep makes one.
LEMMA NewlyKept ==
    ASSUME GenIInv, [GenNext]_genVars, NEW x \in KeptRecords'
    PROVE  \/ x \in KeptRecords
           \/ \E r \in Requests :
                 MaskStep(r) /\ x = draft'[r] /\ x.id = r /\ job[r].op # "demask"
<1> DEFINE Made == \E r \in Requests :
                      MaskStep(r) /\ x = draft'[r] /\ x.id = r /\ job[r].op # "demask"
<1>0. GenTypeOK /\ HandsInv /\ TypeOK /\ \A q \in Requests : Handler(q)
  BY DEF GenIInv, GenTypeOK
<1>n. x # NoRecord
  BY DEF KeptRecords
<1>1. ASSUME NEW q \in Requests, pc[q] # "idle" PROVE Key(q) \in Keys
  BY <1>0, <1>1 DEF HandsInv, Key, Jobs, NoJob, TypeOK, EngineTypeOK
<1>2. ASSUME NEW q \in Requests PROVE masking'[q] \in {masking[q], rec[q]}
  <2>1. Moves(q) => masking'[q] \in {masking[q], rec[q]}
    BY <1>0 DEF Moves, CallProcess, CallMask, ProviderReplies, ProviderFails, HandlerStep,
       EngineFailed, CallProvider, Reply, handlerVars, GenTypeOK
  <2> QED
    BY <1>0, <2>1, OneMoves DEF AllSameFor
<1>3. ASSUME NEW q \in Requests
      PROVE  \/ draft'[q] \in {draft[q], NoRecord}
             \/ MaskStep(q) /\ draft'[q].id = q /\ job[q].op # "demask"
  <2>1. CASE MaskStep(q)
    <3>1. pc[q] = "mask" /\ job[q].op # "demask"
      BY <1>0, <2>1 DEF MaskStep, HandsInv
    <3> QED
      BY <1>0, <2>1, <3>1 DEF MaskStep, NewRecord, TypeOK, EngineTypeOK
  <2>2. CASE EngineStep(q) /\ ~MaskStep(q)
    BY <1>0, <2>2 DEF EngineStep, CtxFail, ReadLive, ReadAbsent, DetectFail, SaveLive,
       SaveExpired, Respond, TypeOK, EngineTypeOK
  <2>3. CASE StoreStep(q)
    BY <1>0, <2>3 DEF StoreStep, Get, GetEvict, CreateIfAbsent, TypeOK, EngineTypeOK
  <2>4. CASE CallProcess(q) \/ CallMask(q)
    BY <1>0, <2>4, HandlerCalls, BeginFrame
  <2>5. CASE ProviderReplies(q)
    BY <2>5 DEF ProviderReplies
  <2>6. CASE EngineFailed(q) \/ CallProvider(q) \/ Reply(q) \/ ProviderFails(q)
    BY <2>6 DEF EngineFailed, CallProvider, Reply, ProviderFails, vars, engineVars
  <2>7. CASE AllSameFor(q)
    BY <2>7 DEF AllSameFor, SameFor
  <2> QED
    BY <1>0, <2>1, <2>2, <2>3, <2>4, <2>5, <2>6, <2>7, OneMoves
    DEF Moves, HandlerStep, RequestStep
<1>4. ASSUME NEW k \in Keys, x = items'[k] PROVE x \in KeptRecords
  BY <1>n, <1>4, Sources DEF KeptRecords
<1>5. ASSUME NEW q \in Requests, x = rec'[q] PROVE x \in KeptRecords
  BY <1>n, <1>1, <1>5, Sources DEF KeptRecords
<1>6. ASSUME NEW q \in Requests, x = masking'[q] PROVE x \in KeptRecords
  BY <1>n, <1>2, <1>6 DEF KeptRecords
<1>7. ASSUME NEW q \in Requests, x = draft'[q] PROVE x \in KeptRecords \/ Made
  BY <1>n, <1>3, <1>7 DEF KeptRecords
<1> QED
  BY <1>4, <1>5, <1>6, <1>7 DEF KeptRecords

\* Whoever made a record does not make another one.
LEMMA StepOneRecord ==
    ASSUME GenIInv, [GenNext]_genVars
    PROVE  OneRecordEach'
<1>0. /\ GenTypeOK /\ HandsInv /\ TypeOK /\ OneRecordEach
      /\ \A q \in Requests : Handler(q)
  BY DEF GenIInv, GenTypeOK
<1>i. ASSUME NEW x \in KeptRecords PROVE x.id \in Requests
  BY <1>0, <1>i DEF KeptRecords, Records, GenTypeOK, TypeOK, EngineTypeOK
<1>1. ASSUME NEW q \in Requests, Built(q) PROVE Built(q)'
  <2>1. job[q] # NoJob /\ pc[q] # "idle" /\ job'[q] # NoJob
    BY <1>0, <1>1, CallsStay DEF Built, HandsInv
  <2>2. CASE AllSameFor(q)
    BY <1>1, <2>2 DEF AllSameFor, SameFor, Built
  <2>3. CASE ProviderReplies(q)
    BY <1>0, <2>1, <2>3, ReplyFrame DEF Built
  <2>4. CASE RequestStep(q)
    <3>1. job' = job
      BY <1>0, <2>4, RequestFrame
    <3>2. CASE job[q].op = "demask"
      BY <2>1, <3>1, <3>2 DEF Built
    <3>3. CASE pc[q] \notin {"read", "evict", "got", "mask"}
      <4>1. CASE CreateIfAbsent(q)
        BY <1>0, <2>1, <3>1, <4>1 DEF CreateIfAbsent, Goto, Built, TypeOK, EngineTypeOK
      <4>2. CASE EngineStep(q)
        BY <1>0, <2>1, <3>1, <3>3, <4>2 DEF EngineStep, CtxFail, ReadLive, ReadAbsent, MaskStep,
           DetectFail, SaveLive, SaveExpired, Respond, Goto, Finish, Built, TypeOK, EngineTypeOK
      <4> QED
        BY <2>4, <3>3, <4>1, <4>2 DEF RequestStep, StoreStep, Get, GetEvict
    <3> QED
      BY <1>1, <3>2, <3>3 DEF Built
  <2>5. CASE EngineFailed(q) \/ CallProvider(q) \/ Reply(q) \/ ProviderFails(q)
    BY <1>1, <2>5 DEF EngineFailed, CallProvider, Reply, ProviderFails, vars, engineVars, Built
  <2>6. ~CallProcess(q) /\ ~CallMask(q)
    BY <1>0, <2>1 DEF CallProcess, CallMask, Handler
  <2> QED
    BY <1>0, <2>2, <2>3, <2>4, <2>5, <2>6, OneMoves DEF Moves, HandlerStep
<1>2. ASSUME NEW r \in Requests, MaskStep(r), job[r].op # "demask"
      PROVE  ~Built(r) /\ (draft'[r] # draft[r] => Built(r)')
  <2>1. pc[r] = "mask" /\ job[r] # NoJob /\ job' = job
    BY <1>0, <1>2 DEF MaskStep, HandsInv
  <2> QED
    BY <1>0, <1>2, <2>1 DEF MaskStep, Goto, Finish, Built, TypeOK, EngineTypeOK
<1>3. ASSUME NEW p \in Requests, NEW q \in Requests, MaskStep(p), MaskStep(q),
             draft'[p] \notin KeptRecords, draft'[q] \notin KeptRecords,
             draft'[p] # NoRecord, draft'[q] # NoRecord
      PROVE  p = q
  <2>1. draft'[p] # draft[p] /\ draft'[q] # draft[q]
    BY <1>3 DEF KeptRecords
  <2> QED
    BY <1>0, <1>3, <2>1 DEF MaskStep, TypeOK, EngineTypeOK
<1>4. ASSUME NEW x \in KeptRecords' PROVE Built(x.id)'
  <2>1. CASE x \in KeptRecords
    BY <1>0, <1>1, <1>i, <2>1 DEF OneRecordEach
  <2>2. ASSUME x \notin KeptRecords, NEW r \in Requests,
               MaskStep(r), x = draft'[r], x.id = r, job[r].op # "demask"
        PROVE  Built(x.id)'
    <3>1. x # NoRecord
      BY <1>4 DEF KeptRecords
    <3>2. draft'[r] # draft[r]
      BY <2>2, <3>1 DEF KeptRecords
    <3> QED
      BY <1>2, <2>2, <3>2
  <2> QED
    BY <2>1, <2>2, NewlyKept
<1>5. ASSUME NEW x \in KeptRecords', NEW y \in KeptRecords', x.id = y.id PROVE x = y
  <2>n. x # NoRecord /\ y # NoRecord
    BY <1>5 DEF KeptRecords
  <2>1. CASE x \in KeptRecords /\ y \in KeptRecords
    BY <1>0, <1>5, <2>1 DEF OneRecordEach
  <2>2. ASSUME NEW r \in Requests, MaskStep(r), job[r].op # "demask",
               NEW z \in KeptRecords, z.id = r
        PROVE  FALSE
    BY <1>0, <1>2, <2>2 DEF OneRecordEach
  <2>3. CASE x \notin KeptRecords /\ y \notin KeptRecords
    BY <1>3, <2>3, <2>n, NewlyKept
  <2> QED
    BY <1>5, <2>1, <2>2, <2>3, NewlyKept
<1> QED
  BY <1>4, <1>5 DEF OneRecordEach

\* No step of the handlers breaks the invariant.
LEMMA GenStepInv ==
    ASSUME GenIInv, [GenNext]_genVars
    PROVE  GenIInv'
<1>1. GenTypeOK'
  BY GenStepType DEF GenIInv
<1>2. HandsInv' /\ HeldInForce'
  BY GenEngine DEF GenIInv
<1>3. \A r \in Requests : Handler(r)' /\ MaskingHeld(r)' /\ Told(r)'
  BY StepHandler, StepMaskingHeld, StepTold
<1> QED
  BY <1>1, <1>2, <1>3, StepOrigin, StepOneRecord DEF GenIInv

\* Before the first call there is nothing to say.
LEMMA GenInitInv == GenInit => GenIInv
<1> SUFFICES ASSUME GenInit PROVE GenIInv
  OBVIOUS
<1>1. TypeOK /\ HandsInv /\ HeldInForce
  BY InitInv DEF GenInit, IInv
<1>2. GenTypeOK
  BY <1>1 DEF GenInit, GenTypeOK, Phases, Texts
<1>3. Origin
  BY DEF GenInit, Init, EngineInit, Origin
<1>4. ASSUME NEW r \in Requests PROVE Handler(r) /\ MaskingHeld(r) /\ Told(r)
  <2>1. /\ phase[r] = "start" /\ job[r] = NoJob /\ masking[r] = NoRecord
        /\ rec[r] = NoRecord /\ reply[r] = {} /\ sent[r] = {} /\ ans[r] = Failure("none")
    BY <1>4 DEF GenInit, Init, EngineInit
  <2> QED
    BY <2>1 DEF Handler, MaskingHeld, InForce, Told, Failure, Observed
<1>5. OneRecordEach
  <2>1. KeptRecords = {}
    BY DEF GenInit, Init, EngineInit, KeptRecords
  <2> QED
    BY <2>1 DEF OneRecordEach
<1> QED
  BY <1>1, <1>2, <1>3, <1>4, <1>5 DEF GenIInv

\* The inductive invariant of the handlers.
THEOREM GenInvariance == GenSpec => []GenIInv
<1>1. GenInit => GenIInv
  BY GenInitInv
<1>2. GenIInv /\ [GenNext]_genVars => GenIInv'
  BY GenStepInv
<1> QED
  BY <1>1, <1>2, PTL DEF GenSpec

\* handleProcess and handleGenerate keep their types, whatever the provider
\* writes.
THEOREM GenTypeCorrectness == GenSpec => []GenTypeOK
<1>1. GenIInv => GenTypeOK
  BY DEF GenIInv
<1> QED
  BY <1>1, GenInvariance, PTL

\* What handleGenerate returns holds no PII value but the caller's own and
\* those that the provider wrote, unless the request's own context expired, the
\* identifier was taken over, and the provider wrote a marker of the successor.
THEOREM NoForeignValues == GenSpec => []OnlyOwnValues
<1>1. GenIInv => OnlyOwnValues
  <2> SUFFICES ASSUME GenIInv, NEW r \in Requests, phase[r] = "replied", job[r].op = "demask",
                      NEW v \in ans[r].text \cap Values, v \notin reply[r], v \notin asked[r]
               PROVE  \E q \in Requests :
                         /\ <<v, q>> \in reply[r]
                         /\ v \in asked[q]
                         /\ job[q].key = job[r].key
                         /\ Expired(masking[r], obs[r])
    BY DEF OnlyOwnValues
  <2>1. GenTypeOK /\ Origin /\ Handler(r) /\ Told(r)
    BY DEF GenIInv
  <2>2. job[r] # NoJob /\ pc[r] = "done"
    BY <2>1 DEF Handler
  <2> DEFINE q == rec[r].id
  <2>3. rec[r] # NoRecord /\ <<v, q>> \in reply[r] /\ v \in asked[q]
    BY <2>1, <2>2 DEF Told
  <2>4. q \in Requests /\ job[q].key = job[r].key
    BY <2>1, <2>3 DEF Origin, MadeFor, Key, Records, GenTypeOK, TypeOK, EngineTypeOK
  <2>5. rec[r] # masking[r]
    <3> SUFFICES ASSUME rec[r] = masking[r] PROVE FALSE
      OBVIOUS
    <3>1. masking[r] # NoRecord /\ masking[r].original = asked[r] /\ MadeFor(masking[r], Key(r))
      BY <2>1, <2>3 DEF Handler, Origin
    <3>2. masking[r].original = asked[q]
      BY <3>1 DEF MadeFor, MadeAs, NewRecord
    <3> QED
      BY <2>3, <3>1, <3>2
  <2>6. Expired(masking[r], obs[r])
    BY <2>1, <2>2, <2>3, <2>5 DEF Told, Observed
  <2> QED
    BY <2>3, <2>4, <2>6
<1> QED
  BY <1>1, GenInvariance, PTL

\* Demask restores for a marker that the provider returned, and only by
\* permission.
THEOREM RestoredByMarker == GenSpec => []RestoredByMarkerOnly
<1>1. GenIInv => RestoredByMarkerOnly
  <2> SUFFICES ASSUME GenIInv, NEW r \in Requests, phase[r] = "replied", job[r].op = "demask",
                      NEW v \in (ans[r].text \cap Values) \ reply[r]
               PROVE  job[r].pol.allow /\ \E m \in reply[r] \cap Markers : m[1] = v
    BY DEF RestoredByMarkerOnly
  <2>1. GenTypeOK /\ Handler(r) /\ Told(r)
    BY DEF GenIInv
  <2>2. job[r] # NoJob
    BY <2>1 DEF Handler
  <2>3. job[r].pol.allow /\ rec[r] # NoRecord /\ <<v, rec[r].id>> \in reply[r]
    BY <2>1, <2>2 DEF Told
  <2>4. <<v, rec[r].id>> \in Markers
    BY <2>1, <2>3 DEF Markers, Records, GenTypeOK, TypeOK, EngineTypeOK
  <2> QED
    BY <2>3, <2>4
<1> QED
  BY <1>1, GenInvariance, PTL

\* A handler answers 410 only when the context behind its mask has expired.
THEOREM GoneAfterExpiry == GenSpec => []GoneOnlyAfterExpiry
<1>1. GenIInv => GoneOnlyAfterExpiry
  BY DEF GenIInv, Told, GoneOnlyAfterExpiry
<1> QED
  BY <1>1, GenInvariance, PTL

\* verify ran on every mask that the provider receives, under the policy of
\* the request that made it.
THEOREM NoCriticalValueSent == GenSpec => []ProviderSeesNoCriticalValue
<1>1. GenIInv => ProviderSeesNoCriticalValue
  <2> SUFFICES ASSUME GenIInv, NEW r \in Requests, job[r].op # "process",
                      phase[r] \in {"provider", "demasking", "replied"}
               PROVE  sent[r] \cap job[masking[r].id].pol.types \cap Critical = {}
    BY DEF ProviderSeesNoCriticalValue
  <2>1. GenTypeOK /\ Origin /\ Handler(r)
    BY DEF GenIInv
  <2>2. job[r] \in Jobs /\ job[r] # NoJob
    BY <2>1 DEF Handler, NoJob, GenTypeOK, TypeOK, EngineTypeOK
  <2>3. masking[r] # NoRecord /\ sent[r] = masking[r].masked
    BY <2>1, <2>2 DEF Handler, Jobs, Operations
  <2> DEFINE x == masking[r]
             pol == job[x.id].pol
  <2>4. MadeAs(x, x.id, asked[x.id], pol, Key(r).ns = "generate", clock)
    BY <2>1, <2>3 DEF Origin, MadeFor
  <2>5. x.masked = MaskedText(asked[x.id], pol, Key(r).ns = "generate", x.id)
    BY <2>4 DEF MadeAs, NewRecord
  <2>6. CASE Detect(asked[x.id], pol) = {}
    <3>1. x.masked = asked[x.id]
      BY <2>5, <2>6 DEF MaskedText
    <3> QED
      BY <2>3, <2>6, <3>1 DEF Detect
  <2>7. CASE Detect(asked[x.id], pol) # {}
    BY <2>3, <2>4, <2>7 DEF MadeAs, Verified, Detect
  <2> QED
    BY <2>6, <2>7
<1> QED
  BY <1>1, GenInvariance, PTL

\* A value of the newer policy reaches the provider only out of another
\* request's context of the same text, which no request accepts a lifetime of
\* the older policy after another one accepted it.
THEOREM LaxMaskIsBounded == GenSpec => []ReuseProlongsNoLaxMask
<1>1. GenIInv => ReuseProlongsNoLaxMask
  <2> SUFFICES ASSUME GenIInv, NEW r \in Requests, phase[r] = "provider",
                      sent[r] \cap job[r].pol.types \cap Critical # {}
               PROVE  /\ masking[r].id # r
                      /\ asked[masking[r].id] = asked[r]
                      /\ ~Expired(masking[r], obs[r])
                      /\ \A p \in Requests :
                            Observed(p) /\ rec[p].id = masking[r].id
                            => obs[r] < obs[p] + job[masking[r].id].pol.ttl
    BY DEF ReuseProlongsNoLaxMask
  <2>1. /\ GenTypeOK /\ Origin /\ OneRecordEach /\ Handler(r)
        /\ \A p \in Requests : Told(p)
    BY DEF GenIInv
  <2>2. /\ job[r].op = "mask" /\ pc[r] = "done" /\ rec[r] # NoRecord
        /\ masking[r] = rec[r] /\ masking[r].original = asked[r]
        /\ masking[r].masked = sent[r]
    BY <2>1 DEF Handler
  <2> DEFINE x == masking[r]
             pol == job[x.id].pol
  <2>3. x \in Records /\ x.id \in Requests /\ MadeFor(x, Key(r)) /\ x \in KeptRecords
    BY <2>1, <2>2 DEF Origin, GenTypeOK, Records, KeptRecords
  <2>4. MadeAs(x, x.id, asked[x.id], pol, Key(r).ns = "generate", clock)
    BY <2>3 DEF MadeFor
  <2>5. x.original = asked[x.id]
        /\ x.masked = MaskedText(asked[x.id], pol, Key(r).ns = "generate", x.id)
    BY <2>4 DEF MadeAs, NewRecord
  <2>6. ~Expired(x, obs[r])
    BY <2>1, <2>2 DEF Told, Observed
  <2>7. ASSUME NEW p \in Requests, Observed(p), rec[p].id = x.id
        PROVE  obs[r] < obs[p] + pol.ttl
    <3>1. rec[p] = x
      BY <2>1, <2>3, <2>7 DEF OneRecordEach, KeptRecords, Observed
    <3>2. x.expires <= obs[p] + pol.ttl
      BY <2>1, <2>7, <3>1 DEF Told
    <3>3. obs[r] < x.expires
      <4>1. obs[r] \in Nat /\ x.expires \in Nat
        BY <2>1, <2>3 DEF GenTypeOK, TypeOK, EngineTypeOK, Records
      <4> QED
        BY <2>6, <4>1 DEF Expired
    <3>4. obs[p] \in Nat /\ obs[r] \in Nat /\ x.expires \in Nat /\ pol.ttl \in Nat
      <4>1. job[x.id] \in Jobs
        BY <2>1, <2>3 DEF MadeFor, NoJob, GenTypeOK, TypeOK, EngineTypeOK
      <4> QED
        BY <2>1, <2>3, <4>1, ConstantsAssumption
        DEF GenTypeOK, TypeOK, EngineTypeOK, Records, Jobs, Policies
    <3> QED
      BY ONLY <3>2, <3>3, <3>4
  <2>8. x.id # r
    <3>1. sent[r] \cap pol.types \cap Critical = {}
      <4>1. CASE Detect(asked[x.id], pol) = {}
        BY <2>2, <2>5, <4>1 DEF MaskedText, Detect
      <4>2. CASE Detect(asked[x.id], pol) # {}
        BY <2>2, <2>4, <4>2 DEF MadeAs, Verified, Detect
      <4> QED
        BY <4>1, <4>2
    <3> QED
      BY <3>1
  <2> QED
    BY <2>2, <2>5, <2>6, <2>7, <2>8
<1> QED
  BY <1>1, GenInvariance, PTL
=============================================================================
