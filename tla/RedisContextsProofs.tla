------------------------- MODULE RedisContextsProofs -------------------------
(***************************************************************************)
(* Proofs about the engine over Redis, for any number of requests, keys,   *)
(* texts, policies and codecs, with commands that are repeated, late or    *)
(* lost.  The argument: the only step that writes to the server is         *)
(* ExecSetNX, it writes the record its own request made, and it overwrites *)
(* only an entry that was dropped.  An entry is dropped no earlier than    *)
(* its record expires, so a record in force is never overwritten.          *)
(***************************************************************************)
EXTENDS RedisContexts, TLAPS

-----------------------------------------------------------------------------
(* What the pure operators return *)

\* mask returns a text, and a transform map of markers.
LEMMA NewRecordType ==
    ASSUME NEW r \in Requests, NEW text \in Texts, NEW pol \in Policies,
           NEW force \in BOOLEAN, NEW now \in Nat
    PROVE  NewRecord(r, text, pol, force, now) \in Records
<1> DEFINE found == Detect(text, pol)
           tokens == UseTokens(pol, force)
<1>1. found \subseteq Values /\ found \subseteq text
  BY DEF Detect, Policies
<1>2. \A v \in found : Replacement(v, tokens, r) \in Fragments
  BY <1>1, ConstantsAssumption DEF Replacement, Fragments, Markers
<1>3. MaskedText(text, pol, force, r) \in Texts
  BY <1>2 DEF MaskedText, Texts
<1>4. TransformMap(text, pol, force, r) \in SUBSET Markers
  BY <1>1 DEF TransformMap, Markers
<1>5. now + pol.ttl \in Nat
  <2>1. pol.ttl \in Nat
    BY ConstantsAssumption DEF Policies
  <2> QED
    BY <2>1
<1> QED
  BY <1>3, <1>4, <1>5 DEF NewRecord, Records

\* A failure is an answer.
LEMMA FailureType ==
    ASSUME NEW kind \in AnswerKinds
    PROVE  Failure(kind) \in Answers
BY DEF Failure, Answers, Texts

\* Whatever the operation, an answer is an answer; one that fails is a
\* conflict or a refusal, and a conflict needs another text than the record's.
LEMMA AnswerType ==
    ASSUME NEW x \in Records, NEW j \in Jobs
    PROVE  /\ AnswerFrom(x, j) \in Answers
           /\ AnswerFrom(x, j).kind = "conflict" => x.original # j.text
<1> USE DEF Success, Failure, Answers, AnswerKinds
<1>1. x.original \in Texts /\ x.masked \in Texts /\ x.map \in SUBSET Markers
  BY DEF Records
<1>2. j.text \in Texts /\ j.pol \in Policies /\ j.op \in Operations
  BY DEF Jobs
<1>3. {} \in Texts
  BY DEF Texts
<1>4. /\ processExisting(x, j.text, j.pol.allow) \in Answers
      /\ processExisting(x, j.text, j.pol.allow).kind = "conflict" => x.original # j.text
  BY <1>1, <1>3 DEF processExisting
<1>5. /\ MaskExisting(x, j.text) \in Answers
      /\ MaskExisting(x, j.text).kind = "conflict" => x.original # j.text
  BY <1>1, <1>3 DEF MaskExisting
<1>6. Sanitize(j.text, j.pol) \in Texts
  BY <1>2, ConstantsAssumption DEF Sanitize, Texts, Fragments
<1>7. restoreTokens(Sanitize(j.text, j.pol), x.map) \in Texts
  <2>1. \A m \in x.map : m[1] \in Values
    BY <1>1 DEF Markers
  <2> QED
    BY <2>1, <1>6 DEF restoreTokens, Texts, Fragments
<1>8. /\ DemaskExisting(x, j.text, j.pol) \in Answers
      /\ DemaskExisting(x, j.text, j.pol).kind # "conflict"
  BY <1>1, <1>6, <1>7 DEF DemaskExisting
<1> QED
  BY <1>2, <1>4, <1>5, <1>8 DEF AnswerFrom, Operations

\* An answer made from a record is no refusal of the job or of its text.
LEMMA AnswerKind ==
    ASSUME NEW x, NEW j
    PROVE  AnswerFrom(x, j).kind \notin {"invalid", "detection"}
<1>1. processExisting(x, j.text, j.pol.allow).kind \notin {"invalid", "detection"}
  BY DEF processExisting, Success, Failure
<1>2. MaskExisting(x, j.text).kind \notin {"invalid", "detection"}
  BY DEF MaskExisting, Success, Failure
<1>3. DemaskExisting(x, j.text, j.pol).kind \notin {"invalid", "detection"}
  BY DEF DemaskExisting, Success
<1> QED
  BY <1>1, <1>2, <1>3 DEF AnswerFrom

\* A client's operation is an operation on texts the model knows.
LEMMA ClientJobType ==
    ASSUME TypeOK, NEW j \in ClientJobs
    PROVE  j \in Jobs
<1>1. KnownTexts \subseteq Texts
  <2>1. InputTexts \subseteq Texts
    BY InputsAssumption DEF Texts, Fragments
  <2>2. \A q \in Requests : ans[q].text \in Texts
    BY DEF TypeOK, EngineTypeOK, Answers
  <2> QED
    BY <2>1, <2>2 DEF KnownTexts
<1>2. j \in [op: OfferedOps, key: Keys, text: KnownTexts, pol: OfferedPolicies]
  BY DEF ClientJobs
<1> QED
  BY <1>1, <1>2, InputsAssumption DEF Jobs

\* The record of a job names its request and keeps the text of the job.
LEMMA MadeOfFields ==
    ASSUME NEW x, NEW q, NEW j, NEW now, MadeOf(x, q, j, now)
    PROVE  x.id = q /\ x.original = j.text /\ j # NoJob
BY DEF MadeOf, NewRecord

\* A record once made stays made.
LEMMA MadeOfLater ==
    ASSUME NEW x, NEW q, NEW j, NEW now \in Nat, MadeOf(x, q, j, now)
    PROVE  MadeOf(x, q, j, now + 1)
<1>1. 0..now \subseteq 0..(now + 1)
  OBVIOUS
<1> QED
  BY <1>1 DEF MadeOf

-----------------------------------------------------------------------------
(* Who writes what *)

\* Nothing that belongs to q changes.
SameFor(q) ==
    /\ pc'[q] = pc[q] /\ job'[q] = job[q] /\ draft'[q] = draft[q]
    /\ rec'[q] = rec[q] /\ obs'[q] = obs[q] /\ ans'[q] = ans[q]
    /\ cmd'[q] = cmd[q] /\ flying'[q] = flying[q] /\ reply'[q] = reply[q]

\* A step of one request leaves time, calls, Redis and all others alone.
LEMMA RequestFrame ==
    ASSUME TypeOK, NEW r \in Requests, RequestStep(r)
    PROVE  /\ clock' = clock /\ job' = job /\ server' = server
           /\ \A q \in Requests \ {r} : SameFor(q)
<1> USE DEF TypeOK, EngineTypeOK, SameFor, redisVars, Goto, Finish
<1>1. CASE Get(r)
  BY <1>1 DEF Get
<1>2. CASE GetWinner(r)
  BY <1>2 DEF GetWinner
<1>3. CASE SendSetNX(r) \/ SaveTooLate(r)
  BY <1>3 DEF SendSetNX, SaveTooLate
<1>4. CASE ResendSetNX(r) \/ RecvSetNX(r)
  BY <1>4 DEF ResendSetNX, RecvSetNX, engineVars
<1>5. CASE RedisFail(r)
  BY <1>5 DEF RedisFail
<1>6. CASE CtxFail(r) /\ UNCHANGED redisVars
  BY <1>6 DEF CtxFail
<1>7. CASE (ReadLive(r) \/ ReadAbsent(r)) /\ UNCHANGED redisVars
  BY <1>7 DEF ReadLive, ReadAbsent
<1>8. CASE (MaskStep(r) \/ DetectFail(r)) /\ UNCHANGED redisVars
  BY <1>8 DEF MaskStep, DetectFail
<1>9. CASE (SaveLive(r) \/ SaveExpired(r)) /\ UNCHANGED redisVars
  BY <1>9 DEF SaveLive, SaveExpired
<1>10. CASE Respond(r) /\ UNCHANGED redisVars
  BY <1>10 DEF Respond
<1> QED
  BY <1>1, <1>2, <1>3, <1>4, <1>5, <1>6, <1>7, <1>8, <1>9, <1>10
  DEF RequestStep, Serve, EngineStep

\* A call gives a request its job, and leaves everything else alone.
LEMMA CallFrame ==
    ASSUME TypeOK, NEW r \in Requests, ClientCall(r), UNCHANGED redisVars, Hands(r)
    PROVE  /\ clock' = clock /\ server' = server
           /\ pc[r] = "idle" /\ job[r] = NoJob /\ job'[r] \in Jobs /\ rec[r] = NoRecord
           /\ UNCHANGED <<draft, rec, obs, cmd, flying, reply, cancelled>>
           /\ \/ pc'[r] = "read" /\ ans'[r] = ans[r]
              \/ pc'[r] = "done" /\ ans'[r] = Failure("invalid")
           /\ ans' \in [Requests -> Answers] /\ pc' \in [Requests -> PCs]
           /\ job' \in [Requests -> Jobs \cup {NoJob}]
           /\ \A q \in Requests \ {r} : SameFor(q)
<1>1. PICK j \in ClientJobs : Begin(r, j)
  BY DEF ClientCall
<1>2. j \in Jobs
  BY ClientJobType
<1>3. Failure("invalid") \in Answers
  BY FailureType DEF AnswerKinds
<1>4. pc[r] = "idle" /\ job[r] = NoJob /\ rec[r] = NoRecord
  BY <1>1 DEF Begin, Hands
<1> QED
  BY <1>1, <1>2, <1>3, <1>4
  DEF TypeOK, EngineTypeOK, Begin, Goto, Finish, SameFor, redisVars, PCs

\* A call is made once.
LEMMA JobsStay ==
    ASSUME TypeOK, \A r \in Requests : Hands(r), [Next]_vars,
           NEW q \in Requests, job[q] # NoJob
    PROVE  job'[q] = job[q]
<1>1. ASSUME NEW r \in Requests, RequestStep(r) PROVE job' = job
  BY <1>1, RequestFrame
<1>2. ASSUME NEW r \in Requests, ClientCall(r), UNCHANGED redisVars
      PROVE  job'[q] = job[q]
  BY <1>2, CallFrame DEF SameFor
<1>3. ASSUME NEW r \in Requests, ExecSetNX(r) PROVE job' = job
  BY <1>3 DEF ExecSetNX, engineVars
<1>4. ASSUME NEW r \in Requests, Cancel(r) PROVE job' = job
  BY <1>4 DEF Cancel
<1>5. Tick => job' = job
  BY DEF Tick
<1>6. UNCHANGED vars => job' = job
  BY DEF vars, engineVars
<1> QED
  BY <1>1, <1>2, <1>3, <1>4, <1>5, <1>6 DEF Next, Environment

\* Time does not go back.
LEMMA ClockUp ==
    ASSUME TypeOK, \A r \in Requests : Hands(r), [Next]_vars
    PROVE  clock' = clock \/ clock' = clock + 1
<1>1. ASSUME NEW r \in Requests, RequestStep(r) PROVE clock' = clock
  BY <1>1, RequestFrame
<1>2. ASSUME NEW r \in Requests, ClientCall(r), UNCHANGED redisVars PROVE clock' = clock
  BY <1>2, CallFrame
<1> QED
  BY <1>1, <1>2 DEF Next, Environment, ExecSetNX, Cancel, Tick, vars, engineVars

\* What a request made it has made for good.
LEMMA MadeByStays ==
    ASSUME TypeOK, \A r \in Requests : Hands(r), [Next]_vars,
           NEW x, NEW q \in Requests, MadeOf(x, q, job[q], clock)
    PROVE  MadeOf(x, q, job'[q], clock')
<1>1. job'[q] = job[q]
  BY JobsStay, MadeOfFields
<1>2. clock \in Nat
  BY DEF TypeOK, EngineTypeOK
<1>3. clock' = clock \/ clock' = clock + 1
  BY ClockUp
<1> QED
  BY <1>1, <1>2, <1>3, MadeOfLater

-----------------------------------------------------------------------------
(* Type correctness *)

\* Redis starts empty, and so does the proxy.
LEMMA InitType == Init => TypeOK
<1> SUFFICES ASSUME Init PROVE TypeOK
  OBVIOUS
<1>1. Failure("none") \in Answers
  BY FailureType DEF AnswerKinds
<1> QED
  BY <1>1, CopiesAssumption DEF Init, EngineInit, TypeOK, EngineTypeOK, PCs

\* Every handler, command and environment step keeps the types.
LEMMA StepType ==
    ASSUME TypeOK, \A r \in Requests : Hands(r) /\ Command(r), [Next]_vars
    PROVE  TypeOK'
<1> USE DEF TypeOK, EngineTypeOK
<1>f. /\ Failure("ctx") \in Answers /\ Failure("store") \in Answers
      /\ Failure("gone") \in Answers /\ Failure("detection") \in Answers
  BY FailureType DEF AnswerKinds
<1>k. \A r \in Requests : pc[r] # "idle" => Key(r) \in Keys /\ job[r] \in Jobs
  BY DEF Hands, Key, Jobs, NoJob
<1>1. CASE Tick /\ UNCHANGED redisVars
  BY <1>1 DEF Tick, redisVars
<1>2. ASSUME NEW r \in Requests, Cancel(r), UNCHANGED redisVars PROVE TypeOK'
  BY <1>2 DEF Cancel, redisVars
<1>3. ASSUME NEW r \in Requests, ClientCall(r), UNCHANGED redisVars PROVE TypeOK'
  BY <1>3, CallFrame DEF redisVars
<1>4. ASSUME NEW r \in Requests, ExecSetNX(r) PROVE TypeOK'
  <2>1. cmd[r] \in Commands /\ Key(r) \in Keys
    BY <1>4, <1>k DEF ExecSetNX, Command, Hands
  <2>2. [rec |-> cmd[r].rec, seal |-> cmd[r].seal, drop |-> clock + cmd[r].ttl] \in Entries
    BY <2>1 DEF Commands, Entries
  <2>3. server' \in [Keys -> Entries \cup {NoEntry}]
    BY <1>4, <2>1, <2>2 DEF ExecSetNX
  <2>4. flying' \in [Requests -> 0..MaxCopies]
    BY <1>4, CopiesAssumption DEF ExecSetNX
  <2>5. reply' \in [Requests -> {"none", "created", "exists"}]
    BY <1>4 DEF ExecSetNX
  <2> QED
    BY <1>4, <2>3, <2>4, <2>5 DEF ExecSetNX, engineVars
<1>5. ASSUME NEW r \in Requests, Get(r) PROVE TypeOK'
  <2>1. Key(r) \in Keys
    BY <1>5, <1>k DEF Get
  <2>2. Present(Key(r)) => server[Key(r)].rec \in Records
    BY <2>1 DEF Present, Entries
  <2>3. rec' \in [Requests -> Records \cup {NoRecord}]
    BY <1>5, <2>2 DEF Get
  <2> QED
    BY <1>5, <1>f, <2>3 DEF Get, redisVars, Goto, Finish, PCs
<1>6. ASSUME NEW r \in Requests, GetWinner(r) PROVE TypeOK'
  <2>1. Key(r) \in Keys
    BY <1>6, <1>k DEF GetWinner
  <2>2. Present(Key(r)) => server[Key(r)].rec \in Records
    BY <2>1 DEF Present, Entries
  <2>3. rec' \in [Requests -> Records \cup {NoRecord}]
    BY <1>6, <2>2 DEF GetWinner
  <2> QED
    BY <1>6, <1>f, <2>3 DEF GetWinner, redisVars, Goto, Finish, PCs
<1>7. ASSUME NEW r \in Requests, SendSetNX(r) PROVE TypeOK'
  <2>1. draft[r] \in Records
    BY <1>7 DEF SendSetNX, Hands
  <2>2. draft[r].expires - clock \in Nat
    BY <1>7, <2>1 DEF SendSetNX, Expired, Records
  <2>3. Ring[r].active \in KeyIDs
    BY RingAssumption DEF KeyIDs
  <2>4. [rec |-> draft[r], seal |-> Ring[r].active,
         ttl |-> draft[r].expires - clock] \in Commands
    BY <2>1, <2>2, <2>3 DEF Commands
  <2>5. 1 \in 0..MaxCopies
    BY CopiesAssumption
  <2> QED
    BY <1>7, <2>4, <2>5 DEF SendSetNX, Goto, PCs
<1>8. ASSUME NEW r \in Requests, SaveTooLate(r) PROVE TypeOK'
  BY <1>8, <1>f DEF SaveTooLate, redisVars, Goto, Finish, PCs
<1>9. ASSUME NEW r \in Requests, ResendSetNX(r) PROVE TypeOK'
  BY <1>9, CopiesAssumption DEF ResendSetNX, engineVars
<1>10. ASSUME NEW r \in Requests, RecvSetNX(r) PROVE TypeOK'
  BY <1>10 DEF RecvSetNX, Goto, PCs
<1>11. ASSUME NEW r \in Requests, RedisFail(r) PROVE TypeOK'
  BY <1>11, <1>f DEF RedisFail, redisVars, Goto, Finish, PCs
<1>12. ASSUME NEW r \in Requests, CtxFail(r), UNCHANGED redisVars PROVE TypeOK'
  BY <1>12, <1>f DEF CtxFail, redisVars, Goto, Finish, PCs
<1>13. ASSUME NEW r \in Requests, ReadLive(r), UNCHANGED redisVars PROVE TypeOK'
  BY <1>13 DEF ReadLive, redisVars, Goto, PCs
<1>14. ASSUME NEW r \in Requests, ReadAbsent(r), UNCHANGED redisVars PROVE TypeOK'
  BY <1>14, <1>f DEF ReadAbsent, redisVars, Goto, Finish, PCs
<1>15. ASSUME NEW r \in Requests, MaskStep(r), UNCHANGED redisVars PROVE TypeOK'
  <2>1. NewRecord(r, job[r].text, job[r].pol, job[r].op = "mask", clock) \in Records
    BY <1>15, <1>k, NewRecordType DEF MaskStep, Jobs
  <2> QED
    BY <1>15, <1>f, <2>1 DEF MaskStep, redisVars, Goto, Finish, PCs
<1>16. ASSUME NEW r \in Requests, DetectFail(r), UNCHANGED redisVars PROVE TypeOK'
  BY <1>16, <1>f DEF DetectFail, redisVars, Goto, Finish, PCs
<1>17. ASSUME NEW r \in Requests, SaveLive(r), UNCHANGED redisVars PROVE TypeOK'
  BY <1>17 DEF SaveLive, redisVars, Goto, PCs
<1>18. ASSUME NEW r \in Requests, SaveExpired(r), UNCHANGED redisVars PROVE TypeOK'
  BY <1>18, <1>f DEF SaveExpired, redisVars, Goto, Finish, PCs
<1>19. ASSUME NEW r \in Requests, Respond(r), UNCHANGED redisVars PROVE TypeOK'
  <2>1. rec[r] \in Records /\ job[r] \in Jobs
    BY <1>19, <1>k DEF Respond, Hands
  <2>2. AnswerFrom(rec[r], job[r]) \in Answers
    BY <2>1, AnswerType
  <2> QED
    BY <1>19, <1>f, <2>2 DEF Respond, redisVars, Goto, Finish, PCs
<1>20. CASE UNCHANGED vars
  BY <1>20 DEF vars, engineVars, redisVars
<1> QED
  BY <1>1, <1>2, <1>3, <1>4, <1>5, <1>6, <1>7, <1>8, <1>9, <1>10, <1>11, <1>12,
     <1>13, <1>14, <1>15, <1>16, <1>17, <1>18, <1>19, <1>20
  DEF Next, Environment, RequestStep, Serve, EngineStep

-----------------------------------------------------------------------------
(* What each request holds *)

\* The hands of a request that does not move stay as they are.
LEMMA HandsKept ==
    ASSUME TypeOK, \A r \in Requests : Hands(r), [Next]_vars,
           NEW q \in Requests, SameFor(q), Hands(q)
    PROVE  Hands(q)'
<1>1. \A x \in Requests : MadeOf(rec[q], x, job[x], clock) =>
         MadeOf(rec[q], x, job'[x], clock') /\ job'[x] = job[x]
  BY MadeByStays, JobsStay, MadeOfFields
<1>2. MadeOf(draft[q], q, job[q], clock) => MadeOf(draft[q], q, job'[q], clock')
  BY MadeByStays
<1>3. obs[q] <= clock => obs'[q] <= clock'
  <2>1. clock \in Nat /\ obs[q] \in Nat /\ obs'[q] = obs[q]
    BY DEF TypeOK, EngineTypeOK, SameFor
  <2> QED
    BY <2>1, ClockUp
<1>4. rec[q] # NoRecord => MadeUnder(rec[q], Key(q))'
  <2> SUFFICES ASSUME rec[q] # NoRecord PROVE MadeUnder(rec[q], Key(q))'
    OBVIOUS
  <2>1. rec[q] \in Records /\ rec[q].id \in Requests
    BY DEF TypeOK, EngineTypeOK, Records
  <2>2. MadeOf(rec[q], rec[q].id, job[rec[q].id], clock) /\ job[rec[q].id].key = job[q].key
    BY DEF Hands, MadeUnder, MadeBy, Key
  <2> QED
    BY <1>1, <2>1, <2>2 DEF SameFor, MadeUnder, MadeBy, Key
<1> QED
  BY <1>2, <1>3, <1>4 DEF Hands, SameFor, MadeBy

\* The control flow of Process, Mask and Demask over Redis.
LEMMA StepHands ==
    ASSUME TypeOK, \A r \in Requests : Hands(r) /\ Command(r),
           \A k \in Keys : Kept(k), [Next]_vars
    PROVE  \A r \in Requests : Hands(r)'
<1>o. \A q \in Requests : SameFor(q) => Hands(q)'
  BY HandsKept
<1>k. \A r \in Requests : pc[r] # "idle" => Key(r) \in Keys /\ job[r] \in Jobs
  BY DEF Hands, Key, Jobs, NoJob, TypeOK, EngineTypeOK
<1>n. clock \in Nat
  BY DEF TypeOK, EngineTypeOK
<1>1. CASE Tick /\ UNCHANGED redisVars
  BY <1>1, <1>o DEF Tick, redisVars, SameFor
<1>2. ASSUME NEW r \in Requests, Cancel(r), UNCHANGED redisVars
      PROVE  \A q \in Requests : Hands(q)'
  BY <1>2, <1>o DEF Cancel, redisVars, SameFor
<1>3. ASSUME NEW r \in Requests, ClientCall(r), UNCHANGED redisVars
      PROVE  \A q \in Requests : Hands(q)'
  <2>1. Hands(r)'
    BY <1>3, CallFrame, NoRecordAssumption DEF Hands, NoJob, MadeUnder, MadeBy
  <2> QED
    BY <1>3, <1>o, <2>1, CallFrame
<1>4. ASSUME NEW r \in Requests, ExecSetNX(r) PROVE \A q \in Requests : Hands(q)'
  BY <1>4 DEF ExecSetNX, engineVars, Hands, MadeUnder, MadeBy, Key
<1>5. ASSUME NEW r \in Requests, RequestStep(r) PROVE \A q \in Requests : Hands(q)'
  <2> USE DEF TypeOK, EngineTypeOK, Hands, MadeUnder, MadeBy, Key, Goto, Finish
  <2>f. clock' = clock /\ job' = job
    BY <1>5, RequestFrame
  <2>r. \A x : Present(Key(r)) /\ x = server[Key(r)].rec /\ Key(r) \in Keys
           => MadeOf(x, x.id, job[x.id], clock) /\ job[x.id].key = Key(r) /\ x # NoRecord
    BY NoRecordAssumption DEF Present, Kept, Entries
  <2>1. CASE Get(r)
    BY <1>k, <2>1, <2>f, <2>r DEF Get
  <2>2. CASE GetWinner(r)
    BY <1>k, <2>2, <2>f, <2>r DEF GetWinner
  <2>3. CASE SendSetNX(r) \/ SaveTooLate(r)
    BY <2>3, <2>f DEF SendSetNX, SaveTooLate
  <2>4. CASE ResendSetNX(r)
    BY <2>4, <2>f DEF ResendSetNX, engineVars
  <2>5. CASE RecvSetNX(r)
    <3>1. draft[r].id = r
      BY <2>5, MadeOfFields DEF RecvSetNX
    <3> QED
      BY <2>5, <2>f, <3>1 DEF RecvSetNX
  <2>6. CASE RedisFail(r)
    BY <2>6, <2>f DEF RedisFail
  <2>7. CASE CtxFail(r)
    BY <2>7, <2>f DEF CtxFail
  <2>8. CASE ReadLive(r)
    BY <2>8, <2>f, <1>n DEF ReadLive, InForce
  <2>9. CASE ReadAbsent(r)
    BY <2>9, <2>f DEF ReadAbsent
  <2>10. CASE MaskStep(r)
    <3>1. \A x : x = NewRecord(r, job[r].text, job[r].pol, job[r].op = "mask", clock)
              /\ Verified(job[r].text, x.masked, job[r].pol) /\ job[r].op # "demask"
            => MadeOf(x, r, job[r], clock) /\ x # NoRecord
      <4>1. NewRecord(r, job[r].text, job[r].pol, job[r].op = "mask", clock) # NoRecord
        <5>1. job[r] \in Jobs
          BY <2>10, <1>k DEF MaskStep
        <5>2. job[r].text \in Texts /\ job[r].pol \in Policies
          BY <5>1 DEF Jobs
        <5>3. NewRecord(r, job[r].text, job[r].pol, job[r].op = "mask", clock) \in Records
          BY <5>2, <1>n, NewRecordType
        <5> QED
          BY <5>3, NoRecordAssumption
      <4>2. clock \in 0..clock
        BY ONLY <1>n
      <4> QED
        BY <2>10, <4>1, <4>2 DEF MadeOf, MaskStep
    <3> QED
      BY <2>10, <2>f, <3>1 DEF MaskStep
  <2>11. CASE DetectFail(r)
    BY <2>11, <2>f DEF DetectFail
  <2>12. CASE SaveLive(r)
    BY <2>12, <2>f, <1>n DEF SaveLive
  <2>13. CASE SaveExpired(r)
    BY <2>13, <2>f DEF SaveExpired
  <2>14. CASE Respond(r)
    BY <2>14, <2>f DEF Respond
  <2> QED
    BY <1>5, <2>1, <2>2, <2>3, <2>4, <2>5, <2>6, <2>7, <2>8, <2>9, <2>10, <2>11,
       <2>12, <2>13, <2>14 DEF RequestStep, Serve, EngineStep
<1>6. CASE UNCHANGED vars
  BY <1>6, <1>o DEF vars, engineVars, redisVars, SameFor
<1> QED
  BY <1>1, <1>2, <1>3, <1>4, <1>5, <1>6 DEF Next, Environment

-----------------------------------------------------------------------------
(* What is on its way to the server, and what the server keeps *)

\* The command of a request that does not move stays good.
LEMMA CommandKept ==
    ASSUME TypeOK, \A r \in Requests : Hands(r), [Next]_vars,
           NEW q \in Requests, SameFor(q), Command(q)
    PROVE  Command(q)'
<1>1. cmd[q] # NoEntry => MadeOf(cmd[q].rec, q, job'[q], clock')
  BY MadeByStays DEF Command, MadeBy
<1>2. cmd[q] # NoEntry => cmd[q].rec.expires <= clock' + cmd[q].ttl
  <2> SUFFICES ASSUME cmd[q] # NoEntry PROVE cmd[q].rec.expires <= clock' + cmd[q].ttl
    OBVIOUS
  <2>1. cmd[q] \in Commands /\ clock \in Nat
    BY DEF TypeOK, EngineTypeOK
  <2>2. cmd[q].rec.expires \in Nat /\ cmd[q].ttl \in Nat
    BY <2>1 DEF Commands, Records
  <2>3. cmd[q].rec.expires <= clock + cmd[q].ttl
    BY DEF Command
  <2> QED
    BY <2>1, <2>2, <2>3, ClockUp
<1> QED
  BY <1>1, <1>2 DEF Command, SameFor, MadeBy

\* Every command carries what its request made, for at least its lifetime.
LEMMA StepCommand ==
    ASSUME TypeOK, \A r \in Requests : Hands(r) /\ Command(r), [Next]_vars
    PROVE  \A r \in Requests : Command(r)'
<1>o. \A q \in Requests : SameFor(q) => Command(q)'
  BY CommandKept
<1>1. CASE Tick /\ UNCHANGED redisVars
  BY <1>1, <1>o DEF Tick, redisVars, SameFor
<1>2. ASSUME NEW r \in Requests, Cancel(r), UNCHANGED redisVars
      PROVE  \A q \in Requests : Command(q)'
  BY <1>2, <1>o DEF Cancel, redisVars, SameFor
<1>3. ASSUME NEW r \in Requests, ClientCall(r), UNCHANGED redisVars
      PROVE  \A q \in Requests : Command(q)'
  <2>1. cmd[r] = NoEntry
    BY <1>3, CallFrame, MadeOfFields DEF Command, MadeBy
  <2>2. Command(r)'
    BY <1>3, <2>1, CallFrame DEF Command
  <2> QED
    BY <1>3, <1>o, <2>2, CallFrame
<1>4. ASSUME NEW r \in Requests, ExecSetNX(r) PROVE \A q \in Requests : Command(q)'
  <2>1. \A q \in Requests \ {r} : SameFor(q)
    BY <1>4 DEF ExecSetNX, engineVars, SameFor, TypeOK
  <2>2. Command(r)'
    BY <1>4 DEF ExecSetNX, engineVars, Command, MadeBy, TypeOK
  <2> QED
    BY <1>o, <2>1, <2>2
<1>5. ASSUME NEW r \in Requests, RequestStep(r) PROVE \A q \in Requests : Command(q)'
  <2>f. clock' = clock /\ job' = job
    BY <1>5, RequestFrame
  <2> SUFFICES Command(r)'
    BY <1>5, <1>o, RequestFrame
  <2> USE DEF TypeOK, EngineTypeOK, Command, MadeBy, Goto, Finish, redisVars, Failure
  <2>1. CASE Get(r)
    BY <2>1, <2>f DEF Get
  <2>2. CASE GetWinner(r)
    BY <2>2, <2>f DEF GetWinner
  <2>3. CASE SendSetNX(r)
    <3>1. /\ draft[r] \in Records /\ MadeOf(draft[r], r, job[r], clock)
          /\ pc[r] = "save" /\ pc'[r] = "setnx" /\ draft' = draft /\ reply' = reply
          /\ reply[r] = "none"
      BY <2>3 DEF SendSetNX, Hands
    <3>2. cmd'[r] = [rec |-> draft[r], seal |-> Ring[r].active,
                     ttl |-> draft[r].expires - clock]
      BY <2>3 DEF SendSetNX
    <3>3. cmd'[r] # NoEntry
      <4>1. cmd'[r] \in Commands
        <5>1. draft[r].expires - clock \in Nat
          BY <2>3, <3>1 DEF SendSetNX, Expired, Records
        <5>2. Ring[r].active \in KeyIDs
          BY RingAssumption DEF KeyIDs
        <5> QED
          BY <3>1, <3>2, <5>1, <5>2 DEF Commands
      <4> QED
        BY <4>1, NoEntryAssumption
    <3>4. draft[r].expires <= clock + (draft[r].expires - clock)
      BY <3>1 DEF Records
    <3>5. pc'[r] = "setnx" /\ ans'[r] = Failure("none")
      BY <2>3, <3>1 DEF SendSetNX, Hands
    <3> QED
      BY <2>f, <3>1, <3>2, <3>3, <3>4, <3>5
  <2>4. CASE SaveTooLate(r)
    BY <2>4, <2>f DEF SaveTooLate
  <2>5. CASE ResendSetNX(r)
    <3>1. cmd[r] # NoEntry /\ ans[r] = Failure("none")
      BY <2>5 DEF ResendSetNX, Hands
    <3> QED
      BY <2>5, <2>f, <3>1 DEF ResendSetNX, engineVars
  <2>6. CASE RecvSetNX(r)
    BY <2>6, <2>f DEF RecvSetNX
  <2>7. CASE RedisFail(r)
    BY <2>7, <2>f DEF RedisFail
  <2>8. CASE CtxFail(r) /\ UNCHANGED redisVars
    BY <2>8, <2>f DEF CtxFail
  <2>9. CASE (ReadLive(r) \/ ReadAbsent(r)) /\ UNCHANGED redisVars
    BY <2>9, <2>f DEF ReadLive, ReadAbsent
  <2>10. CASE (MaskStep(r) \/ DetectFail(r)) /\ UNCHANGED redisVars
    <3>1. cmd[r] = NoEntry
      BY <2>10 DEF MaskStep, DetectFail, MadeOf
    <3>2. flying[r] = 0
      BY <3>1, CopiesAssumption
    <3> QED
      BY <2>10, <2>f, <3>1, <3>2 DEF MaskStep, DetectFail
  <2>11. CASE (SaveLive(r) \/ SaveExpired(r)) /\ UNCHANGED redisVars
    BY <2>11, <2>f DEF SaveLive, SaveExpired
  <2>12. CASE Respond(r) /\ UNCHANGED redisVars
    <3>1. ans'[r].kind \notin {"invalid", "detection"} /\ pc'[r] = "done"
      BY <2>12, AnswerKind DEF Respond
    <3> QED
      BY <2>12, <2>f, <3>1 DEF Respond
  <2> QED
    BY <1>5, <2>1, <2>2, <2>3, <2>4, <2>5, <2>6, <2>7, <2>8, <2>9, <2>10, <2>11,
       <2>12 DEF RequestStep, Serve, EngineStep
<1>6. CASE UNCHANGED vars
  BY <1>6, <1>o DEF vars, engineVars, redisVars, SameFor
<1> QED
  BY <1>1, <1>2, <1>3, <1>4, <1>5, <1>6 DEF Next, Environment

\* An entry that ExecSetNX writes is dropped no earlier than its record expires.
LEMMA Written ==
    ASSUME TypeOK, \A r \in Requests : Hands(r) /\ Command(r),
           NEW r \in Requests, ExecSetNX(r), ~Present(Key(r))
    PROVE  /\ Key(r) \in Keys
           /\ cmd[r] \in Commands /\ cmd[r].rec \in Records
           /\ MadeOf(cmd[r].rec, r, job[r], clock)
           /\ cmd[r].rec.expires <= clock + cmd[r].ttl
           /\ server' = [server EXCEPT ![Key(r)] =
                           [rec |-> cmd[r].rec, seal |-> cmd[r].seal,
                            drop |-> clock + cmd[r].ttl]]
           /\ server'[Key(r)] # NoEntry
<1>1. cmd[r] # NoEntry /\ pc[r] # "idle"
  BY DEF ExecSetNX, Command
<1>2. cmd[r] \in Commands /\ Key(r) \in Keys
  BY <1>1 DEF TypeOK, EngineTypeOK, Hands, Key, Jobs, NoJob
<1>3. cmd[r].rec \in Records /\ cmd[r].seal \in KeyIDs /\ cmd[r].ttl \in Nat /\ clock \in Nat
  BY <1>2 DEF Commands, TypeOK, EngineTypeOK
<1>4. server' = [server EXCEPT ![Key(r)] =
                    [rec |-> cmd[r].rec, seal |-> cmd[r].seal, drop |-> clock + cmd[r].ttl]]
  BY DEF ExecSetNX
<1>5. [rec |-> cmd[r].rec, seal |-> cmd[r].seal, drop |-> clock + cmd[r].ttl] \in Entries
  BY <1>3 DEF Entries
<1>6. server'[Key(r)] # NoEntry
  BY <1>2, <1>4, <1>5, NoEntryAssumption DEF TypeOK
<1> QED
  BY <1>1, <1>2, <1>3, <1>4, <1>6 DEF Command, MadeBy

\* Only ExecSetNX writes to the server.
LEMMA ServerWriter ==
    ASSUME TypeOK, \A r \in Requests : Hands(r), [Next]_vars,
           ~ \E r \in Requests : ExecSetNX(r)
    PROVE  server' = server
<1>1. ASSUME NEW r \in Requests, RequestStep(r) PROVE server' = server
  BY <1>1, RequestFrame
<1> QED
  BY <1>1 DEF Next, Environment, redisVars, vars

\* What the server keeps was made under its key, and is kept long enough.
LEMMA StepKept ==
    ASSUME TypeOK, \A r \in Requests : Hands(r) /\ Command(r),
           \A k \in Keys : Kept(k), [Next]_vars
    PROVE  \A k \in Keys : Kept(k)'
<1> SUFFICES ASSUME NEW k \in Keys PROVE Kept(k)'
  OBVIOUS
<1>1. CASE server'[k] = server[k]
  <2> SUFFICES ASSUME server[k] # NoEntry PROVE MadeUnder(server[k].rec, k)'
    BY <1>1 DEF Kept
  <2>1. server[k].rec.id \in Requests
    BY DEF TypeOK, Entries, Records
  <2>2. /\ MadeOf(server[k].rec, server[k].rec.id, job[server[k].rec.id], clock)
        /\ job[server[k].rec.id].key = k
    BY DEF Kept, MadeUnder, MadeBy
  <2>3. job'[server[k].rec.id] = job[server[k].rec.id]
    BY <2>1, <2>2, JobsStay, MadeOfFields
  <2>4. MadeOf(server[k].rec, server[k].rec.id, job'[server[k].rec.id], clock')
    BY <2>1, <2>2, MadeByStays
  <2> QED
    BY <1>1, <2>2, <2>3, <2>4 DEF MadeUnder, MadeBy
<1>2. CASE server'[k] # server[k]
  <2>1. PICK r \in Requests : ExecSetNX(r)
    BY <1>2, ServerWriter
  <2>2. ~Present(Key(r))
    BY <1>2, <2>1 DEF ExecSetNX
  <2>3. k = Key(r)
    BY <1>2, <2>1, <2>2, Written DEF TypeOK
  <2>4. server'[k].rec = cmd[r].rec /\ server'[k].drop = clock + cmd[r].ttl
    BY <2>1, <2>2, <2>3, Written DEF TypeOK
  <2>5. clock' = clock /\ job' = job
    BY <2>1 DEF ExecSetNX, engineVars
  <2>6. cmd[r].rec.id = r
    BY <2>1, <2>2, Written, MadeOfFields
  <2>7. MadeUnder(server[k].rec, k)'
    <3>1. server'[k].rec.id = r /\ job'[r].key = k
      BY <2>3, <2>4, <2>5, <2>6 DEF Key
    <3>2. MadeOf(server'[k].rec, r, job'[r], clock')
      BY <2>1, <2>2, <2>4, <2>5, Written
    <3> QED
      BY <3>1, <3>2 DEF MadeUnder, MadeBy
  <2>8. server'[k].rec.expires <= server'[k].drop
    BY <2>1, <2>2, <2>4, Written
  <2> QED
    BY <2>7, <2>8 DEF Kept
<1> QED
  BY <1>1, <1>2

-----------------------------------------------------------------------------
(* A record in force is never lost *)

\* What Redis keeps is overwritten only after its record has expired.
LEMMA NotOverwritten ==
    ASSUME TypeOK, \A r \in Requests : Hands(r) /\ Command(r),
           \A k \in Keys : Kept(k), [Next]_vars,
           NEW k \in Keys, server[k] # NoEntry, InForce(server[k].rec, clock)
    PROVE  server'[k] = server[k] /\ Present(k)
<1>1. server[k] \in Entries /\ clock \in Nat
  BY DEF TypeOK, EngineTypeOK
<1>2. server[k].rec.expires \in Nat /\ server[k].drop \in Nat
  BY <1>1 DEF Entries, Records
<1>3. clock < server[k].rec.expires
  BY <1>1, <1>2 DEF InForce, Expired
<1>4. server[k].rec.expires <= server[k].drop
  BY DEF Kept
<1>5. Present(k)
  BY <1>1, <1>2, <1>3, <1>4 DEF Present
<1>6. ASSUME NEW r \in Requests, ExecSetNX(r) PROVE server'[k] = server[k]
  <2>1. CASE Present(Key(r))
    BY <1>6, <2>1 DEF ExecSetNX
  <2>2. CASE ~Present(Key(r))
    BY <1>5, <1>6, <2>2, Written DEF TypeOK
  <2> QED
    BY <2>1, <2>2
<1> QED
  BY <1>5, <1>6, ServerWriter

\* Once expired, a record stays so.
LEMMA ExpiryIsFinal ==
    ASSUME TypeOK, \A r \in Requests : Hands(r), [Next]_vars,
           NEW x \in Records \cup {NoRecord}, InForce(x, clock')
    PROVE  InForce(x, clock)
<1>1. x \in Records /\ x.expires \in Nat /\ clock \in Nat
  BY DEF InForce, Records, TypeOK, EngineTypeOK
<1> QED
  BY <1>1, ClockUp DEF InForce, Expired

\* What was held in force stays held while it is in force.
LEMMA HeldStays ==
    ASSUME TypeOK, \A r \in Requests : Hands(r) /\ Command(r),
           \A k \in Keys : Kept(k), [Next]_vars,
           NEW k \in Keys, NEW x \in Records \cup {NoRecord},
           InForce(x, clock) => server[k] # NoEntry /\ server[k].rec = x
    PROVE  InForce(x, clock') => server'[k] # NoEntry /\ server'[k].rec = x
BY ExpiryIsFinal, NotOverwritten

\* A record that a request holds in force is the one on the server: SETNX
\* writes over nothing that is in force, and the loser reads what is there.
LEMMA StepHeld ==
    ASSUME TypeOK, \A r \in Requests : Hands(r) /\ Command(r) /\ Held(r),
           \A k \in Keys : Kept(k), [Next]_vars
    PROVE  \A r \in Requests : Held(r)'
<1>k. \A r \in Requests : pc[r] # "idle" => Key(r) \in Keys
  BY DEF Hands, Key, Jobs, NoJob, TypeOK, EngineTypeOK
<1>o. ASSUME NEW q \in Requests, SameFor(q) PROVE Held(q)'
  <2>1. CASE pc[q] = "idle"
    BY <1>o, <2>1 DEF Held, SameFor, Hands, InForce
  <2>2. CASE pc[q] # "idle"
    <3>1. Key(q) \in Keys /\ rec[q] \in Records \cup {NoRecord}
                          /\ draft[q] \in Records \cup {NoRecord}
      BY <1>k, <2>2 DEF TypeOK, EngineTypeOK
    <3>2. InForce(rec[q], clock') =>
             server'[Key(q)] # NoEntry /\ server'[Key(q)].rec = rec[q]
      BY <3>1, HeldStays DEF Held
    <3>3. pc[q] = "setnx" /\ reply[q] = "created" /\ InForce(draft[q], clock') =>
             server'[Key(q)] # NoEntry /\ server'[Key(q)].rec = draft[q]
      BY <3>1, HeldStays DEF Held
    <3> QED
      BY <1>o, <3>2, <3>3 DEF Held, SameFor, Key
  <2> QED
    BY <2>1, <2>2
<1>1. CASE Tick /\ UNCHANGED redisVars
  BY <1>1, <1>o DEF Tick, redisVars, SameFor
<1>2. ASSUME NEW r \in Requests, Cancel(r), UNCHANGED redisVars
      PROVE  \A q \in Requests : Held(q)'
  BY <1>2, <1>o DEF Cancel, redisVars, SameFor
<1>3. ASSUME NEW r \in Requests, ClientCall(r), UNCHANGED redisVars
      PROVE  \A q \in Requests : Held(q)'
  <2>1. Held(r)'
    BY <1>3, CallFrame DEF Held, InForce
  <2> QED
    BY <1>3, <1>o, <2>1, CallFrame
<1>4. ASSUME NEW r \in Requests, ExecSetNX(r) PROVE \A q \in Requests : Held(q)'
  <2>1. \A q \in Requests \ {r} : SameFor(q)
    BY <1>4 DEF ExecSetNX, engineVars, SameFor, TypeOK
  <2>2. /\ UNCHANGED <<pc, job, rec, draft, clock, cmd>>
        /\ pc[r] # "idle" /\ Key(r) \in Keys
        /\ rec[r] \in Records \cup {NoRecord}
        /\ draft[r] \in Records \cup {NoRecord}
    BY <1>4, <1>k DEF ExecSetNX, engineVars, Command, TypeOK, EngineTypeOK
  <2>3. InForce(rec[r], clock') =>
           server'[Key(r)] # NoEntry /\ server'[Key(r)].rec = rec[r]
    BY <2>2, HeldStays DEF Held
  <2>4. pc[r] = "setnx" /\ reply'[r] = "created" /\ InForce(draft[r], clock') =>
           server'[Key(r)] # NoEntry /\ server'[Key(r)].rec = draft[r]
    <3> SUFFICES ASSUME pc[r] = "setnx", reply'[r] = "created", InForce(draft[r], clock')
                 PROVE  server'[Key(r)] # NoEntry /\ server'[Key(r)].rec = draft[r]
      OBVIOUS
    <3>1. CASE reply[r] = "created"
      BY <2>2, <3>1, HeldStays DEF Held
    <3>2. CASE reply[r] # "created"
      <4>1. ~Present(Key(r))
        BY <1>4, <3>2 DEF ExecSetNX, TypeOK
      <4>2. cmd[r].rec = draft[r]
        BY DEF Command
      <4> QED
        BY <1>4, <2>2, <4>1, <4>2, Written DEF TypeOK
    <3> QED
      BY <3>1, <3>2
  <2>5. Held(r)'
    BY <2>2, <2>3, <2>4 DEF Held, Key
  <2> QED
    BY <1>o, <2>1, <2>5
<1>5. ASSUME NEW r \in Requests, RequestStep(r) PROVE \A q \in Requests : Held(q)'
  <2>f. clock' = clock /\ job' = job /\ server' = server
    BY <1>5, RequestFrame
  <2> SUFFICES Held(r)'
    BY <1>5, <1>o, RequestFrame
  <2> USE DEF TypeOK, EngineTypeOK, Held, Key, Goto, Finish, redisVars
  <2>n. ~InForce(NoRecord, clock)
    BY DEF InForce
  <2>1. CASE Get(r)
    BY <2>1, <2>f, <2>n DEF Get, Present
  <2>2. CASE GetWinner(r)
    BY <2>2, <2>f DEF GetWinner, Present
  <2>3. CASE SendSetNX(r)
    BY <2>3, <2>f DEF SendSetNX, Command
  <2>4. CASE SaveTooLate(r)
    BY <2>4, <2>f DEF SaveTooLate
  <2>5. CASE ResendSetNX(r)
    BY <2>5, <2>f DEF ResendSetNX, engineVars
  <2>6. CASE RecvSetNX(r)
    BY <2>6, <2>f DEF RecvSetNX
  <2>7. CASE RedisFail(r)
    BY <2>7, <2>f DEF RedisFail
  <2>8. CASE CtxFail(r) /\ UNCHANGED redisVars
    BY <2>8, <2>f, <2>n DEF CtxFail
  <2>9. CASE (ReadLive(r) \/ ReadAbsent(r)) /\ UNCHANGED redisVars
    BY <2>9, <2>f, <2>n DEF ReadLive, ReadAbsent
  <2>10. CASE (MaskStep(r) \/ DetectFail(r)) /\ UNCHANGED redisVars
    BY <2>10, <2>f DEF MaskStep, DetectFail
  <2>11. CASE (SaveLive(r) \/ SaveExpired(r)) /\ UNCHANGED redisVars
    BY <2>11, <2>f, <2>n DEF SaveLive, SaveExpired
  <2>12. CASE Respond(r) /\ UNCHANGED redisVars
    BY <2>12, <2>f DEF Respond
  <2> QED
    BY <1>5, <2>1, <2>2, <2>3, <2>4, <2>5, <2>6, <2>7, <2>8, <2>9, <2>10, <2>11,
       <2>12 DEF RequestStep, Serve, EngineStep
<1>6. CASE UNCHANGED vars
  BY <1>6, <1>o DEF vars, engineVars, redisVars, SameFor
<1> QED
  BY <1>1, <1>2, <1>3, <1>4, <1>5, <1>6 DEF Next, Environment

-----------------------------------------------------------------------------
(* One command of each request *)

\* A command is sent once, and never replaced.
LEMMA CommandStays ==
    ASSUME TypeOK, \A r \in Requests : Hands(r) /\ Command(r), [Next]_vars,
           NEW q \in Requests, cmd[q] # NoEntry
    PROVE  cmd'[q] = cmd[q]
<1>1. ASSUME NEW r \in Requests, SendSetNX(r) PROVE cmd'[q] = cmd[q]
  <2>1. q # r
    BY <1>1 DEF SendSetNX, Command
  <2> QED
    BY <1>1, <2>1 DEF SendSetNX, TypeOK
<1>2. ASSUME NEW r \in Requests, RequestStep(r), ~SendSetNX(r) PROVE cmd' = cmd
  BY <1>2 DEF RequestStep, Serve, Get, GetWinner, SaveTooLate, ResendSetNX, RecvSetNX,
     RedisFail, redisVars
<1>3. ASSUME NEW r \in Requests, ExecSetNX(r) PROVE cmd' = cmd
  BY <1>3 DEF ExecSetNX
<1> QED
  BY <1>1, <1>2, <1>3 DEF Next, Environment, vars, redisVars

\* What is read from the server was sent there, and what a request holds as its
\* own is what it sent: no request is the author of two records.
LEMMA StepOneCommand ==
    ASSUME TypeOK, \A r \in Requests : Hands(r) /\ Command(r), OneCommandEach,
           [Next]_vars
    PROVE  OneCommandEach'
<1> DEFINE SentNext(x) == cmd'[x.id] # NoEntry /\ cmd'[x.id].rec = x
<1>s. ASSUME NEW x \in Records, Sent(x) PROVE SentNext(x)
  <2>1. x.id \in Requests
    BY DEF Records
  <2> QED
    BY <1>s, <2>1, CommandStays DEF Sent
<1>c. ASSUME NEW r \in Requests, cmd[r] # NoEntry
      PROVE  cmd[r].rec \in Records /\ Sent(cmd[r].rec)
  <2>1. cmd[r].rec.id = r
    BY <1>c, MadeOfFields DEF Command, MadeBy
  <2> QED
    BY <1>c, <2>1 DEF Sent, Commands, TypeOK
<1>k. ASSUME NEW k \in Keys, server[k] # NoEntry
      PROVE  server[k].rec \in Records /\ Sent(server[k].rec)
  BY <1>k DEF OneCommandEach, Entries, TypeOK
<1>1. ASSUME NEW k \in Keys, server'[k] # NoEntry PROVE SentNext(server'[k].rec)
  <2>1. CASE server'[k] = server[k]
    BY <1>1, <1>k, <1>s, <2>1
  <2>2. CASE server'[k] # server[k]
    <3>1. PICK r \in Requests : ExecSetNX(r)
      BY <2>2, ServerWriter
    <3>2. cmd[r] # NoEntry /\ server'[k].rec = cmd[r].rec
      <4>1. ~Present(Key(r))
        BY <2>2, <3>1 DEF ExecSetNX
      <4> QED
        BY <2>2, <3>1, <4>1, Written DEF TypeOK, ExecSetNX, Command
    <3> QED
      BY <1>c, <1>s, <3>2
  <2> QED
    BY <2>1, <2>2
<1>2. ASSUME NEW q \in Requests, rec'[q] # NoRecord PROVE SentNext(rec'[q])
  <2>1. CASE rec'[q] = rec[q]
    BY <1>2, <1>s, <2>1 DEF OneCommandEach, TypeOK, EngineTypeOK
  <2>2. CASE rec'[q] # rec[q]
    <3>1. RequestStep(q)
      <4>1. ASSUME NEW r \in Requests, RequestStep(r), r # q PROVE FALSE
        BY <2>2, <4>1, RequestFrame DEF SameFor
      <4>2. ASSUME NEW r \in Requests, ClientCall(r), UNCHANGED redisVars PROVE FALSE
        BY <2>2, <4>2, CallFrame
      <4> QED
        BY <2>2, <4>1, <4>2
        DEF Next, Environment, Tick, Cancel, ExecSetNX, engineVars, vars
    <3>2. Key(q) \in Keys
      BY <3>1 DEF RequestStep, Serve, Get, GetWinner, SendSetNX, SaveTooLate, ResendSetNX,
         RecvSetNX, RedisFail, EngineStep, CtxFail, ReadLive, ReadAbsent, MaskStep,
         DetectFail, SaveLive, SaveExpired, Respond, Hands, Key, Jobs, NoJob, TypeOK,
         EngineTypeOK
    <3>3. CASE Get(q) \/ GetWinner(q)
      <4>1. server[Key(q)] # NoEntry /\ rec'[q] = server[Key(q)].rec
        BY <1>2, <2>2, <3>3 DEF Get, GetWinner, Present, TypeOK, EngineTypeOK
      <4> QED
        BY <1>k, <1>s, <3>2, <4>1
    <3>4. CASE RecvSetNX(q)
      <4>1. cmd[q] # NoEntry /\ rec'[q] = cmd[q].rec
        BY <2>2, <3>4 DEF RecvSetNX, Command, TypeOK, EngineTypeOK
      <4> QED
        BY <1>c, <1>s, <4>1
    <3> QED
      BY <1>2, <2>2, <3>1, <3>3, <3>4
      DEF RequestStep, Serve, SendSetNX, SaveTooLate, ResendSetNX, RedisFail, EngineStep,
          CtxFail, ReadLive, ReadAbsent, MaskStep, DetectFail, SaveLive, SaveExpired, Respond,
          TypeOK, EngineTypeOK, engineVars
  <2> QED
    BY <2>1, <2>2
<1> QED
  BY <1>1, <1>2 DEF OneCommandEach, Sent

-----------------------------------------------------------------------------
(* The safety invariants *)

\* Who answers from a record either did so before or accepts it now, in force.
LEMMA Observation ==
    ASSUME TypeOK, \A r \in Requests : Hands(r), [Next]_vars,
           NEW q \in Requests, Observed(q)'
    PROVE  /\ rec'[q] = rec[q] /\ job'[q] = job[q]
           /\ \/ Observed(q) /\ obs'[q] = obs[q]
              \/ InForce(rec[q], clock) /\ obs'[q] = clock
<1> DEFINE Goal == /\ rec'[q] = rec[q] /\ job'[q] = job[q]
                   /\ \/ Observed(q) /\ obs'[q] = obs[q]
                      \/ InForce(rec[q], clock) /\ obs'[q] = clock
<1>o. SameFor(q) => Goal
  BY DEF SameFor, Observed
<1>1. CASE Tick /\ UNCHANGED redisVars
  BY <1>1, <1>o DEF Tick, redisVars, SameFor
<1>2. ASSUME NEW r \in Requests, Cancel(r), UNCHANGED redisVars PROVE Goal
  BY <1>2, <1>o DEF Cancel, redisVars, SameFor
<1>3. ASSUME NEW r \in Requests, ClientCall(r), UNCHANGED redisVars PROVE Goal
  BY <1>3, <1>o, CallFrame DEF Observed
<1>4. ASSUME NEW r \in Requests, ExecSetNX(r) PROVE Goal
  BY <1>4 DEF ExecSetNX, engineVars, Observed
<1>5. ASSUME NEW r \in Requests, RequestStep(r) PROVE Goal
  <2>1. CASE q # r
    BY <1>5, <1>o, <2>1, RequestFrame
  <2>2. CASE q = r
    <3> USE DEF TypeOK, EngineTypeOK, Hands, Observed, Goto, Finish
    <3>1. CASE Get(q) \/ GetWinner(q) \/ SendSetNX(q) \/ SaveTooLate(q)
      BY <3>1 DEF Get, GetWinner, SendSetNX, SaveTooLate
    <3>2. CASE ResendSetNX(q) \/ RecvSetNX(q)
      BY <3>2 DEF ResendSetNX, RecvSetNX, engineVars
    <3>3. CASE RedisFail(q) \/ CtxFail(q)
      BY <3>3 DEF RedisFail, CtxFail
    <3>4. CASE ReadLive(q) \/ ReadAbsent(q)
      BY <3>4 DEF ReadLive, ReadAbsent
    <3>5. CASE MaskStep(q) \/ DetectFail(q)
      BY <3>5 DEF MaskStep, DetectFail
    <3>6. CASE SaveLive(q) \/ SaveExpired(q)
      BY <3>6 DEF SaveLive, SaveExpired, InForce
    <3>7. CASE Respond(q)
      BY <3>7 DEF Respond
    <3> QED
      BY <1>5, <2>2, <3>1, <3>2, <3>3, <3>4, <3>5, <3>6, <3>7
      DEF RequestStep, Serve, EngineStep
  <2> QED
    BY <2>1, <2>2
<1>6. CASE UNCHANGED vars
  BY <1>6, <1>o DEF vars, engineVars, redisVars, SameFor
<1> QED
  BY <1>1, <1>2, <1>3, <1>4, <1>5, <1>6 DEF Next, Environment

\* A request observes a record in force; whoever observed another one under
\* the key held a record that is in force no longer.
LEMMA StepOneBinding ==
    ASSUME TypeOK, \A r \in Requests : Hands(r) /\ Held(r),
           OneBindingAtATime, [Next]_vars
    PROVE  OneBindingAtATime'
<1> SUFFICES ASSUME NEW p \in Requests, NEW q \in Requests,
                    Observed(p)', Observed(q)', Key(p)' = Key(q)', rec'[p] # rec'[q]
             PROVE  Expired(rec'[p], obs'[q]) \/ Expired(rec'[q], obs'[p])
  BY DEF OneBindingAtATime, Expired
<1>1. /\ rec'[p] = rec[p] /\ rec'[q] = rec[q] /\ rec[p] # rec[q] /\ Key(p) = Key(q)
      /\ rec[p] # NoRecord /\ rec[q] # NoRecord
  BY Observation DEF Key, Observed
<1>2. InForce(rec[p], clock) => ~InForce(rec[q], clock)
  BY <1>1 DEF Held
<1>3. CASE obs'[p] = clock /\ InForce(rec[p], clock)
  BY <1>1, <1>2, <1>3 DEF InForce
<1>4. CASE obs'[q] = clock /\ InForce(rec[q], clock)
  BY <1>1, <1>2, <1>4 DEF InForce
<1>5. CASE Observed(p) /\ obs'[p] = obs[p] /\ Observed(q) /\ obs'[q] = obs[q]
  BY <1>1, <1>5 DEF OneBindingAtATime
<1> QED
  BY <1>3, <1>4, <1>5, Observation

\* A conflict is answered from the record the request holds.
LEMMA ConflictAnswer ==
    ASSUME TypeOK, \A r \in Requests : Hands(r), [Next]_vars,
           NEW q \in Requests, ans'[q].kind = "conflict", ans'[q] # ans[q]
    PROVE  /\ rec[q] \in Records /\ job[q] \in Jobs /\ job'[q] = job[q]
           /\ ans'[q] = AnswerFrom(rec[q], job[q])
<1>1. PICK r \in Requests : RequestStep(r)
  <2>1. ASSUME NEW r \in Requests, ClientCall(r), UNCHANGED redisVars PROVE FALSE
    BY <2>1, CallFrame DEF SameFor, Failure
  <2> QED
    BY <2>1 DEF Next, Environment, Tick, Cancel, ExecSetNX, vars, engineVars
<1>2. q = r
  BY <1>1, RequestFrame DEF SameFor
<1> USE DEF TypeOK, EngineTypeOK, Goto, Finish, Failure
<1>3. ~(Get(q) \/ GetWinner(q) \/ SendSetNX(q) \/ SaveTooLate(q))
  BY DEF Get, GetWinner, SendSetNX, SaveTooLate
<1>4. ~(ResendSetNX(q) \/ RecvSetNX(q))
  BY DEF ResendSetNX, RecvSetNX, engineVars
<1>5. ~(RedisFail(q) \/ CtxFail(q) \/ ReadLive(q) \/ ReadAbsent(q))
  BY DEF RedisFail, CtxFail, ReadLive, ReadAbsent
<1>6. ~(MaskStep(q) \/ DetectFail(q) \/ SaveLive(q) \/ SaveExpired(q))
  BY DEF MaskStep, DetectFail, SaveLive, SaveExpired
<1>7. Respond(q)
  BY <1>1, <1>2, <1>3, <1>4, <1>5, <1>6 DEF RequestStep, Serve, EngineStep
<1> QED
  BY <1>7 DEF Respond, Hands, NoJob

\* The record brought its text under the key, and it is another text.
LEMMA StepConflict ==
    ASSUME TypeOK, \A r \in Requests : Hands(r), ConflictHasACause, [Next]_vars
    PROVE  ConflictHasACause'
<1> SUFFICES ASSUME NEW r \in Requests, ans'[r].kind = "conflict"
             PROVE  \E q \in Requests : /\ job'[q] # NoJob
                                        /\ job'[q].key = job'[r].key
                                        /\ job'[q].text # job'[r].text
  BY DEF ConflictHasACause
<1>1. CASE ans'[r] = ans[r]
  <2>1. PICK q \in Requests : /\ job[q] # NoJob
                              /\ job[q].key = job[r].key
                              /\ job[q].text # job[r].text
    BY <1>1 DEF ConflictHasACause
  <2>2. job[r] # NoJob
    BY <1>1 DEF Hands, Failure
  <2> QED
    BY <2>1, <2>2, JobsStay
<1>2. CASE ans'[r] # ans[r]
  <2>1. /\ rec[r] \in Records /\ job[r] \in Jobs /\ job'[r] = job[r]
        /\ ans'[r] = AnswerFrom(rec[r], job[r])
    BY <1>2, ConflictAnswer
  <2>2. rec[r].original # job[r].text
    BY <2>1, AnswerType
  <2>3. /\ MadeOf(rec[r], rec[r].id, job[rec[r].id], clock)
        /\ job[rec[r].id].key = job[r].key
    BY <2>1, NoRecordAssumption DEF Hands, MadeUnder, MadeBy, Key
  <2>4. rec[r].id \in Requests
    BY <2>1 DEF Records
  <2>5. job[rec[r].id] # NoJob /\ job[rec[r].id].text = rec[r].original
    BY <2>3, MadeOfFields
  <2>6. job'[rec[r].id] = job[rec[r].id]
    BY <2>4, <2>5, JobsStay
  <2> QED
    BY <2>1, <2>2, <2>3, <2>4, <2>5, <2>6
<1> QED
  BY <1>1, <1>2

\* With no request and an empty server the invariant holds vacuously.
LEMMA InitInv == Init => IInv
<1> SUFFICES ASSUME Init PROVE IInv
  OBVIOUS
<1>1. TypeOK
  BY InitType
<1>2. \A r \in Requests : Hands(r)
  <2> SUFFICES ASSUME NEW r \in Requests
               PROVE  /\ job[r] = NoJob /\ pc[r] = "idle"
                      /\ ans[r] = Failure("none") /\ rec[r] = NoRecord
                      /\ obs[r] <= clock
    BY DEF Hands
  <2> QED
    BY DEF Init, EngineInit
<1>3. \A r \in Requests : Command(r) /\ Held(r)
  <2> SUFFICES ASSUME NEW r \in Requests PROVE Command(r) /\ Held(r)
    OBVIOUS
  <2>1. /\ pc[r] = "idle" /\ cmd[r] = NoEntry /\ flying[r] = 0
        /\ reply[r] = "none" /\ rec[r] = NoRecord
    BY DEF Init, EngineInit
  <2>2. ~(flying[r] > 0)
    BY <2>1
  <2>3. Command(r)
    BY <2>1, <2>2 DEF Command
  <2>4. Held(r)
    BY <2>1 DEF Held, InForce
  <2> QED
    BY <2>3, <2>4
<1>4. \A k \in Keys : Kept(k)
  BY DEF Init, Kept
<1>5. OneBindingAtATime
  BY DEF Init, EngineInit, OneBindingAtATime, Observed
<1>6. ConflictHasACause
  BY DEF Init, EngineInit, ConflictHasACause, Failure
<1>7. OneCommandEach
  BY DEF Init, EngineInit, OneCommandEach
<1> QED
  BY <1>1, <1>2, <1>3, <1>4, <1>5, <1>6, <1>7 DEF IInv

\* No step breaks the invariant.
LEMMA StepInv ==
    ASSUME IInv, [Next]_vars
    PROVE  IInv'
<1> USE DEF IInv
<1>1. TypeOK' /\ \A r \in Requests : Hands(r)'
  BY StepType, StepHands
<1>2. \A r \in Requests : Command(r)' /\ Held(r)'
  BY StepCommand, StepHeld
<1>3. \A k \in Keys : Kept(k)'
  BY StepKept
<1>4. OneBindingAtATime' /\ ConflictHasACause'
  BY StepOneBinding, StepConflict
<1>5. OneCommandEach'
  BY StepOneCommand
<1> QED
  BY <1>1, <1>2, <1>3, <1>4, <1>5

\* The inductive invariant holds in every reachable state of the engine over
\* Redis, whatever commands and replies are lost, repeated or late.
THEOREM Invariance == Spec => []IInv
<1>1. Init => IInv
  BY InitInv
<1>2. IInv /\ [Next]_vars => IInv'
  BY StepInv
<1> QED
  BY <1>1, <1>2, PTL DEF Spec

\* Every variable keeps its type, commands and entries included.
THEOREM TypeCorrectness == Spec => []TypeOK
<1>1. IInv => TypeOK
  BY DEF IInv
<1> QED
  BY <1>1, Invariance, PTL

\* No two backends answer from two bindings of one key that were both in force.
THEOREM OneBinding == Spec => []OneBindingAtATime
<1>1. IInv => OneBindingAtATime
  BY DEF IInv
<1> QED
  BY <1>1, Invariance, PTL

\* A retry is never answered 409: some call brought another text under the key.
THEOREM ConflictsAreReal == Spec => []ConflictHasACause
<1>1. IInv => ConflictHasACause
  BY DEF IInv
<1> QED
  BY <1>1, Invariance, PTL

-----------------------------------------------------------------------------
(* The engine over Redis implements ContextRegister.  What Redis keeps     *)
(* refines to the bindings in force; ExecSetNX is the step that binds,     *)
(* also when its request has given up, and the expiry tests of read and    *)
(* save are the ones that observe.                                         *)

\* The refinement mapping of the server and of the requests' hands.
Bound == [k \in Keys |-> LiveBinding(k)]

Seen == [r \in Requests |->
            IF pc[r] \in {"respond", "done"} THEN rec[r] ELSE NoRecord]

\* The data of the register are those of the engine.
LEMMA SameData ==
    /\ Register!Keys = Keys
    /\ Register!Jobs = Jobs
    /\ \A x, t : Register!Expired(x, t) <=> Expired(x, t)
    /\ \A x, t : Register!InForce(x, t) <=> InForce(x, t)
    /\ \A kind : Register!Failure(kind) = Failure(kind)
    /\ \A x, j : Register!AnswerFrom(x, j) = AnswerFrom(x, j)
    /\ \A r, text, pol, force, t :
          Register!NewRecord(r, text, pol, force, t) = NewRecord(r, text, pol, force, t)
    /\ \A text, masked, pol :
          Register!Verified(text, masked, pol) <=> Verified(text, masked, pol)
<1>1. Register!Keys = Keys
  BY DEF Keys, Register!Keys, Namespaces, Register!Namespaces
<1>2. Register!Jobs = Jobs
  <2>1. Register!Texts = Texts
    BY DEF Markers, Register!Markers, Fragments, Register!Fragments, Texts, Register!Texts
  <2>2. Register!Policies = Policies
    BY DEF Policies, Register!Policies
  <2>3. Register!Operations = Operations
    BY DEF Operations, Register!Operations
  <2> QED
    BY <1>1, <2>1, <2>2, <2>3 DEF Jobs, Register!Jobs
<1>3. \A x, t : Register!Expired(x, t) <=> Expired(x, t)
  BY DEF Expired, Register!Expired
<1>4. \A x, t : Register!InForce(x, t) <=> InForce(x, t)
  BY DEF InForce, Register!InForce, Expired, Register!Expired
<1>5. \A kind : Register!Failure(kind) = Failure(kind)
  BY DEF Failure, Register!Failure
<1>6. \A x, j : Register!AnswerFrom(x, j) = AnswerFrom(x, j)
  BY DEF AnswerFrom, Register!AnswerFrom, processExisting, Register!processExisting,
     MaskExisting, Register!MaskExisting, DemaskExisting, Register!DemaskExisting,
     ExactEcho, Register!ExactEcho, restoreTokens, Register!restoreTokens, Sanitize,
     Register!Sanitize, Detect, Register!Detect, Success, Register!Success, Failure,
     Register!Failure
<1>7. \A r, text, pol, force, t :
          Register!NewRecord(r, text, pol, force, t) = NewRecord(r, text, pol, force, t)
  BY DEF NewRecord, Register!NewRecord, MaskedText, Register!MaskedText, Detect,
     Register!Detect, UseTokens, Register!UseTokens, Replacement, Register!Replacement,
     TransformMap, Register!TransformMap
<1>8. \A text, masked, pol :
          Register!Verified(text, masked, pol) <=> Verified(text, masked, pol)
  BY DEF Verified, Register!Verified, Detect, Register!Detect
<1> QED
  BY <1>1, <1>2, <1>3, <1>4, <1>5, <1>6, <1>7, <1>8

\* The empty server is the empty register.
LEMMA RefInit ==
    ASSUME Init
    PROVE  Register!Init
<1>1. Bound = [k \in Keys |-> NoRecord]
  BY DEF Init, Bound, LiveBinding, Present
<1>2. Seen = [r \in Requests |-> NoRecord]
  BY DEF Init, EngineInit, Seen
<1> QED
  BY <1>1, <1>2, SameData DEF Register!Init, Init, EngineInit, Bound, Seen, NoJob

\* The register does not move when no binding does and no request observes or
\* answers.
Stutter == UNCHANGED <<clock, job, Bound, Seen, ans>>

\* The same, in the terms of the instantiated module.
LEMMA StutterIsStutter == Stutter => UNCHANGED Register!registerVars
BY DEF Stutter, Register!registerVars, Bound, Seen

\* What Redis keeps of an expired record binds nothing, and what it keeps of a
\* record in force binds it: the entry is there at least as long.
LEMMA BoundIsKept ==
    ASSUME TypeOK, \A k \in Keys : Kept(k), NEW k \in Keys
    PROVE  LiveBinding(k) =
              IF server[k] # NoEntry /\ InForce(server[k].rec, clock)
              THEN server[k].rec ELSE NoRecord
<1> SUFFICES ASSUME server[k] # NoEntry, InForce(server[k].rec, clock) PROVE Present(k)
  BY DEF LiveBinding, Present
<1>1. server[k] \in Entries /\ clock \in Nat
  BY DEF TypeOK, EngineTypeOK
<1>2. server[k].rec.expires \in Nat /\ server[k].drop \in Nat
  BY <1>1 DEF Entries, Records
<1>3. server[k].rec.expires <= server[k].drop
  BY DEF Kept
<1> QED
  BY <1>1, <1>2, <1>3 DEF Present, InForce, Expired

\* A SETNX that wins with a record in force binds it; one that loses, or comes
\* too late for its own record, changes nothing.
LEMMA RefExec ==
    ASSUME IInv, NEW r \in Requests, ExecSetNX(r)
    PROVE  Register!Bind(r) \/ Stutter
<1>t. TypeOK /\ (\A q \in Requests : Hands(q) /\ Command(q)) /\ (\A k \in Keys : Kept(k))
  BY DEF IInv
<1>1. UNCHANGED <<clock, job, Seen, ans>>
  BY DEF ExecSetNX, engineVars, Seen
<1>2. CASE Present(Key(r))
  <2>1. server' = server
    BY <1>2 DEF ExecSetNX
  <2>2. Bound' = Bound
    BY <1>1, <2>1 DEF Bound, LiveBinding, Present
  <2> QED
    BY <1>1, <2>2 DEF Stutter
<1>3. CASE ~Present(Key(r))
  <2>k. PICK k \in Keys : k = Key(r)
    BY <1>t, <1>3, Written
  <2> DEFINE new == [rec |-> cmd[r].rec, seal |-> cmd[r].seal, drop |-> clock + cmd[r].ttl]
  <2>1. /\ k \in Keys /\ cmd[r] \in Commands /\ cmd[r].rec \in Records
        /\ MadeOf(cmd[r].rec, r, job[r], clock)
        /\ cmd[r].rec.expires <= clock + cmd[r].ttl
        /\ server' = [server EXCEPT ![k] = new]
        /\ server'[k] # NoEntry
    BY <1>t, <1>3, <2>k, Written
  <2>2. server'[k] = new /\ \A j \in Keys : j # k => server'[j] = server[j]
    BY <1>t, <2>1 DEF TypeOK
  <2>3. \A j \in Keys : j # k => LiveBinding(j)' = LiveBinding(j)
    BY <1>1, <2>2 DEF LiveBinding, Present
  <2>4. LiveBinding(k) = NoRecord
    BY <1>3, <2>k DEF LiveBinding
  <2>5. clock < new.drop \/ ~InForce(cmd[r].rec, clock)
    <3>1. clock \in Nat /\ cmd[r].ttl \in Nat /\ cmd[r].rec.expires \in Nat
      BY <1>t, <2>1 DEF TypeOK, EngineTypeOK, Commands, Records
    <3> QED
      BY <2>1, <3>1 DEF InForce, Expired
  <2>6. LiveBinding(k)' = IF InForce(cmd[r].rec, clock) THEN cmd[r].rec ELSE NoRecord
    <3>1. server'[k].rec = cmd[r].rec /\ server'[k].drop = new.drop /\ clock' = clock
      BY <1>1, <2>2
    <3> QED
      BY <2>1, <2>5, <3>1 DEF LiveBinding, Present
  <2>7. CASE InForce(cmd[r].rec, clock)
    <3>1. Bound' = [Bound EXCEPT ![k] = cmd[r].rec]
      BY <2>1, <2>3, <2>6, <2>7 DEF Bound
    <3>2. Bound[job[r].key] = NoRecord
      BY <2>k, <2>1, <2>4 DEF Bound, Key
    <3>3. ans[r].kind \notin {"invalid", "detection"}
      BY <1>t DEF ExecSetNX, Command
    <3>s. Seen[r] = NoRecord \/ Seen[r].id # r
      <4> SUFFICES ASSUME Seen[r] # NoRecord, Seen[r].id = r PROVE FALSE
        OBVIOUS
      <4>1. rec[r] # NoRecord /\ rec[r].id = r
        BY DEF Seen
      <4>2. cmd[r].rec = rec[r]
        BY <4>1 DEF IInv, OneCommandEach, Sent
      <4>3. server[k] # NoEntry /\ server[k].rec = rec[r]
        BY <2>k, <2>7, <4>2 DEF IInv, Held
      <4>4. LiveBinding(k) = rec[r]
        BY <1>t, <2>1, <2>7, <4>2, <4>3, BoundIsKept
      <4> QED
        BY <2>4, <4>1, <4>4
    <3>4. PICK t \in 0..clock :
             cmd[r].rec = NewRecord(r, job[r].text, job[r].pol, job[r].op = "mask", t)
      BY <2>1 DEF MadeOf
    <3>5. /\ Verified(job[r].text, cmd[r].rec.masked, job[r].pol)
          /\ ~Expired(cmd[r].rec, clock)
          /\ job[r].op # "demask" /\ job[r] # NoRecord
      BY <2>1, <2>7 DEF MadeOf, InForce, NoJob
    <3>6. Register!Bind(r)
      BY <1>1, <2>k, <3>1, <3>2, <3>3, <3>s, <3>4, <3>5, SameData
      DEF Register!Bind, Bound, Seen, Key
    <3> QED
      BY <3>6
  <2>8. CASE ~InForce(cmd[r].rec, clock)
    <3>1. Bound' = Bound
      BY <2>1, <2>3, <2>4, <2>6, <2>8 DEF Bound
    <3> QED
      BY <1>1, <3>1 DEF Stutter
  <2> QED
    BY <2>7, <2>8
<1> QED
  BY <1>2, <1>3

\* Every step of a request is one of the register, or none.
LEMMA RefRequest ==
    ASSUME IInv, NEW r \in Requests, RequestStep(r)
    PROVE  Register!Observe(r) \/ Register!Answer(r) \/ Register!Fail(r) \/ Stutter
<1> DEFINE Goal ==
       Register!Observe(r) \/ Register!Answer(r) \/ Register!Fail(r) \/ Stutter
<1>t. TypeOK /\ Hands(r) /\ Held(r) /\ (\A k \in Keys : Kept(k))
  BY DEF IInv
<1>f. clock' = clock /\ job' = job /\ server' = server
  BY <1>t, RequestFrame
<1>b. Bound' = Bound
  BY <1>f DEF Bound, LiveBinding, Present
<1>k. pc[r] # "idle" => Key(r) \in Keys /\ job[r] \in Jobs
  BY <1>t DEF TypeOK, EngineTypeOK, Hands, Key, Jobs, NoJob
<1>p. pc[r] \notin {"idle", "done"} => Register!Pending(r)
  BY <1>t DEF Hands, Register!Pending, NoJob, Failure
\* A step that nobody sees.
<1>s. Seen' = Seen /\ ans' = ans => Goal
  BY <1>f, <1>b DEF Stutter
\* A step that only ends the call with a failure.
<1>x. ASSUME NEW kind \in {"ctx", "store", "detection", "gone"},
             pc[r] \notin {"idle", "done"},
             kind = "gone" => job[r].op = "demask" /\ Seen[r] = NoRecord,
             ans' = [ans EXCEPT ![r] = Failure(kind)], Seen' = Seen
      PROVE  Goal
  <2>1. Register!Fail(r)
    BY <1>x, <1>p, <1>f, <1>b, SameData DEF Register!Fail, Bound, Seen
  <2> QED
    BY <2>1
\* A step that accepts the record the request holds.
<1>o. ASSUME pc[r] \in {"got", "saved"}, InForce(rec[r], clock),
             pc' = [pc EXCEPT ![r] = "respond"], UNCHANGED <<rec, ans>>
      PROVE  Goal
  <2>1. Key(r) \in Keys /\ server[Key(r)] # NoEntry /\ server[Key(r)].rec = rec[r]
    BY <1>o, <1>t, <1>k DEF Held
  <2>2. Bound[job[r].key] = rec[r] /\ rec[r] # NoRecord
    <3>1. LiveBinding(Key(r)) = rec[r]
      BY <1>o, <1>t, <2>1, BoundIsKept
    <3> QED
      BY <1>o, <2>1, <3>1 DEF Bound, Key, InForce
  <2>3. Seen[r] = NoRecord
    BY <1>o DEF Seen
  <2>4. Seen' = [Seen EXCEPT ![r] = rec[r]]
    BY <1>o, <1>t DEF Seen, TypeOK, EngineTypeOK
  <2>5. Register!Observe(r)
    BY <1>o, <1>p, <1>f, <1>b, <2>2, <2>3, <2>4 DEF Register!Observe, Bound, Seen
  <2> QED
    BY <2>5
<1> USE DEF Goto, Finish, TypeOK, EngineTypeOK
<1>1. CASE Get(r)
  <2>1. Seen' = Seen
    BY <1>1, <1>t DEF Get, Seen, Hands
  <2> QED
    BY <1>1, <1>s, <1>x, <2>1 DEF Get
<1>2. CASE GetWinner(r)
  <2>1. Seen' = Seen
    BY <1>2, <1>t DEF GetWinner, Seen, Hands
  <2> QED
    BY <1>2, <1>s, <1>x, <2>1 DEF GetWinner
<1>3. CASE SendSetNX(r)
  <2>1. Seen' = Seen /\ ans' = ans
    BY <1>3, <1>t DEF SendSetNX, Seen
  <2> QED
    BY <1>s, <2>1
<1>4. CASE SaveTooLate(r)
  <2>1. Seen' = Seen
    BY <1>4, <1>t DEF SaveTooLate, Seen, Hands
  <2> QED
    BY <1>4, <1>x, <2>1 DEF SaveTooLate
<1>5. CASE ResendSetNX(r)
  BY <1>5, <1>s DEF ResendSetNX, engineVars, Seen
<1>6. CASE RecvSetNX(r)
  <2>1. Seen' = Seen /\ ans' = ans
    BY <1>6, <1>t DEF RecvSetNX, Seen
  <2> QED
    BY <1>s, <2>1
<1>7. CASE RedisFail(r)
  <2>1. Seen' = Seen
    BY <1>7, <1>t DEF RedisFail, Seen, Hands
  <2> QED
    BY <1>7, <1>x, <2>1 DEF RedisFail
<1>8. CASE CtxFail(r)
  <2>1. Seen' = Seen
    BY <1>8, <1>t DEF CtxFail, Seen
  <2> QED
    BY <1>8, <1>x, <2>1 DEF CtxFail
<1>9. CASE ReadLive(r)
  BY <1>9, <1>o DEF ReadLive
<1>10. CASE ReadAbsent(r)
  <2>1. Seen' = Seen /\ Seen[r] = NoRecord
    BY <1>10, <1>t DEF ReadAbsent, Seen
  <2> QED
    BY <1>10, <1>s, <1>x, <2>1 DEF ReadAbsent
<1>11. CASE MaskStep(r)
  <2>1. Seen' = Seen
    BY <1>11, <1>t DEF MaskStep, Seen, Hands
  <2> QED
    BY <1>11, <1>s, <1>x, <2>1 DEF MaskStep
<1>12. CASE DetectFail(r)
  <2>1. Seen' = Seen
    BY <1>12, <1>t DEF DetectFail, Seen, Hands
  <2> QED
    BY <1>12, <1>x, <2>1 DEF DetectFail
<1>13. CASE SaveLive(r)
  <2>1. InForce(rec[r], clock)
    BY <1>13, <1>t DEF SaveLive, Hands, InForce
  <2> QED
    BY <1>13, <1>o, <2>1 DEF SaveLive
<1>14. CASE SaveExpired(r)
  <2>1. Seen' = Seen
    BY <1>14, <1>t DEF SaveExpired, Seen
  <2> QED
    BY <1>14, <1>x, <2>1 DEF SaveExpired
<1>15. CASE Respond(r)
  <2>1. Seen' = Seen
    BY <1>15, <1>t DEF Respond, Seen
  <2>2. CASE ans' = [ans EXCEPT ![r] = Failure("ctx")]
    BY <1>15, <1>x, <2>1, <2>2 DEF Respond
  <2>3. CASE ans' = [ans EXCEPT ![r] = AnswerFrom(rec[r], job[r])]
    <3>1. Seen[r] = rec[r] /\ rec[r] # NoRecord
      BY <1>15, <1>t DEF Respond, Seen, Hands
    <3>2. Register!Answer(r)
      BY <1>15, <1>p, <1>f, <1>b, <2>1, <2>3, <3>1, SameData
      DEF Register!Answer, Respond, Bound, Seen
    <3> QED
      BY <3>2
  <2> QED
    BY <1>15, <2>2, <2>3 DEF Respond
<1> QED
  BY <1>1, <1>2, <1>3, <1>4, <1>5, <1>6, <1>7, <1>8, <1>9, <1>10, <1>11, <1>12,
     <1>13, <1>14, <1>15 DEF RequestStep, Serve, EngineStep

\* Every step of the engine and of Redis is one of the register, or none.
LEMMA RefStep ==
    ASSUME IInv, [Next]_vars
    PROVE  [Register!Next]_(Register!registerVars)
<1> DEFINE Goal == [Register!Next]_(Register!registerVars)
<1>t. TypeOK /\ (\A r \in Requests : Hands(r)) /\ (\A k \in Keys : Kept(k))
  BY DEF IInv
<1>s. Stutter => Goal
  BY StutterIsStutter
<1>u. UNCHANGED <<clock, server>> => Bound' = Bound
  BY DEF Bound, LiveBinding, Present
<1>1. CASE Tick /\ UNCHANGED redisVars
  <2>1. clock' = clock + 1 /\ server' = server /\ Seen' = Seen /\ UNCHANGED <<job, ans>>
    BY <1>1 DEF Tick, Seen, redisVars
  <2>2. \A k \in Keys : LiveBinding(k)' =
           IF InForce(LiveBinding(k), clock') THEN LiveBinding(k) ELSE NoRecord
    <3> SUFFICES ASSUME NEW k \in Keys
                 PROVE  LiveBinding(k)' =
                          IF InForce(LiveBinding(k), clock') THEN LiveBinding(k) ELSE NoRecord
      OBVIOUS
    <3>1. TypeOK' /\ \A j \in Keys : Kept(j)'
      BY StepInv DEF IInv
    <3>2. LiveBinding(k)' = IF server[k] # NoEntry /\ InForce(server[k].rec, clock')
                            THEN server[k].rec ELSE NoRecord
      <4>1. LiveBinding(k)' = IF server'[k] # NoEntry /\ InForce(server'[k].rec, clock')
                              THEN server'[k].rec ELSE NoRecord
        <5>1. server'[k] # NoEntry /\ InForce(server'[k].rec, clock') => Present(k)'
          <6> SUFFICES ASSUME server'[k] # NoEntry, InForce(server'[k].rec, clock')
                       PROVE  Present(k)'
            OBVIOUS
          <6>1. server'[k] \in Entries /\ clock' \in Nat
            BY <3>1 DEF TypeOK, EngineTypeOK
          <6>2. server'[k].rec.expires \in Nat /\ server'[k].drop \in Nat
            BY <6>1 DEF Entries, Records
          <6>3. server'[k].rec.expires <= server'[k].drop
            BY <3>1 DEF Kept
          <6> QED
            BY <6>1, <6>2, <6>3 DEF Present, InForce, Expired
        <5> QED
          BY <5>1 DEF LiveBinding, Present, InForce, Expired
      <4> QED
        BY <2>1, <4>1
    <3>3. LiveBinding(k) = IF server[k] # NoEntry /\ InForce(server[k].rec, clock)
                           THEN server[k].rec ELSE NoRecord
      BY <1>t, BoundIsKept
    <3>4. server[k] # NoEntry /\ InForce(server[k].rec, clock') => InForce(server[k].rec, clock)
      BY <1>t, ExpiryIsFinal DEF TypeOK, Entries
    <3> QED
      BY <3>2, <3>3, <3>4 DEF InForce
  <2>3. Register!Tick
    BY <2>1, <2>2, SameData DEF Register!Tick, Seen
  <2> QED
    BY <2>3 DEF Register!Next
<1>2. ASSUME NEW r \in Requests, Cancel(r), UNCHANGED redisVars PROVE Goal
  BY <1>2, <1>s, <1>u DEF Cancel, redisVars, Seen, Stutter
<1>3. ASSUME NEW r \in Requests, ClientCall(r), UNCHANGED redisVars PROVE Goal
  <2>1. PICK j \in ClientJobs : Begin(r, j)
    BY <1>3 DEF ClientCall
  <2>2. j \in Jobs
    BY <1>t, ClientJobType
  <2>3. job[r] = NoRecord /\ rec[r] = NoRecord /\ pc[r] = "idle"
    BY <1>t, <2>1 DEF Begin, Hands, NoJob
  <2>4. Seen' = Seen /\ Bound' = Bound /\ clock' = clock
    BY <1>3, <1>t, <1>u, <2>1, <2>3
    DEF Begin, Seen, Goto, Finish, TypeOK, EngineTypeOK, redisVars
  <2>5. job' = [job EXCEPT ![r] = j] /\ job'[r] = j
    BY <1>t, <2>1 DEF Begin, TypeOK, EngineTypeOK
  <2>6. ans' = IF j.pol.valid THEN ans ELSE [ans EXCEPT ![r] = Failure("invalid")]
    BY <2>1 DEF Begin, Finish
  <2>7. Register!Call(r)
    <3>0. j \in Register!Jobs
      BY <2>2, SameData
    <3>1. job'[r] \in Register!Jobs /\ job' = [job EXCEPT ![r] = job'[r]]
      BY <2>5, <3>0
    <3>2. ans' = IF job'[r].pol.valid THEN ans
                 ELSE [ans EXCEPT ![r] = Register!Failure("invalid")]
      BY <2>5, <2>6, SameData
    <3> QED
      BY <2>3, <2>4, <3>1, <3>2 DEF Register!Call, Seen, Bound
  <2> QED
    BY <2>7 DEF Register!Next
<1>4. ASSUME NEW r \in Requests, ExecSetNX(r) PROVE Goal
  BY <1>4, <1>s, RefExec DEF Register!Next
<1>5. ASSUME NEW r \in Requests, RequestStep(r) PROVE Goal
  BY <1>5, <1>s, RefRequest DEF Register!Next
<1>6. CASE UNCHANGED vars
  BY <1>6, <1>s, <1>u DEF vars, engineVars, redisVars, Seen, Stutter
<1> QED
  BY <1>1, <1>2, <1>3, <1>4, <1>5, <1>6 DEF Next, Environment

\* The engine over Redis implements the write-once register with expiry: with
\* commands and replies lost, repeated or late, and with any mix of codecs,
\* every step of the backends and of the server is one step of the register or
\* none.
THEOREM Refinement == Spec => ImplementsRegister
<1>1. Init => Register!Init
  BY RefInit
<1>2. IInv /\ [Next]_vars => [Register!Next]_(Register!registerVars)
  BY RefStep
<1> QED
  BY <1>1, <1>2, Invariance, PTL DEF Spec, ImplementsRegister, Register!Spec
=============================================================================
