------------------------------ MODULE Processor ------------------------------
(***************************************************************************)
(* internal/pii/engine/processor.go: the operations Process, Mask and      *)
(* Demask as steps of concurrent requests.  This module holds the steps    *)
(* the engine takes by itself; the steps inside the store (pc "read",      *)
(* "evict", "save", ...) belong to the module of each store, MemoryContexts*)
(* and RedisContexts, which extend this one.                               *)
(*                                                                         *)
(*   idle -> read -> got -> mask -> save -> saved -> respond -> done       *)
(*                      \-------------------------/                        *)
(*                                                                         *)
(* The clock and the cancellation of a request's context may move between  *)
(* any two steps.                                                          *)
(***************************************************************************)
EXTENDS Contexts, FiniteSets

CONSTANTS
    InputTexts,     \* texts callers write themselves
    OfferedPolicies,\* policy snapshots the configuration can hand out
    OfferedOps,     \* operations of this instance
    MaxClock,       \* bound on the clock
    MaxCancelled    \* bound on the requests whose context is cancelled

ASSUME InputsAssumption ==
    /\ InputTexts \subseteq SUBSET (Words \cup Values)
    /\ OfferedPolicies \subseteq Policies
    /\ OfferedOps \subseteq Operations
    /\ MaxClock \in Nat
    /\ MaxCancelled \in Nat

VARIABLES
    clock,      \* time.Now()
    cancelled,  \* cancelled[r]: ctx.Err() # nil for the request
    pc,
    job,        \* operation, key, text and policy snapshot of the request
    draft,      \* the record the request built, until it is saved
    rec,        \* the record the request holds: read, or returned by save
    obs,        \* history: the clock when the request accepted rec as live
    ans

engineVars == <<clock, cancelled, pc, job, draft, rec, obs, ans>>

PCs == {"idle", "read", "evict", "got", "mask", "save", "setnx", "winner",
        "saved", "respond", "done"}

NoJob == NoRecord

EngineTypeOK ==
    /\ clock \in Nat
    /\ cancelled \in [Requests -> BOOLEAN]
    /\ pc \in [Requests -> PCs]
    /\ job \in [Requests -> Jobs \cup {NoJob}]
    /\ draft \in [Requests -> Records \cup {NoRecord}]
    /\ rec \in [Requests -> Records \cup {NoRecord}]
    /\ obs \in [Requests -> Nat]
    /\ ans \in [Requests -> Answers]

EngineInit ==
    /\ clock = 0
    /\ cancelled = [r \in Requests |-> FALSE]
    /\ pc = [r \in Requests |-> "idle"]
    /\ job = [r \in Requests |-> NoJob]
    /\ draft = [r \in Requests |-> NoRecord]
    /\ rec = [r \in Requests |-> NoRecord]
    /\ obs = [r \in Requests |-> 0]
    /\ ans = [r \in Requests |-> Failure("none")]

Goto(r, label) == pc' = [pc EXCEPT ![r] = label]

Finish(r, a) == Goto(r, "done") /\ ans' = [ans EXCEPT ![r] = a]

\* The texts a caller can send: its own, and the masks answered so far.
KnownTexts ==
    InputTexts \cup {ans[q].text : q \in {p \in Requests : ans[p].kind = "masked"}}

-----------------------------------------------------------------------------
(* The environment: time, and cancellation of one request's context by its *)
(* deadline or by the client going away.                                   *)

Tick ==
    /\ clock < MaxClock
    /\ clock' = clock + 1
    /\ UNCHANGED <<cancelled, pc, job, draft, rec, obs, ans>>

Cancel(r) ==
    /\ pc[r] \notin {"idle", "done"}
    /\ ~cancelled[r]
    /\ Cardinality({q \in Requests : cancelled[q]}) < MaxCancelled
    /\ cancelled' = [cancelled EXCEPT ![r] = TRUE]
    /\ UNCHANGED <<clock, pc, job, draft, rec, obs, ans>>

-----------------------------------------------------------------------------
(* The engine's own steps *)

\* Process, Mask or Demask is called; validate comes first.
Begin(r, j) ==
    /\ pc[r] = "idle"
    /\ job' = [job EXCEPT ![r] = j]
    /\ IF j.pol.valid THEN Goto(r, "read") /\ UNCHANGED ans
                      ELSE Finish(r, Failure("invalid"))
    /\ UNCHANGED <<clock, cancelled, draft, rec, obs>>

\* ctx.Err() is tested before and after each store call, in detect and in
\* the masking loop, and a Redis command returns when it ends.  The second
\* test comes after CreateIfAbsent: what that call stored stays stored.
CtxFail(r) ==
    /\ pc[r] \in {"read", "got", "mask", "save", "setnx", "winner", "saved"}
    /\ cancelled[r]
    /\ rec' = [rec EXCEPT ![r] = NoRecord]
    /\ draft' = [draft EXCEPT ![r] = NoRecord]
    /\ Finish(r, Failure("ctx"))
    /\ UNCHANGED <<clock, cancelled, job, obs>>

\* read, after Get returned: the engine applies the expiry itself as well.
ReadLive(r) ==
    /\ pc[r] = "got"
    /\ ~cancelled[r]
    /\ InForce(rec[r], clock)
    /\ obs' = [obs EXCEPT ![r] = clock]
    /\ Goto(r, "respond")
    /\ UNCHANGED <<clock, cancelled, job, draft, rec, ans>>

ReadAbsent(r) ==
    /\ pc[r] = "got"
    /\ ~cancelled[r]
    /\ ~InForce(rec[r], clock)
    /\ rec' = [rec EXCEPT ![r] = NoRecord]
    /\ IF job[r].op = "demask" THEN Finish(r, Failure("gone"))
                               ELSE Goto(r, "mask") /\ UNCHANGED ans
    /\ UNCHANGED <<clock, cancelled, job, draft, obs>>

\* Processor.mask and Processor.record: detect, draw a nonce, replace,
\* verify; nothing is saved when verification finds a critical value.
MaskStep(r) ==
    LET j     == job[r]
        force == j.op = "mask"
        new   == NewRecord(r, j.text, j.pol, force, clock)
    IN  /\ pc[r] = "mask"
        /\ ~cancelled[r]
        /\ IF Verified(j.text, new.masked, j.pol)
           THEN /\ draft' = [draft EXCEPT ![r] = new]
                /\ Goto(r, "save")
                /\ UNCHANGED ans
           ELSE Finish(r, Failure("detection")) /\ UNCHANGED draft
        /\ UNCHANGED <<clock, cancelled, job, rec, obs>>

\* A detector, the random source or the verification scan failed.
DetectFail(r) ==
    /\ \/ pc[r] = "mask"
       \/ /\ pc[r] = "respond"
          /\ job[r].op = "demask"
          /\ ~ExactEcho(rec[r], job[r].text, job[r].pol)
    /\ Finish(r, Failure("detection"))
    /\ UNCHANGED <<clock, cancelled, job, draft, rec, obs>>

\* save, after CreateIfAbsent returned: the record to answer from is the
\* one the store holds, the request's own or the winner's.
SaveLive(r) ==
    /\ pc[r] = "saved"
    /\ ~cancelled[r]
    /\ ~Expired(rec[r], clock)
    /\ obs' = [obs EXCEPT ![r] = clock]
    /\ Goto(r, "respond")
    /\ UNCHANGED <<clock, cancelled, job, draft, rec, ans>>

SaveExpired(r) ==
    /\ pc[r] = "saved"
    /\ ~cancelled[r]
    /\ Expired(rec[r], clock)
    /\ rec' = [rec EXCEPT ![r] = NoRecord]
    /\ Finish(r, Failure("store"))
    /\ UNCHANGED <<clock, cancelled, job, draft, obs>>

\* processExisting, the comparison in Mask, or the second half of Demask,
\* which alone looks at the context again (detect, and before restoring).
Respond(r) ==
    /\ pc[r] = "respond"
    /\ IF /\ job[r].op = "demask"
          /\ cancelled[r]
          /\ ~ExactEcho(rec[r], job[r].text, job[r].pol)
       THEN Finish(r, Failure("ctx"))
       ELSE Finish(r, AnswerFrom(rec[r], job[r]))
    /\ UNCHANGED <<clock, cancelled, job, draft, rec, obs>>

EngineStep(r) ==
    \/ CtxFail(r)
    \/ ReadLive(r)
    \/ ReadAbsent(r)
    \/ MaskStep(r)
    \/ DetectFail(r)
    \/ SaveLive(r)
    \/ SaveExpired(r)
    \/ Respond(r)

\* A caller's operation: any offered policy snapshot, any text it knows.
ClientJobs ==
    {j \in [op: OfferedOps, key: Keys, text: KnownTexts, pol: OfferedPolicies] :
        j.key.ns = NamespaceOf(j.op)}

ClientCall(r) == \E j \in ClientJobs : Begin(r, j)
=============================================================================
