---------------------------- MODULE MemoryContexts ----------------------------
(***************************************************************************)
(* The engine over store.TTLStore (internal/pii/store/store.go): a map     *)
(* guarded by an RWMutex.  Each critical section is one step.  Get has two *)
(* of them: an expired item is found under the read lock and deleted under *)
(* the write lock, and anything can happen to the map in between.          *)
(***************************************************************************)
EXTENDS Processor

VARIABLE items      \* TTLStore.items; the key is absent when NoRecord

vars == <<engineVars, items>>

Init == EngineInit /\ items = [k \in Keys |-> NoRecord]

\* Mutant: the hash leaves the authenticated system out.
KeyWithoutTenant(r) == [job[r].key EXCEPT !.tenant = CHOOSE t \in Tenants : TRUE]

Key(r) == job[r].key

\* Get under RLock.  The expired item stays in the request's hand.
Get(r) ==
    LET it == items[Key(r)]
    IN  /\ pc[r] = "read"
        /\ ~cancelled[r]
        /\ rec' = [rec EXCEPT ![r] = it]
        /\ Goto(r, IF it # NoRecord /\ Expired(it, clock) THEN "evict" ELSE "got")
        /\ UNCHANGED <<clock, cancelled, job, draft, obs, ans, items>>

\* Mutant: whatever is there now is deleted.
GetEvictAnyItem(r) ==
    /\ pc[r] = "evict"
    /\ items' = [items EXCEPT ![Key(r)] = NoRecord]
    /\ rec' = [rec EXCEPT ![r] = NoRecord]
    /\ Goto(r, "got")
    /\ UNCHANGED <<clock, cancelled, job, draft, obs, ans>>

\* Get under Lock: delete only the very item that was seen expired.
GetEvict(r) ==
    /\ pc[r] = "evict"
    /\ items' = IF items[Key(r)] = rec[r]
                THEN [items EXCEPT ![Key(r)] = NoRecord] ELSE items
    /\ rec' = [rec EXCEPT ![r] = NoRecord]
    /\ Goto(r, "got")
    /\ UNCHANGED <<clock, cancelled, job, draft, obs, ans>>

\* Mutant: the loser keeps its own record.
CreateIfAbsentOwnRecord(r) ==
    LET it == items[Key(r)]
    IN  /\ pc[r] = "save"
        /\ ~cancelled[r]
        /\ items' = IF InForce(it, clock) THEN items
                    ELSE [items EXCEPT ![Key(r)] = draft[r]]
        /\ rec' = [rec EXCEPT ![r] = draft[r]]
        /\ draft' = [draft EXCEPT ![r] = NoRecord]
        /\ Goto(r, "saved")
        /\ UNCHANGED <<clock, cancelled, job, obs, ans>>

\* CreateIfAbsent under Lock: a live item wins, an expired one is replaced.
CreateIfAbsent(r) ==
    LET it == items[Key(r)]
        won == ~InForce(it, clock)
    IN  /\ pc[r] = "save"
        /\ ~cancelled[r]
        /\ items' = IF won THEN [items EXCEPT ![Key(r)] = draft[r]] ELSE items
        /\ rec' = [rec EXCEPT ![r] = IF won THEN draft[r] ELSE it]
        /\ draft' = [draft EXCEPT ![r] = NoRecord]
        /\ Goto(r, "saved")
        /\ UNCHANGED <<clock, cancelled, job, obs, ans>>

\* Mutant: the sweep is one tick early.
CleanupEarly ==
    /\ items' = [k \in Keys |->
                    IF InForce(items[k], clock + 1) THEN items[k] ELSE NoRecord]
    /\ UNCHANGED engineVars

\* Cleanup, called by the ticker of cleanupMemoryStore.
Cleanup ==
    /\ items' = [k \in Keys |->
                    IF InForce(items[k], clock) THEN items[k] ELSE NoRecord]
    /\ UNCHANGED engineVars

StoreStep(r) == Get(r) \/ GetEvict(r) \/ CreateIfAbsent(r)

RequestStep(r) == StoreStep(r) \/ (EngineStep(r) /\ UNCHANGED items)

Environment ==
    \/ Tick /\ UNCHANGED items
    \/ \E r \in Requests : Cancel(r) /\ UNCHANGED items
    \/ \E r \in Requests : ClientCall(r) /\ UNCHANGED items
    \/ Cleanup

Next == Environment \/ \E r \in Requests : RequestStep(r)

Spec == Init /\ [][Next]_vars

-----------------------------------------------------------------------------
(* Properties *)

TypeOK == EngineTypeOK /\ items \in [Keys -> Records \cup {NoRecord}]

\* r answers, or has answered, from a binding it found in force.
Observed(r) == pc[r] \in {"respond", "done"} /\ rec[r] # NoRecord

\* Two requests on one key that answer from different bindings never had both
\* in force: when the later of them looked, the other's binding had expired.
\* It is what the identity test in Get, the single critical section of
\* CreateIfAbsent and the answer from the winner's record are for.
OneBindingAtATime ==
    \A p, q \in Requests :
        /\ Observed(p) /\ Observed(q)
        /\ Key(p) = Key(q)
        /\ rec[p] # rec[q]
        => Expired(rec[p], obs[q]) \/ Expired(rec[q], obs[p])

\* An original is given out only under the key it came in with: same system,
\* same namespace, same identifier (Processor.key).
OriginalsStayInTheirContext ==
    \A r \in Requests :
        ans[r].kind = "original" =>
            \E q \in Requests :
                /\ job[q] # NoJob
                /\ job[q].key = job[r].key
                /\ job[q].op # "demask"
                /\ job[q].text = ans[r].text

\* What a request holds at each step; the draft is the mask of its own text,
\* made under its own policy, verified.
Drafted(r) ==
    /\ draft[r] # NoRecord
    /\ \E t \in 0..clock :
          draft[r] = NewRecord(r, job[r].text, job[r].pol, job[r].op = "mask", t)
    /\ Verified(job[r].text, draft[r].masked, job[r].pol)

HandsInv ==
    \A r \in Requests :
        /\ job[r] = NoJob <=> pc[r] = "idle"
        /\ pc[r] # "done" => ans[r] = Failure("none")
        /\ pc[r] \in {"idle", "read", "mask", "save"} => rec[r] = NoRecord
        /\ pc[r] \in {"evict", "saved", "respond"} => rec[r] # NoRecord
        /\ pc[r] = "evict" => Expired(rec[r], clock)
        /\ pc[r] \in {"mask", "save"} => job[r].op # "demask"
        /\ pc[r] = "save" => Drafted(r)
        /\ pc[r] \notin {"setnx", "winner"}
        /\ obs[r] <= clock

\* A record that is in force, in whichever hand, is the one in the map.
HeldInForce ==
    \A r \in Requests : InForce(rec[r], clock) => items[Key(r)] = rec[r]

\* x is the record of a call that created a context under key k.
MadeUnder(x, k) ==
    /\ job[x.id] # NoJob
    /\ job[x.id].key = k
    /\ job[x.id].op # "demask"
    /\ job[x.id].text = x.original

Provenance ==
    /\ \A k \in Keys : items[k] # NoRecord => MadeUnder(items[k], k)
    /\ \A r \in Requests : rec[r] # NoRecord => MadeUnder(rec[r], Key(r))

\* The inductive invariant: together these survive every step.
IInv ==
    /\ TypeOK
    /\ HandsInv
    /\ HeldInForce
    /\ Provenance
    /\ OneBindingAtATime
    /\ OriginalsStayInTheirContext

\* Process, Mask and Demask over the memory store are atomic operations on a
\* write-once register with expiry.
LiveBinding(k) ==
    IF InForce(items[k], clock) THEN items[k] ELSE NoRecord

Register == INSTANCE ContextRegister WITH
    bind <- [k \in Keys |-> LiveBinding(k)],
    seen <- [r \in Requests |->
                IF pc[r] \in {"respond", "done"} THEN rec[r] ELSE NoRecord]

ImplementsRegister == Register!Spec
=============================================================================
