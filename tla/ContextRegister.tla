--------------------------- MODULE ContextRegister ---------------------------
(***************************************************************************)
(* What a context promises its callers, whatever store keeps it: under one *)
(* key there is at most one binding of an original text to its mask, it is *)
(* written once, it stays until it expires, and every answer is computed   *)
(* from a binding that was in force at one moment between call and answer. *)
(* A call may fail at any time, also after it has created the binding.     *)
(***************************************************************************)
EXTENDS Contexts

VARIABLES
    clock,
    job,        \* the calls made so far
    bind,       \* bind[k]: the binding in force under k
    seen,       \* seen[r]: the binding request r answers from
    ans

registerVars == <<clock, job, bind, seen, ans>>

Pending(r) == job[r] # NoRecord /\ ans[r].kind = "none"

Init ==
    /\ clock = 0
    /\ job = [r \in Requests |-> NoRecord]
    /\ bind = [k \in Keys |-> NoRecord]
    /\ seen = [r \in Requests |-> NoRecord]
    /\ ans = [r \in Requests |-> Failure("none")]

\* Time passes and takes exactly the bindings that expire with it.
Tick ==
    /\ clock' = clock + 1
    /\ bind' = [k \in Keys |-> IF InForce(bind[k], clock')
                               THEN bind[k] ELSE NoRecord]
    /\ UNCHANGED <<job, seen, ans>>

Call(r) ==
    /\ job[r] = NoRecord
    /\ job'[r] \in Jobs
    /\ job' = [job EXCEPT ![r] = job'[r]]
    /\ ans' = IF job'[r].pol.valid THEN ans
              ELSE [ans EXCEPT ![r] = Failure("invalid")]
    /\ UNCHANGED <<clock, bind, seen>>

\* The request binds the mask it made, under its own policy, of its own
\* text; no critical value is left in it.  A call that failed may still take
\* effect, and so may one that was answered from the binding of another call;
\* one that was answered from its own does not bind again.
Bind(r) ==
    LET j == job[r]
    IN  /\ j # NoRecord
        /\ ans[r].kind \notin {"invalid", "detection"}
        /\ seen[r] = NoRecord \/ seen[r].id # r
        /\ j.op # "demask"
        /\ bind[j.key] = NoRecord
        /\ \E t \in 0..clock :
              LET new == NewRecord(r, j.text, j.pol, j.op = "mask", t)
              IN  /\ Verified(j.text, new.masked, j.pol)
                  /\ ~Expired(new, clock)
                  /\ bind' = [bind EXCEPT ![j.key] = new]
        /\ UNCHANGED <<clock, job, seen, ans>>

Observe(r) ==
    /\ Pending(r)
    /\ seen[r] = NoRecord
    /\ bind[job[r].key] # NoRecord
    /\ seen' = [seen EXCEPT ![r] = bind[job[r].key]]
    /\ UNCHANGED <<clock, job, bind, ans>>

Answer(r) ==
    /\ Pending(r)
    /\ seen[r] # NoRecord
    /\ ans' = [ans EXCEPT ![r] = AnswerFrom(seen[r], job[r])]
    /\ UNCHANGED <<clock, job, bind, seen>>

\* Only an operation that cannot create a context reports it gone.
Fail(r) ==
    /\ Pending(r)
    /\ \E kind \in {"ctx", "store", "detection", "gone"} :
          /\ kind = "gone" => job[r].op = "demask" /\ seen[r] = NoRecord
          /\ ans' = [ans EXCEPT ![r] = Failure(kind)]
    /\ UNCHANGED <<clock, job, bind, seen>>

Next ==
    \/ Tick
    \/ \E r \in Requests :
          Call(r) \/ Bind(r) \/ Observe(r) \/ Answer(r) \/ Fail(r)

Spec == Init /\ [][Next]_registerVars
=============================================================================
