------------------------------- MODULE Generate -------------------------------
(***************************************************************************)
(* The two handlers of internal/proxy/server.go over one engine and store. *)
(* handleProcess makes one call.  handleGenerate masks its text, sends the *)
(* mask to the provider and demasks the reply, all under the one policy    *)
(* snapshot it resolved at the start.  Mask and Demask are separate calls  *)
(* of the engine: between them the context may expire, and a later request *)
(* with the same identifier may create another one in its place.           *)
(***************************************************************************)
EXTENDS MemoryContexts

CONSTANT Additions      \* what a provider may add to a reply: sets of fragments

ASSUME AdditionsAssumption == Additions \subseteq Texts

VARIABLES
    phase,      \* where the handler is: before, in or after the three calls
    asked,      \* the caller's text
    sent,       \* the text the provider received
    masking,    \* history: the record Mask answered from
    reply       \* the provider's text

handlerVars == <<phase, asked, sent, masking, reply>>

genVars == <<vars, handlerVars>>

Phases == {"start", "processing", "masking", "provider", "demasking",
           "replied", "failed"}

GenInit ==
    /\ Init
    /\ phase = [r \in Requests |-> "start"]
    /\ asked = [r \in Requests |-> {}]
    /\ sent = [r \in Requests |-> {}]
    /\ masking = [r \in Requests |-> NoRecord]
    /\ reply = [r \in Requests |-> {}]

\* A caller writes a text of its own, or sends one that some caller was
\* answered: a mask of process, or a reply in which markers are left.
CallerTexts ==
    InputTexts \cup {ans[q].text : q \in {p \in Requests : phase[p] = "replied"}}

CallerJobs(op) ==
    {j \in [op: {op}, key: Keys, text: CallerTexts, pol: OfferedPolicies] :
        j.key.ns = NamespaceOf(op)}

\* handleProcess resolved its consumer and its policy, and calls Process.
CallProcess(r) ==
    /\ phase[r] = "start"
    /\ \E j \in CallerJobs("process") :
          /\ Begin(r, j)
          /\ asked' = [asked EXCEPT ![r] = j.text]
    /\ phase' = [phase EXCEPT ![r] = "processing"]
    /\ UNCHANGED <<items, sent, masking, reply>>

\* handleGenerate resolved its consumer and its policy, and calls Mask.
CallMask(r) ==
    /\ phase[r] = "start"
    /\ \E j \in CallerJobs("mask") :
          /\ Begin(r, j)
          /\ asked' = [asked EXCEPT ![r] = j.text]
    /\ phase' = [phase EXCEPT ![r] = "masking"]
    /\ UNCHANGED <<items, sent, masking, reply>>

\* Process, Mask or Demask returned an error; so does the handler.
EngineFailed(r) ==
    /\ phase[r] \in {"processing", "masking", "demasking"}
    /\ pc[r] = "done"
    /\ ans[r].kind \notin {"masked", "original", "restored", "sanitized"}
    /\ phase' = [phase EXCEPT ![r] = "failed"]
    /\ UNCHANGED <<vars, asked, sent, masking, reply>>

\* Mutant: the handler sends the text it was asked about.
CallProviderUnmasked(r) ==
    /\ phase[r] = "masking"
    /\ pc[r] = "done"
    /\ ans[r].kind = "masked"
    /\ IF cancelled[r]
       THEN /\ phase' = [phase EXCEPT ![r] = "failed"]
            /\ UNCHANGED <<sent, masking>>
       ELSE /\ phase' = [phase EXCEPT ![r] = "provider"]
            /\ sent' = [sent EXCEPT ![r] = asked[r]]
            /\ masking' = [masking EXCEPT ![r] = rec[r]]
    /\ UNCHANGED <<vars, asked, reply>>

\* Mask returned; the handler looks at the context and calls the provider.
CallProvider(r) ==
    /\ phase[r] = "masking"
    /\ pc[r] = "done"
    /\ ans[r].kind = "masked"
    /\ IF cancelled[r]
       THEN /\ phase' = [phase EXCEPT ![r] = "failed"]
            /\ UNCHANGED <<sent, masking>>
       ELSE /\ phase' = [phase EXCEPT ![r] = "provider"]
            /\ sent' = [sent EXCEPT ![r] = ans[r].text]
            /\ masking' = [masking EXCEPT ![r] = rec[r]]
    /\ UNCHANGED <<vars, asked, reply>>

\* Everything the provider was ever sent, for whichever request.
Received == UNION {sent[q] : q \in Requests}

\* The provider repeats or reorders any part of what it received for this call
\* or another one, and adds text of its own, PII included; the handler passes
\* the reply to Demask.
ProviderReplies(r) ==
    /\ phase[r] = "provider"
    /\ ~cancelled[r]
    /\ \E kept \in SUBSET Received, added \in Additions :
          /\ reply' = [reply EXCEPT ![r] = kept \cup added]
          /\ job' = [job EXCEPT ![r].op = "demask", ![r].text = kept \cup added]
    /\ phase' = [phase EXCEPT ![r] = "demasking"]
    /\ Goto(r, "read")
    /\ rec' = [rec EXCEPT ![r] = NoRecord]
    /\ ans' = [ans EXCEPT ![r] = Failure("none")]
    /\ UNCHANGED <<clock, cancelled, draft, obs, items, asked, sent, masking>>

\* An HTTP error, a wrong request ID, an oversized body, or the deadline:
\* a provider that never answers is abandoned when the context ends.
ProviderFails(r) ==
    /\ phase[r] = "provider"
    /\ phase' = [phase EXCEPT ![r] = "failed"]
    /\ UNCHANGED <<vars, asked, sent, masking, reply>>

\* The engine returned a text, and the handler answers with it.
Reply(r) ==
    /\ phase[r] \in {"processing", "demasking"}
    /\ pc[r] = "done"
    /\ ans[r].kind \in {"masked", "original", "restored", "sanitized"}
    /\ phase' = [phase EXCEPT ![r] = "replied"]
    /\ UNCHANGED <<vars, asked, sent, masking, reply>>

\* net/http cancels the context of a request when its client leaves, and the
\* middleware does at RequestTimeout.
GenCancel(r) ==
    /\ phase[r] \in {"processing", "masking", "provider", "demasking"}
    /\ ~cancelled[r]
    /\ Cardinality({q \in Requests : cancelled[q]}) < MaxCancelled
    /\ cancelled' = [cancelled EXCEPT ![r] = TRUE]
    /\ UNCHANGED <<clock, pc, job, draft, rec, obs, ans, items, handlerVars>>

HandlerStep(r) ==
    \/ RequestStep(r) /\ UNCHANGED handlerVars
    \/ EngineFailed(r)
    \/ CallProvider(r)
    \/ Reply(r)

GenNext ==
    \/ Tick /\ UNCHANGED <<items, handlerVars>>
    \/ Cleanup /\ UNCHANGED handlerVars
    \/ \E r \in Requests :
          \/ CallProcess(r)
          \/ CallMask(r)
          \/ GenCancel(r)
          \/ ProviderReplies(r)
          \/ ProviderFails(r)
          \/ HandlerStep(r)

GenSpec == GenInit /\ [][GenNext]_genVars

-----------------------------------------------------------------------------
(* Properties *)

GenTypeOK ==
    /\ TypeOK
    /\ phase \in [Requests -> Phases]
    /\ asked \in [Requests -> Texts]
    /\ sent \in [Requests -> Texts]
    /\ masking \in [Requests -> Records \cup {NoRecord}]
    /\ reply \in [Requests -> Texts]

\* A caller of generate gets back no PII value but those of its own text and
\* those the provider wrote into this very reply, with one exception: its own
\* context expired, a request of the same system and identifier made another in
\* its place, and the provider put a marker of that one into this reply.
OnlyOwnValues ==
    \A r \in Requests :
        phase[r] = "replied" /\ job[r].op = "demask" =>
            \A v \in (ans[r].text \cap Values) \ (asked[r] \cup reply[r]) :
                \E q \in Requests :
                    /\ <<v, q>> \in reply[r]
                    /\ v \in asked[q]
                    /\ job[q].key = job[r].key
                    /\ Expired(masking[r], obs[r])

\* Values restored into a reply are the values whose markers the provider
\* returned, and none is restored without the permission to demask.
RestoredByMarkerOnly ==
    \A r \in Requests :
        phase[r] = "replied" /\ job[r].op = "demask" =>
            \A v \in (ans[r].text \cap Values) \ reply[r] :
                /\ job[r].pol.allow
                /\ \E m \in reply[r] \cap Markers : m[1] = v

\* 410 context_gone reaches a caller of generate only when the context its
\* own Mask used has expired: a live context is not lost under a request.
GoneOnlyAfterExpiry ==
    \A r \in Requests :
        phase[r] = "failed" /\ ans[r].kind = "gone" => Expired(masking[r], clock)

\* The provider receives no critical value that the policy which made the
\* mask covers, whichever request reuses that mask.
ProviderSeesNoCriticalValue ==
    \A r \in Requests :
        phase[r] \in {"provider", "demasking", "replied"} /\ job[r].op # "process" =>
            sent[r] \cap job[masking[r].id].pol.types \cap Critical = {}

\* A live context is reused as it is, so a value that only the newer policy
\* covers may still reach the provider: but only out of a context that another
\* request made of the same text, and that Mask found in force.  However often
\* it is reused, Mask never accepts it a lifetime of the older policy after
\* anyone accepted it.  The call of the provider comes after, and is not timed.
ReuseProlongsNoLaxMask ==
    \A r \in Requests :
        /\ phase[r] = "provider"
        /\ sent[r] \cap job[r].pol.types \cap Critical # {}
        => LET q == masking[r].id
           IN  /\ q # r
               /\ asked[q] = asked[r]
               /\ ~Expired(masking[r], obs[r])
               /\ \A p \in Requests :
                     Observed(p) /\ rec[p].id = q => obs[r] < obs[p] + job[q].pol.ttl

-----------------------------------------------------------------------------
(* The inductive invariant behind them.  A job is not the whole memory of a *)
(* handler: Demask takes it over.  The caller's text, the key and the       *)
(* policy snapshot stay, and a record is tied to those.                     *)

\* x is the record that q made of text, by the time now, and verified.
MadeAs(x, q, text, pol, force, now) ==
    /\ \E t \in 0..now : x = NewRecord(q, text, pol, force, t)
    /\ Verified(text, x.masked, pol)

\* x is the record that some handler made of its caller's text under key k.
MadeFor(x, k) ==
    /\ job[x.id] # NoJob
    /\ job[x.id].key = k
    /\ MadeAs(x, x.id, asked[x.id], job[x.id].pol, k.ns = "generate", clock)

Origin ==
    /\ \A k \in Keys : items[k] # NoRecord => MadeFor(items[k], k)
    /\ \A r \in Requests :
          /\ rec[r] # NoRecord => MadeFor(rec[r], Key(r))
          /\ masking[r] # NoRecord => MadeFor(masking[r], Key(r))

\* What the handler has asked of the engine, and of the provider, so far.
Handler(r) ==
    /\ phase[r] = "start" <=> job[r] = NoJob
    /\ phase[r] \in {"masking", "provider"} => job[r].op = "mask"
    /\ phase[r] = "demasking" => job[r].op = "demask"
    /\ phase[r] = "processing" => job[r].op = "process"
    /\ phase[r] = "replied" => pc[r] = "done" /\ job[r].op # "mask"
    /\ phase[r] = "provider" =>
          pc[r] = "done" /\ rec[r] # NoRecord /\ masking[r] = rec[r]
    /\ job[r] # NoJob =>
          /\ job[r].key.ns = NamespaceOf(job[r].op)
          /\ IF job[r].op = "demask"
             THEN job[r].text = reply[r] /\ masking[r] # NoRecord
             ELSE job[r].text = asked[r]
    /\ masking[r] # NoRecord =>
          /\ job[r] # NoJob /\ job[r].op # "process"
          /\ masking[r].original = asked[r]
          /\ masking[r].masked = sent[r]

\* The context that Mask used is still there for Demask while it is in force.
MaskingHeld(r) ==
    InForce(masking[r], clock) =>
        /\ items[Key(r)] = masking[r]
        /\ job[r].op = "demask" =>
              pc[r] # "evict" /\ (pc[r] = "got" => rec[r] = masking[r])

\* The record that q makes, if it makes one, has been made.
Built(q) ==
    /\ job[q] # NoJob
    /\ job[q].op = "demask" \/ pc[q] \notin {"read", "evict", "got", "mask"}

KeptRecords ==
    ({items[k] : k \in Keys} \cup {rec[r] : r \in Requests}
        \cup {masking[r] : r \in Requests} \cup {draft[r] : r \in Requests})
    \ {NoRecord}

\* A request makes one record, and nothing changes that record afterwards.
OneRecordEach ==
    /\ \A x \in KeptRecords : Built(x.id)
    /\ \A x, y \in KeptRecords : x.id = y.id => x = y

\* What the engine's answer says about the records.
Told(r) ==
    /\ ans[r].kind = "masked" =>
          /\ rec[r] # NoRecord /\ job[r] # NoJob
          /\ ans[r].text = rec[r].masked
          /\ rec[r].original = job[r].text
    /\ ans[r].kind = "gone" => masking[r] # NoRecord /\ Expired(masking[r], clock)
    /\ job[r] # NoJob /\ job[r].op = "demask" =>
          \A v \in (ans[r].text \cap Values) \ reply[r] :
              /\ job[r].pol.allow
              /\ rec[r] # NoRecord
              /\ <<v, rec[r].id>> \in reply[r]
              /\ v \in asked[rec[r].id]
    /\ Observed(r) =>
          /\ ~Expired(rec[r], obs[r])
          /\ rec[r].expires <= obs[r] + job[rec[r].id].pol.ttl
          /\ job[r].op = "demask" /\ rec[r] # masking[r] => Expired(masking[r], obs[r])

GenIInv ==
    /\ GenTypeOK
    /\ HandsInv
    /\ HeldInForce
    /\ Origin
    /\ OneRecordEach
    /\ \A r \in Requests : Handler(r) /\ MaskingHeld(r) /\ Told(r)
=============================================================================
