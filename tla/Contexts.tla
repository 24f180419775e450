------------------------------ MODULE Contexts ------------------------------
(***************************************************************************)
(* The data of the PII engine: texts, policies, saved context records and  *)
(* the pure parts of internal/pii/engine (mask, verify, processExisting,   *)
(* the sanitising and restoring halves of Demask).                         *)
(*                                                                         *)
(* A text is the set of the fragments it is made of: words, PII values,    *)
(* and markers.  A marker is the token of one value under the random       *)
(* nonce of one context; only one request can have drawn that nonce, so    *)
(* the marker is the pair <<value, request>>.  Order and repetition inside *)
(* a text are abstracted, which makes a provider that reorders markers one *)
(* that echoes them.  A damaged marker, or one that touches a letter, a    *)
(* digit or another marker, is a word: restoreTokens leaves both alone.    *)
(***************************************************************************)
EXTENDS Naturals

CONSTANTS
    Requests,     \* every request ever made; each runs one operation once
    Tenants,      \* authenticated systems (Scope.TenantID)
    ContextIDs,   \* caller-chosen payload_id / request_id
    Words,        \* fragments that no detector reports
    Values,       \* fragments that some detector reports
    Critical,     \* the values whose type verify re-checks (criticalTypes)
    Shape,        \* masking.Mask: the deterministic replacement of a value
    TTLs,         \* lifetimes a policy may give a context
    Redacted,     \* the literal "[REDACTED]"
    NoRecord      \* nil

Markers == Values \X Requests

Fragments == Words \cup Values \cup Markers

Texts == SUBSET Fragments

ASSUME ConstantsAssumption ==
    /\ Words \cap Values = {}
    /\ Markers \cap (Words \cup Values) = {}
    /\ Critical \subseteq Values
    /\ Shape \in [Values -> Words \cup Values]
    /\ TTLs \subseteq Nat \ {0}
    /\ Redacted \in Words

(***************************************************************************)
(* contracts.Policy as the engine reads it: types stands for DetectTypes,  *)
(* MaskTypes, Rules and the confidence threshold together, as the values   *)
(* they let through; tokens for Mode "tokens" or the strict profile; valid *)
(* for what policy.ValidateContract and the empty-identifier test decide.  *)
(***************************************************************************)
Policies ==
    [allow: BOOLEAN, tokens: BOOLEAN, types: SUBSET Values, ttl: TTLs,
     valid: BOOLEAN]

Namespaces == {"process", "generate"}

\* The hashed triple is injective up to SHA-256, so the key is the triple.
Keys == [tenant: Tenants, ns: Namespaces, id: ContextIDs]

Operations == {"process", "mask", "demask"}

NamespaceOf(op) == IF op = "process" THEN "process" ELSE "generate"

\* What the caller and the policy snapshot of its request fix.
Jobs == [op: Operations, key: Keys, text: Texts, pol: Policies]

(***************************************************************************)
(* store.Record.  The field id is the request that built the record: it    *)
(* stands for the identity of the item pointer in the memory store and for *)
(* TokenNonce.  nonce-less records (mode "mask") have an empty map.        *)
(***************************************************************************)
Records ==
    [id: Requests, original: Texts, masked: Texts, map: SUBSET Markers,
     expires: Nat]

AnswerKinds ==
    {"none", "masked", "original", "sanitized", "restored",
     "conflict", "denied", "gone", "ctx", "store", "detection", "invalid"}

ASSUME NoRecordAssumption == NoRecord \notin Records \cup Jobs

Answers == [kind: AnswerKinds, text: Texts]

Failure(kind) == [kind |-> kind, text |-> {}]

Success(kind, text) == [kind |-> kind, text |-> text]

-----------------------------------------------------------------------------
(* Detection and masking *)

\* The findings of the detect pipeline: collect, context resolution,
\* confidence, policy filter, overlaps.
Detect(text, pol) == text \cap pol.types

UseTokensOnlyByPolicy(pol, force) == pol.tokens

\* A nonce is drawn when tokens are forced (Mask) or the policy asks for them.
UseTokens(pol, force) == force \/ pol.tokens

Replacement(v, tokens, nonce) == IF tokens THEN <<v, nonce>> ELSE Shape[v]

MaskedText(text, pol, force, nonce) ==
    (text \ Detect(text, pol))
        \cup {Replacement(v, UseTokens(pol, force), nonce) : v \in Detect(text, pol)}

\* Record.Transform: the values by token.
TransformMap(text, pol, force, nonce) ==
    IF UseTokens(pol, force) THEN Detect(text, pol) \X {nonce} ELSE {}

\* verify: markers are hidden, and no critical value may remain.
Verified(text, masked, pol) ==
    Detect(text, pol) # {} => Detect(masked, pol) \cap Critical = {}

\* Processor.record, with ExpiresAt = now + pol.TTL.
NewRecord(r, text, pol, force, now) ==
    [id |-> r, original |-> text, masked |-> MaskedText(text, pol, force, r),
     map |-> TransformMap(text, pol, force, r), expires |-> now + pol.ttl]

\* Mutant: a record is good for the instant it expires at.
ExpiredLate(rec, now) == now > rec.expires

Expired(rec, now) == now >= rec.expires

InForce(rec, now) == rec # NoRecord /\ ~Expired(rec, now)

-----------------------------------------------------------------------------
(* Answers from a record *)

processExistingNoRetry(rec, text, allow) ==
    IF rec.masked # text THEN Failure("conflict")
    ELSE IF allow THEN Success("original", rec.original)
    ELSE Failure("denied")

processExisting(rec, text, allow) ==
    IF rec.original = text THEN Success("masked", rec.masked)
    ELSE IF rec.masked # text THEN Failure("conflict")
    ELSE IF allow THEN Success("original", rec.original)
    ELSE Failure("denied")

MaskExisting(rec, text) ==
    IF rec.original = text THEN Success("masked", rec.masked)
    ELSE Failure("conflict")

\* Provider-added PII is replaced, markers are not scanned.
Sanitize(text, pol) ==
    IF Detect(text, pol) = {} THEN text
    ELSE (text \ Detect(text, pol)) \cup {Redacted}

\* One pass: exactly the saved markers become their values.
restoreTokens(text, map) == (text \ map) \cup {m[1] : m \in text \cap map}

ExactEchoAnyPolicy(rec, text, pol) == text = rec.masked

ExactEcho(rec, text, pol) == pol.allow /\ text = rec.masked

DemaskExisting(rec, text, pol) ==
    IF ExactEcho(rec, text, pol) THEN Success("original", rec.original)
    ELSE IF pol.allow
         THEN Success("restored", restoreTokens(Sanitize(text, pol), rec.map))
         ELSE Success("sanitized", Sanitize(text, pol))

AnswerFrom(rec, j) ==
    IF j.op = "process" THEN processExisting(rec, j.text, j.pol.allow)
    ELSE IF j.op = "mask" THEN MaskExisting(rec, j.text)
    ELSE DemaskExisting(rec, j.text, j.pol)
=============================================================================
