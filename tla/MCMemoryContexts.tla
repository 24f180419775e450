--------------------------- MODULE MCMemoryContexts ---------------------------
(* Instances of MemoryContexts for TLC. *)
EXTENDS MemoryContexts, TLC

CONSTANTS w, redacted, v1, v2

MCWords == {w, redacted}

MCValues == {v1, v2}

\* The two values share one deterministic mask, as two card numbers with the
\* same last digits do.
MCShape == [v \in MCValues |-> w]

RaceTexts == {{v1}, {v2}}

Policy(allow, tokens, ttl, valid) ==
    [allow |-> allow, tokens |-> tokens, types |-> MCValues, ttl |-> ttl,
     valid |-> valid]

\* Three requests race under one policy, of one system or of two; a request
\* may also come with a policy that validate refuses.
RacePolicies == {Policy(TRUE, TRUE, 1, TRUE), Policy(TRUE, TRUE, 1, FALSE)}

CallSymmetry == Permutations(Requests) \cup Permutations(Tenants)
=============================================================================
