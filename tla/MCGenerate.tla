------------------------------ MODULE MCGenerate ------------------------------
(* An instance of Generate for TLC: two requests share one identifier. *)
EXTENDS Generate, TLC

CONSTANTS w, redacted, v1, v2, v3

MCWords == {w, redacted}

MCValues == {v1, v2, v3}

\* v1 and v2 have the same deterministic mask.
MCShape == [v \in MCValues |-> w]

MCInputTexts == {{v1}, {v2}}

MCAdditions == {{}, {v3}}

\* Two snapshots of the configuration: the laxer one overlooks v1 and does not
\* allow demasking.
MCPolicies ==
    {[allow |-> FALSE, tokens |-> FALSE, types |-> {v2, v3}, ttl |-> 1, valid |-> TRUE],
     [allow |-> TRUE, tokens |-> FALSE, types |-> MCValues, ttl |-> 1, valid |-> TRUE]}

CallSymmetry == Permutations(Requests) \cup Permutations(Tenants)
=============================================================================
