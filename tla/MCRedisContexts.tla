--------------------------- MODULE MCRedisContexts ---------------------------
(* An instance of RedisContexts for TLC. *)
EXTENDS RedisContexts, TLC

CONSTANTS r1, r2, w, redacted, v1, v2, k1, k2

MCRequests == {r1, r2}

MCWords == {w, redacted}

MCValues == {v1, v2}

MCShape == [v \in MCValues |-> w]

MCInputTexts == {{v1}, {v2}}

MCPolicies ==
    {[allow |-> TRUE, tokens |-> TRUE, types |-> MCValues, ttl |-> 2,
      valid |-> TRUE]}

\* A rolling change of the encryption key: the updated backend knows both.
MCRing ==
    (r1 :> [active |-> k1, known |-> {k1}]) @@
    (r2 :> [active |-> k2, known |-> {k1, k2}])
=============================================================================
