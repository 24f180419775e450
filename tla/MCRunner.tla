------------------------------ MODULE MCRunner ------------------------------
(* Two goroutines.  The configurations differ in one thing each from the    *)
(* first: a limit instead of a duration, another rate, and disabled.        *)
EXTENDS Runner

CONSTANTS w1, w2

MCWorkers == {w1, w2}

C(e, l, s, d, i) ==
    [enabled |-> e, limit |-> l, slots |-> s, duration |-> d, interval |-> i]

MCConfigs ==
    {C(TRUE, 0, 2, 2, 1), C(TRUE, 1, 1, 0, 1), C(TRUE, 0, 1, 3, 2), C(FALSE, 0, 2, 2, 1)}

MCScenarios == {"round_trip"}
=============================================================================
