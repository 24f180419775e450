----------------------------- MODULE MCLoadTest -----------------------------
(* One browser session: a second one only repeats revision conflicts. *)
EXTENDS LoadTest

CONSTANT a1

MCAdmins == {a1}
=============================================================================
