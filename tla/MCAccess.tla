------------------------------ MODULE MCAccess ------------------------------
(* A default system with a key and one that comes and goes. *)
EXTENDS Access

CONSTANTS s1, s2, a1, a2

MCSystems == {s1, s2}

MCAdmins == {a1, a2}
=============================================================================
