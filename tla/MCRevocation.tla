---------------------------- MODULE MCRevocation ----------------------------
(* One certificate; seven places can hold a list, so eight numbers suffice. *)
EXTENDS Revocation

CONSTANT s1

MCSerials == {s1}

MCNumbers == 1..8
=============================================================================
