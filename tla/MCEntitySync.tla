---------------------------- MODULE MCEntitySync ----------------------------
(* EntitySync for TLC. *)
EXTENDS EntitySync

CONSTANTS e1, e2

MCTwo == {e1, e2}
=============================================================================
