------------------------------ MODULE MCOpLock ------------------------------
(* OpLock for TLC: three explicit callers (a holder, a pending one and one  *)
(* to be rejected) and two event-driven updates.                            *)
EXTENDS OpLock

CONSTANTS e1, e2, e3, i1, i2

MCExplicit == {e1, e2, e3}

MCIncremental == {i1, i2}
=============================================================================
