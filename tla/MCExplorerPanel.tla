-------------------------- MODULE MCExplorerPanel --------------------------
(* ExplorerPanel for TLC: one node is enough for every race between loads,  *)
(* events and answers.                                                      *)
EXTENDS ExplorerPanel

CONSTANT n1

MCOne == {n1}
=============================================================================
