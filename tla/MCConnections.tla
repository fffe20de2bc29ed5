--------------------------- MODULE MCConnections ---------------------------
(* Model values for checking Connections.                                  *)
EXTENDS Connections

CONSTANTS m1, m2, g1

TwoMachines == {m1, m2}
OneGrant == {g1}
=============================================================================
