------------------------------ MODULE MCCollab ------------------------------
(* Model values and symmetry for checking Collab.                          *)
EXTENDS Collab, TLC

CONSTANTS t1, t2, k1, k2, w1

OneTab == {t1}
TwoTabs == {t1, t2}
TwoConns == {k1, k2}
OneWriter == {w1}
NoWriter == {}
NoViewer == {}
OneViewer == {t1}

Symmetry == Permutations(Tabs) \cup Permutations(Conns)
=============================================================================
