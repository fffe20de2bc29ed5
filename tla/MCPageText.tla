----------------------------- MODULE MCPageText -----------------------------
(* Model values and symmetry for checking PageText.                        *)
EXTENDS PageText, TLC

CONSTANTS a, b, h1, h2, p1, p2

OneTab == {a}
TwoTabs == {a, b}
OneHandler == {h1}
TwoHandlers == {h1, h2}
TwoPieces == {p1, p2}
AllKinds == DOMAIN Script \cup DOMAIN RestoreScript
InBrowser == {"restore"}

Symmetry == Permutations(Tabs) \cup Permutations(Handlers)
               \cup Permutations(Pieces)
=============================================================================
