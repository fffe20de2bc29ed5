----------------------------- MODULE MCPageTree -----------------------------
(* Model values and symmetry for checking PageTree.                        *)
EXTENDS PageTree, TLC

CONSTANTS p1, p2, p3, p4, wa, wb, h1, h2

FourPages == {p1, p2, p3, p4}
ThreePages == {p1, p2, p3}
TwoWorkspaces == {wa, wb}
OneHandler == {h1}
TwoHandlers == {h1, h2}
Browser == {"browser"}
Both == {"browser", "agent"}

Symmetry == Permutations(Pages) \cup Permutations(Workspaces)
               \cup Permutations(Handlers)
=============================================================================
