------------------------------- MODULE MCFeed -------------------------------
(* Model values for checking Feed.                                         *)
EXTENDS Feed, TLC

CONSTANTS s1, s2

TwoSlots == {s1, s2}
=============================================================================
