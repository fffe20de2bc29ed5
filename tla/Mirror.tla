------------------------------- MODULE Mirror -------------------------------
(***************************************************************************)
(* What a screen that copies a list of the server promises: it shows a     *)
(* state the list has been in, never one from the future, and it never     *)
(* goes back to an older one. How long the copy stays behind is left open: *)
(* Feed says under which faults it catches up.                             *)
(***************************************************************************)
EXTENDS Naturals

VARIABLES
    source,     \* how often the list has changed
    copy        \* the state of the list that is on screen

Init == source \in Nat /\ copy = source

(* The list changes on the server. *)
Change == source' = source + 1 /\ copy' = copy

(* The screen is drawn from an answer that is no older than the one before. *)
Redraw == source' = source /\ copy' \in copy .. source

Spec == Init /\ [][Change \/ Redraw]_<<source, copy>>
=============================================================================
