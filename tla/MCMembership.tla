---------------------------- MODULE MCMembership ----------------------------
(* Values of the constants for checking Membership.                        *)
EXTENDS Membership

CONSTANT h1

OneHandler == {h1}
AdminOrMember == {"admin", "member"}
=============================================================================
