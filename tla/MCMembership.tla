---------------------------- MODULE MCMembership ----------------------------
(***************************************************************************)
(* An instance of Membership: two owners, who may leave, demote or remove  *)
(* each other at once, and three requests, so that one of them can also be *)
(* added or promoted again in between.                                     *)
(***************************************************************************)
EXTENDS Membership, TLC

CONSTANTS u1, u2, r1, r2, r3

TwoUsers == {u1, u2}
ThreeRequests == {r1, r2, r3}
=============================================================================
