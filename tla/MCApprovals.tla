---------------------------- MODULE MCApprovals ----------------------------
(* Two requests of one run and two users' calls, as model values. *)
EXTENDS Approvals

CONSTANTS r1, r2, u1, u2
=============================================================================
