-------------------------- MODULE MCContinueQueue --------------------------
(* Two conversations in worktrees of one project, or of two projects, or    *)
(* both in one and the same workdir.                                        *)
EXTENDS ContinueQueue, TLC

CONSTANTS c1, c2, w1, w2, p1, p2, ticker, kick, u1

Worktrees  == (c1 :> w1) @@ (c2 :> w2)
OneProject == (c1 :> p1) @@ (c2 :> p1)
OneDir     == (c1 :> w1) @@ (c2 :> w1)
Single     == c1 :> w1
=============================================================================
