------------------------------- MODULE Granted -------------------------------
(* A conversation that goes on by itself: its plan (Mission) and the safety *)
(* of its runs (RunSafety).                                                 *)
EXTENDS Mission, RunSafety

\* Whatever a conversation starts by itself stays within what its people gave
\* it leave for: iterations of a plan, the revision they confirmed, and runs
\* without a sandbox.
GrantedOnly == MissionSound /\ SafetySound
=============================================================================
