------------------------------ MODULE MCEvents ------------------------------
(* The flow of events to the browser and the secretary, the secretary's     *)
(* schedules, and a run of codex behind its app server, one at a time: part *)
(* says which one runs, the others stay as they were initialised.           *)
EXTENDS EventFlow, Scheduler, CodexPeer

VARIABLE part

vars == <<part, eventVars, schedulerVars, codexVars>>

Init ==
  /\ part \in {"events", "schedules", "codex"} /\ EventInit /\ SchedulerInit /\ CodexInit

Next ==
  \/ part = "events" /\ EventNext /\ UNCHANGED <<part, schedulerVars, codexVars>>
  \/ part = "schedules" /\ SchedulerNext /\ UNCHANGED <<part, eventVars, codexVars>>
  \/ part = "codex" /\ CodexNext /\ UNCHANGED <<part, eventVars, schedulerVars>>

Spec == Init /\ [][Next]_vars /\ EventFairness /\ SchedulerFairness /\ CodexFairness
=============================================================================
