----------------------------- MODULE MCServices -----------------------------
(* The start of the processes, the secretary's conversation and tool loop,  *)
(* the audit, the mission of a conversation, the safety of its runs and the *)
(* database under several processes, one at a time: part says which one     *)
(* runs, the others stay as they were initialised.                          *)
EXTENDS Startup, SecretaryChat, ToolLoop, Audit, Granted, SessionKeys

VARIABLE part

vars == <<part, startupVars, chatVars, loopVars, auditVars, missionVars, safetyVars, keyVars>>

\* The second server comes from a newer build.
Upgrade == <<"old", "new">>

Aliases == [workdir |-> <<"cwd", "dir">>]

\* One more call, a call that is cut short, or the answer.
LaterResponses == {<<"text">>, <<"lt", "tool", "lt", "/tool">>, <<"lt", "tool", "text">>}

TwoSources == <<"task_trace", "secretary_chat">>
Everything == {NoQuery}

Init ==
  /\ part \in {"startup", "chat", "loop", "audit", "mission", "safety", "keys"}
  /\ StartupInit /\ ChatInit /\ ToolLoopInit /\ AuditInit /\ MissionInit /\ SafetyInit
  /\ OpenersInit /\ IF part = "keys" THEN LegacyInit ELSE file = NewDatabase

Next ==
  \/ part = "startup" /\ StartupNext /\ UNCHANGED <<part, chatVars, loopVars, auditVars, missionVars, safetyVars, keyVars>>
  \/ part = "chat" /\ ChatNext /\ UNCHANGED <<part, startupVars, loopVars, auditVars, missionVars, safetyVars, keyVars>>
  \/ part = "loop" /\ ToolLoopNext /\ UNCHANGED <<part, startupVars, chatVars, auditVars, missionVars, safetyVars, keyVars>>
  \/ part = "audit" /\ AuditNext /\ UNCHANGED <<part, startupVars, chatVars, loopVars, missionVars, safetyVars, keyVars>>
  \/ part = "mission" /\ MissionNext /\ UNCHANGED <<part, startupVars, chatVars, loopVars, auditVars, safetyVars, keyVars>>
  \/ part = "safety" /\ SafetyNext /\ UNCHANGED <<part, startupVars, chatVars, loopVars, auditVars, missionVars, keyVars>>
  \/ part = "keys" /\ SessionKeysNext /\ UNCHANGED <<part, startupVars, chatVars, loopVars, auditVars, missionVars, safetyVars>>

Spec == Init /\ [][Next]_vars
=============================================================================
