------------------------------ MODULE MCFiles ------------------------------
(* The run workspaces, the skills and the provider profiles, one at a time: *)
(* part says which one runs, the others stay as they were initialised.      *)
EXTENDS RunWorkspace, Skills, Providers

VARIABLE part

vars == <<part, workspaceVars, skillVars, providerVars>>

Init ==
  /\ part \in {"workspaces", "skills", "profiles"}
  /\ WorkspaceInit /\ (part # "workspaces" => rwKind = "copy") /\ SkillsInit /\ ProvidersInit

Next ==
  \/ part = "workspaces" /\ WorkspaceNext /\ UNCHANGED <<part, skillVars, providerVars>>
  \/ part = "skills" /\ SkillsNext /\ UNCHANGED <<part, workspaceVars, providerVars>>
  \/ part = "profiles" /\ ProvidersNext /\ UNCHANGED <<part, workspaceVars, skillVars>>

Spec == Init /\ [][Next]_vars

\* Every component keeps to the values its variables may have.
TypeOK == part \in {"workspaces", "skills", "profiles"} /\ WorkspaceTypeOK /\ SkillsTypeOK /\ ProvidersTypeOK
=============================================================================
