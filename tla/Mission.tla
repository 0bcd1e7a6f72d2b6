------------------------------ MODULE Mission ------------------------------
(***************************************************************************)
(* How far one conversation goes on its own.  A mission contract is        *)
(* revised and confirmed (tasks/mission_contract.go); the execution plan   *)
(* loop (taskops/execution_plan_loop.go) starts runs for a confirmed one   *)
(* until a limit, following the next action (tasks/next_action.go), while  *)
(* others start runs of the same conversation.  The safety options of the  *)
(* runs are the module RunSafety, the queue of prompts ContinueQueue.      *)
(***************************************************************************)
EXTENDS Naturals, Sequences, FiniteSets

CONSTANTS
    PlanLoop,       \* callers of the loop
    Confirmer,      \* who may confirm a contract
    MaxTotal,       \* the largest max_total_iterations a caller gives
    MaxPerCall,     \* the largest max_iterations
    GradedTotal,    \* the cap on the total for a graded project
    MaxPlanRuns,    \* runs of the conversation: bounds the model
    MaxRevisions,   \* revisions of the contract: bounds the model
    MaxLost         \* writes of the plan's row that fail: bounds the model

ASSUME MissionAssumption ==
    \A n \in {MaxTotal, MaxPerCall, GradedTotal, MaxPlanRuns, MaxRevisions, MaxLost} : n \in Nat

VARIABLES
    runs,       \* the runs of the conversation, oldest first
    workspace,  \* whether the run workspace of the session is active
    contract,   \* its last revision (0: none) and the confirmed one
    policy,     \* the autonomy mode of the project
    plan,       \* the row of the execution plan: revision (0: no row), iteration
    loop,       \* the callers of the loop
    confirming, \* the revision each confirmer has read (0: none)
    history     \* lost writes, and runs planned since the contract was last touched

missionVars == <<runs, workspace, contract, policy, plan, loop, confirming, history>>

\* A run in flight is queued, waiting, running or awaiting an approval; one that
\* is over succeeded, failed, or was canceled or interrupted.
PlanRow == [revision : Nat, iteration : Nat]
Resting == [at |-> "idle", of |-> 0, limit |-> 0, budget |-> 0, plan |-> [revision |-> 0, iteration |-> 0], queued |-> FALSE]

\* One type condition for the module.
MissionTypeOK ==
    /\ runs \in Seq([status : {"in flight", "over", "blocked"}, by : {"others", "loop"}, of : Nat, number : Nat, limit : Nat])
    /\ workspace \in BOOLEAN /\ contract \in [revision : Nat, confirmed : Nat]
    /\ policy \in {"graded", "max"} /\ plan \in PlanRow
    /\ loop \in [PlanLoop -> [at : {"idle", "admit", "ensure", "choose", "continue", "create", "persist"}, of : Nat,
                              limit : Nat, budget : Nat, plan : PlanRow, queued : BOOLEAN]]
    /\ confirming \in [Confirmer -> Nat] /\ history \in [lost : Nat, planned : Nat]

MissionInit ==
    /\ runs = << >> /\ workspace = FALSE /\ contract = [revision |-> 0, confirmed |-> 0] /\ policy = "graded"
    /\ plan = [revision |-> 0, iteration |-> 0] /\ loop = [l \in PlanLoop |-> Resting]
    /\ confirming = [c \in Confirmer |-> 0] /\ history = [lost |-> 0, planned |-> 0]

----------------------------------------------------------------------------
(* The next action.                                                        *)

RunInFlight == \E r \in DOMAIN runs : runs[r].status = "in flight"
MissionConfirmed(revision) == revision > 0 /\ contract.confirmed = revision

\* A mutant: the contract is not looked at again.
NextActionUngated ==
    IF RunInFlight THEN "wait" ELSE IF runs # << >> /\ workspace THEN "merge_workspace" ELSE "run"

\* ComputeNextAction: start_run and resume_run are one, and so are the two that wait.
NextAction ==
    IF RunInFlight THEN "wait"
    ELSE IF runs # << >> /\ workspace THEN "merge_workspace"
    ELSE IF contract.revision > 0 /\ ~MissionConfirmed(contract.revision) THEN "confirm_contract"
    ELSE "run"

----------------------------------------------------------------------------
(* The contract, the policy, and what others do in the conversation.       *)

Touched == history' = [history EXCEPT !.planned = 0]

UpsertMissionContract ==
    /\ contract.revision < MaxRevisions
    /\ contract' = [contract EXCEPT !.revision = @ + 1] /\ Touched
    /\ UNCHANGED <<runs, workspace, policy, plan, loop, confirming>>

\* ConfirmMissionContract reads the revision and then writes it.
ConfirmMissionContract(c) ==
    /\ \/ /\ confirming[c] = 0 /\ contract.revision > 0
          /\ confirming' = [confirming EXCEPT ![c] = contract.revision] /\ UNCHANGED <<contract, history>>
       \/ /\ confirming[c] > 0 /\ confirming' = [confirming EXCEPT ![c] = 0]
          /\ contract' = [contract EXCEPT !.confirmed = confirming[c]] /\ Touched
    /\ UNCHANGED <<runs, workspace, policy, plan, loop>>

UpsertProjectAutonomyPolicy ==
    /\ policy' \in {"graded", "max"} \ {policy}
    /\ UNCHANGED <<runs, workspace, contract, plan, loop, confirming, history>>

\* CreateTask: one run of the conversation, and of its workdir, at a time.
NewRun(by, of, number, limit) ==
    /\ ~RunInFlight /\ Len(runs) < MaxPlanRuns
    /\ runs' = Append(runs, [status |-> "in flight", by |-> by, of |-> of, number |-> number, limit |-> limit])

\* A first run, a continued one, or a prompt of the queue.
OthersRun ==
    /\ NewRun("others", 0, 0, 0)
    /\ UNCHANGED <<workspace, contract, policy, plan, loop, confirming, history>>

\* handleSessionNextActionExecute: refused while a contract waits for its confirmation.
ExecuteNextAction == runs # << >> /\ NextAction # "confirm_contract" /\ OthersRun

\* A run may have used a workspace.
RunEnds(r) ==
    /\ runs[r].status = "in flight"
    /\ \E status \in {"over", "blocked"} : runs' = [runs EXCEPT ![r].status = status]
    /\ workspace' \in {workspace, TRUE}
    /\ UNCHANGED <<contract, policy, plan, loop, confirming, history>>

MergeWorkspace ==
    /\ workspace /\ ~RunInFlight /\ workspace' = FALSE
    /\ UNCHANGED <<runs, contract, policy, plan, loop, confirming, history>>

----------------------------------------------------------------------------
(* RunExecutionPlanLoopV1.                                                 *)

LoopGoes(l, next) == loop' = [loop EXCEPT ![l] = next]

LoopBegins(l) ==
    /\ loop[l].at = "idle" /\ contract.revision > 0
    /\ LoopGoes(l, [Resting EXCEPT !.at = "admit", !.of = contract.revision])
    /\ UNCHANGED <<runs, workspace, contract, policy, plan, confirming, history>>

\* The contract it read must be confirmed; the policy bounds what was asked for.
LoopAdmitted(l, total, perCall) ==
    /\ loop[l].at = "admit"
    /\ LoopGoes(l, IF ~MissionConfirmed(loop[l].of) THEN Resting
                   ELSE [loop[l] EXCEPT !.at = "ensure", !.plan = plan,
                            !.budget = IF policy = "graded" THEN 1 ELSE perCall,
                            !.limit = IF policy = "graded" /\ total > GradedTotal THEN GradedTotal ELSE total])
    /\ UNCHANGED <<runs, workspace, contract, policy, plan, confirming, history>>

\* ensureExecutionPlanState, on the row read before, and the limit.
LoopEnsures(l) ==
    /\ loop[l].at = "ensure"
    /\ LET me == loop[l]
           kept == me.plan.revision = me.of
           row == IF kept THEN me.plan ELSE [revision |-> me.of, iteration |-> 0]
           left == me.limit - row.iteration
       IN /\ plan' = IF kept THEN plan ELSE row
          /\ LoopGoes(l, IF row.iteration >= me.limit THEN Resting
                         ELSE [me EXCEPT !.at = "choose", !.plan = row, !.budget = IF left < @ THEN left ELSE @])
    /\ UNCHANGED <<runs, workspace, contract, policy, confirming, history>>

\* Anything else than a run is noted in the plan's row, if the write succeeds,
\* and ends the call.
LoopChooses(l) ==
    /\ loop[l].at = "choose"
    /\ IF NextAction = "run" THEN LoopGoes(l, [loop[l] EXCEPT !.at = "continue"]) /\ UNCHANGED plan
       ELSE LoopGoes(l, Resting) /\ plan' \in {plan, loop[l].plan}
    /\ UNCHANGED <<runs, workspace, contract, policy, confirming, history>>

\* ContinueSession with a prompt alone: refused, queued, or a run.
LoopContinues(l) ==
    /\ loop[l].at = "continue"
    /\ LoopGoes(l, IF runs = << >> THEN Resting
                   ELSE IF runs[Len(runs)].status = "blocked" THEN Resting
                   ELSE IF RunInFlight THEN [loop[l] EXCEPT !.at = "persist", !.queued = TRUE]
                   ELSE [loop[l] EXCEPT !.at = "create"])
    /\ UNCHANGED <<runs, workspace, contract, policy, plan, confirming, history>>

\* The runs the loop has started for one revision.
PlanRuns(revision) == {r \in DOMAIN runs : runs[r].by = "loop" /\ runs[r].of = revision}

LoopCreates(l) ==
    /\ loop[l].at = "create"
    /\ LET me == loop[l] IN
       \/ /\ NewRun("loop", me.of, Cardinality(PlanRuns(me.of)) + 1, me.limit)
          /\ LoopGoes(l, [me EXCEPT !.at = "persist", !.plan.iteration = @ + 1])
          /\ history' = [history EXCEPT !.planned = @ + (IF MissionConfirmed(contract.revision) THEN 0 ELSE 1)]
       \/ LoopGoes(l, Resting) /\ UNCHANGED <<runs, history>>
    /\ UNCHANGED <<workspace, contract, policy, plan, confirming>>

\* The row is written from memory, and the call goes on unless it queued.
LoopPersists(l) ==
    /\ loop[l].at = "persist"
    /\ \/ /\ plan' = loop[l].plan /\ UNCHANGED history
          /\ LoopGoes(l, IF loop[l].queued \/ loop[l].budget = 1 THEN Resting
                         ELSE [loop[l] EXCEPT !.at = "choose", !.budget = @ - 1])
       \/ /\ history.lost < MaxLost /\ history' = [history EXCEPT !.lost = @ + 1]
          /\ LoopGoes(l, Resting) /\ UNCHANGED plan
    /\ UNCHANGED <<runs, workspace, contract, policy, confirming>>

----------------------------------------------------------------------------
LoopStep(l) ==
    \/ \E total \in 1 .. MaxTotal, perCall \in 1 .. MaxPerCall : LoopAdmitted(l, total, perCall)
    \/ LoopBegins(l) \/ LoopEnsures(l) \/ LoopChooses(l) \/ LoopContinues(l) \/ LoopCreates(l) \/ LoopPersists(l)

MissionNext ==
    \/ UpsertMissionContract \/ UpsertProjectAutonomyPolicy \/ OthersRun \/ ExecuteNextAction \/ MergeWorkspace
    \/ \E c \in Confirmer : ConfirmMissionContract(c)
    \/ \E r \in DOMAIN runs : RunEnds(r)
    \/ \E l \in PlanLoop : LoopStep(l)

MissionSpec == MissionInit /\ [][MissionNext]_missionVars

----------------------------------------------------------------------------
\* A plan never gets more runs of one revision than the limit of the call that
\* starts the last of them, however its calls, the policy, queued prompts and
\* the runs of others interleave; each failed write of its row may cost one.
PlanWithinLimit ==
    \A r \in DOMAIN runs : runs[r].by = "loop" => runs[r].number <= runs[r].limit + history.lost

\* Once the contract is revised, at most the one run each loop is about to
\* create still starts before somebody confirms it.
RevisionStops == history.planned <= Cardinality(PlanLoop)

\* Both of the above.
MissionSound == PlanWithinLimit /\ RevisionStops
=============================================================================
