---------------------------- MODULE RunLifecycle ----------------------------
(***************************************************************************)
(* The life of a run: the server process creates a task row and asks the   *)
(* runner daemon over HTTP to start it; the daemon executes one goroutine  *)
(* per started task (worker.Manager.run) around one CLI process; users     *)
(* cancel and preempt runs, approvals suspend them, a watchdog interrupts  *)
(* rows whose heartbeat stopped, and either process can die.  The two      *)
(* processes agree only through the rows of TaskTable.                     *)
(***************************************************************************)
EXTENDS TaskTable

CONSTANTS
  Driver,       \* the CLI of each row: Drivers
  Slot,         \* approval requests one run may have open at a time
  Users,        \* what users do: subset of UserOps
  Faults,       \* what goes wrong: subset of FaultKinds
  MaxFaults,    \* bound on the number of crashes, stalls and lost replies
  MaxStarts,    \* bound on the start requests of one row under way at a time
  MaxCancels    \* bound on the cancel and preempt handlers under way at a time

Drivers    == {"claude", "codex", "exec"}
UserOps    == {"cancel", "preempt", "replay"}
FaultKinds == {"setup", "reply_lost", "runner_crash", "server_crash", "stall"}

ASSUME RunLifecycleAssumption ==
  /\ Driver \in [Task -> Drivers]
  /\ Users \subseteq UserOps
  /\ Faults \subseteq FaultKinds
  /\ MaxFaults \in Nat
  /\ MaxStarts \in Nat \ {0}
  /\ MaxCancels \in Nat

VARIABLES
  up,          \* is the runner daemon up
  pc,          \* where the run goroutine of each task is
  promoted,    \* the row a finished run has dequeued and not yet started
  ctx,         \* runs whose context is canceled
  blockedSeen, \* runs whose blockedState is set
  resumeFailed,\* runs whose resumeFailureState is set
  outcome,     \* the status a run has computed and not yet stored
  ask,         \* approval handlers of each run
  starting,    \* server: Start requests not yet answered
  failing,     \* server: Start requests that failed, FinishTask still to come
  canceling,   \* server: what the cancel handler of each task will do next
  watched,     \* server: rows the watchdog interrupted and has yet to cancel
  faults,      \* number of faults so far
  spawned      \* history: how often each task's CLI was spawned

runner == <<up, pc, promoted, ctx, blockedSeen, resumeFailed, outcome, ask>>
server == <<starting, failing, canceling, watched>>
vars   == <<table, runner, server, faults, spawned>>

(* "admitted": in the cancels map, SetRunning not yet done; "setup": row    *)
(* running, no CLI yet; "live": CLI process running; "exited": status       *)
(* computed; "finished": FinishTask done; "promoting": next row dequeued.   *)
RunPc     == {"none", "admitted", "setup", "live", "exited", "finished", "promoting"}
Executing == {"setup", "live", "exited"}
AskPc     == {"none", "asked", "waiting"}
CancelPc  == {"none", "cancel_waiting", "cancel_queued", "cancel_running", "free_workdir",
              "preempt_weak", "preempt_running", "preempt_set"}

TypeOK ==
  /\ TableTypeOK
  /\ up \in BOOLEAN
  /\ pc \in [Task -> RunPc]
  /\ promoted \in [Task -> Task \cup {0}]
  /\ ctx \subseteq Task /\ blockedSeen \subseteq Task /\ resumeFailed \subseteq Task
  /\ outcome \in [Task -> Terminal \cup {"none"}]
  /\ ask \in [Task -> [Slot -> AskPc]]
  /\ starting \in [Task -> Nat] /\ failing \in [Task -> Nat]
  /\ canceling \in [Task -> CancelPc]
  /\ watched \subseteq Task
  /\ faults \in Nat
  /\ spawned \in [Task -> Nat]

Init ==
  /\ TableInit
  /\ up = TRUE
  /\ pc = [t \in Task |-> "none"]
  /\ promoted = [t \in Task |-> 0]
  /\ ctx = {} /\ blockedSeen = {} /\ resumeFailed = {}
  /\ outcome = [t \in Task |-> "none"]
  /\ ask = [t \in Task |-> [h \in Slot |-> "none"]]
  /\ starting = [t \in Task |-> 0] /\ failing = [t \in Task |-> 0]
  /\ canceling = [t \in Task |-> "none"]
  /\ watched = {}
  /\ faults = 0
  /\ spawned = [t \in Task |-> 0]

Fault(k) == k \in Faults /\ faults < MaxFaults /\ faults' = faults + 1

Quiet(t)     == \A h \in Slot : ask[t][h] = "none"
InCancels(t) == pc[t] # "none"        \* the entry of Manager.cancels

-----------------------------------------------------------------------------
(* The runner daemon: Manager.Start, run and what run calls.               *)

(* Manager.Start looks at the row, then takes the cancels entry. *)
CanStart(t) == status[t] = "queued" /\ ~InCancels(t)
Admit(t)    == pc' = [pc EXCEPT ![t] = "admitted"]

(* Returning from run deletes the cancels entry, and with it goes the rest  *)
(* of the run's own state; detached approval handlers stay.                 *)
Return(t) == /\ pc' = [pc EXCEPT ![t] = "none"]
             /\ ctx' = ctx \ {t}

RunSetRunning(t) ==
  /\ pc[t] = "admitted"
  /\ \/ /\ SetRunning(t)
        /\ pc' = [pc EXCEPT ![t] = "setup"]
        /\ UNCHANGED ctx
     \/ /\ status[t] # "queued"
        /\ Return(t)
        /\ UNCHANGED table
  /\ UNCHANGED <<up, promoted, blockedSeen, resumeFailed, outcome, ask, server, faults, spawned>>

(* The workspace, the tool command or the spawn fails (the spawn also when  *)
(* the context is already canceled): the row fails and run returns, without *)
(* looking for a waiting row.                                               *)
RunSetupFails(t) ==
  /\ pc[t] = "setup"
  /\ t \in ctx \/ "setup" \in Faults
  /\ FinishTask(t, "failed")
  /\ Return(t)
  /\ UNCHANGED <<up, promoted, blockedSeen, resumeFailed, outcome, ask, server, faults, spawned>>

RunSpawn(t) ==
  /\ pc[t] = "setup"
  /\ t \notin ctx
  /\ pc' = [pc EXCEPT ![t] = "live"]
  /\ spawned' = [spawned EXCEPT ![t] = @ + 1]
  /\ UNCHANGED <<table, up, promoted, ctx, blockedSeen, resumeFailed, outcome, ask, server, faults>>

(* claude prints, on stdout or stderr, an approval prompt nobody can        *)
(* answer: the row is blocked, once, while the CLI is still running.        *)
RunBlocks(t) ==
  /\ pc[t] = "live"
  /\ Driver[t] = "claude"
  /\ t \notin blockedSeen
  /\ SetStatus(t, "blocked")
  /\ blockedSeen' = blockedSeen \cup {t}
  /\ UNCHANGED <<up, pc, promoted, ctx, resumeFailed, outcome, ask, server, faults, spawned>>

(* codex answers a request with an error, or the request is cut short by    *)
(* the canceled context (failOnce); claude finds no conversation to resume  *)
(* (handleResumeNotFound).  The run is doomed and cancels itself.           *)
RunResumeFails(t) ==
  /\ pc[t] = "live"
  /\ Driver[t] # "exec"
  /\ t \notin resumeFailed
  /\ resumeFailed' = resumeFailed \cup {t}
  /\ ctx' = ctx \cup {t}
  /\ UNCHANGED <<table, up, pc, promoted, blockedSeen, outcome, ask, server, faults, spawned>>

(* The CLI asks for permission: a goroutine of its own handles the request  *)
(* for codex, the stdout reader itself for claude.                          *)
RunAsks(t, h) ==
  /\ pc[t] = "live"
  /\ ask[t][h] = "none"
  /\ Driver[t] = "codex" \/ (Driver[t] = "claude" /\ Quiet(t))
  /\ ask' = [ask EXCEPT ![t][h] = "asked"]
  /\ UNCHANGED <<table, up, pc, promoted, ctx, blockedSeen, resumeFailed, outcome, server, faults, spawned>>

(* A write outside a run workspace is refused and blocks the row. *)
AskBlocks(t, h) ==
  /\ ask[t][h] = "asked"
  /\ SetStatus(t, "blocked")
  /\ ask' = [ask EXCEPT ![t][h] = "none"]
  /\ blockedSeen' = IF pc[t] = "live" THEN blockedSeen \cup {t} ELSE blockedSeen
  /\ UNCHANGED <<up, pc, promoted, ctx, resumeFailed, outcome, server, faults, spawned>>

(* Any other request is stored and the row awaits its approval. *)
AskAwaits(t, h) ==
  /\ ask[t][h] = "asked"
  /\ SetStatus(t, "awaiting_approval")
  /\ ask' = [ask EXCEPT ![t][h] = "waiting"]
  /\ UNCHANGED <<up, pc, promoted, ctx, blockedSeen, resumeFailed, outcome, server, faults, spawned>>

(* A decision, the five-minute timer or the canceled context ends the wait. *)
AskReturnsUncanceled(t, h) ==
  /\ t \notin ctx
  /\ ask[t][h] = "waiting"
  /\ SetStatus(t, "running")
  /\ ask' = [ask EXCEPT ![t][h] = "none"]
  /\ UNCHANGED <<up, pc, promoted, ctx, blockedSeen, resumeFailed, outcome, server, faults, spawned>>

AskReturns(t, h) ==
  /\ ask[t][h] = "waiting"
  /\ SetStatus(t, "running")
  /\ ask' = [ask EXCEPT ![t][h] = "none"]
  /\ UNCHANGED <<up, pc, promoted, ctx, blockedSeen, resumeFailed, outcome, server, faults, spawned>>

(* The CLI's output ends and the CLI exits; run computes the status, the    *)
(* last time it looks at blockedState and resumeFailureState.               *)
ExitStatusOfRow(t) ==
  IF t \in resumeFailed THEN {"failed"}
  ELSE IF t \in ctx THEN {"canceled"}
  ELSE {status[t]}

ExitStatus(t) ==
  IF t \in resumeFailed THEN {"failed"}
  ELSE IF t \in ctx THEN {"canceled"}
  ELSE IF t \in blockedSeen \/ status[t] = "blocked" THEN {"blocked"}
  ELSE {"succeeded", "failed"}

(* run waits for the stdout reader, and so for a claude approval under way. *)
ReaderDoneEarly(t) == TRUE
ReaderDone(t)      == Driver[t] = "codex" \/ Quiet(t)

RunExits(t) ==
  /\ pc[t] = "live"
  /\ ReaderDone(t)
  /\ \E s \in ExitStatus(t) : outcome' = [outcome EXCEPT ![t] = s]
  /\ pc' = [pc EXCEPT ![t] = "exited"]
  /\ blockedSeen' = blockedSeen \ {t} /\ resumeFailed' = resumeFailed \ {t}
  /\ UNCHANGED <<table, up, promoted, ctx, ask, server, faults, spawned>>

RunFinishes(t) ==
  /\ pc[t] = "exited"
  /\ FinishTask(t, outcome[t])
  /\ pc' = [pc EXCEPT ![t] = "finished"]
  /\ outcome' = [outcome EXCEPT ![t] = "none"]
  /\ UNCHANGED <<up, promoted, ctx, blockedSeen, resumeFailed, ask, server, faults, spawned>>

(* maybeStartNextWaitingForWorkdir, in two steps: dequeue, then Start. *)
RunDequeues(t) ==
  /\ pc[t] = "finished"
  /\ \/ /\ ~CanDequeue(t)
        /\ Return(t)
        /\ UNCHANGED <<table, promoted>>
     \/ \E n \in Task :
          /\ Dequeue(t, n)
          /\ promoted' = [promoted EXCEPT ![t] = n]
          /\ pc' = [pc EXCEPT ![t] = "promoting"]
          /\ UNCHANGED ctx
  /\ UNCHANGED <<up, blockedSeen, resumeFailed, outcome, ask, server, faults, spawned>>

RunStartsNext(t) ==
  LET n == promoted[t] IN
  /\ pc[t] = "promoting"
  /\ \/ /\ CanStart(n)
        /\ pc' = [pc EXCEPT ![t] = "none", ![n] = "admitted"]
        /\ UNCHANGED table
     \/ /\ ~CanStart(n)
        /\ FinishTask(n, "failed")
        /\ pc' = [pc EXCEPT ![t] = "none"]
  /\ ctx' = ctx \ {t}
  /\ promoted' = [promoted EXCEPT ![t] = 0]
  /\ UNCHANGED <<up, blockedSeen, resumeFailed, outcome, ask, server, faults, spawned>>

(* The daemon dies with all its goroutines.  MarkInterrupted runs at boot,  *)
(* before the daemon listens.                                               *)
RunnerCrash ==
  /\ up
  /\ Fault("runner_crash")
  /\ up' = FALSE
  /\ pc' = [t \in Task |-> "none"]
  /\ promoted' = [t \in Task |-> 0]
  /\ ctx' = {} /\ blockedSeen' = {} /\ resumeFailed' = {}
  /\ outcome' = [t \in Task |-> "none"]
  /\ ask' = [t \in Task |-> [h \in Slot |-> "none"]]
  /\ UNCHANGED <<table, server, spawned>>

RunnerBoot ==
  /\ ~up
  /\ up' = TRUE
  /\ MarkInterrupted
  /\ UNCHANGED <<pc, promoted, ctx, blockedSeen, resumeFailed, outcome, ask, server, faults, spawned>>

-----------------------------------------------------------------------------
(* The server: creating, starting, canceling, preempting, the watchdog.    *)

AddStart(t) == starting' = [starting EXCEPT ![t] = @ + 1]

(* CreateTask and startTask's test of the new row's status. *)
CreateAndStart(t, strategy) ==
  /\ Insert(t, strategy)
  /\ AddStart(t)
  /\ UNCHANGED <<runner, failing, canceling, watched, faults, spawned>>

Create(t, strategy) ==
  /\ Insert(t, strategy)
  /\ IF status'[t] = "queued" THEN AddStart(t) ELSE UNCHANGED starting
  /\ UNCHANGED <<runner, failing, canceling, watched, faults, spawned>>

(* A second create with the idempotency key of row t returns the row as it  *)
(* is, and startTask starts it again when it is queued.                     *)
Replay(t) ==
  /\ "replay" \in Users
  /\ status[t] = "queued"
  /\ starting[t] + failing[t] < MaxStarts
  /\ AddStart(t)
  /\ UNCHANGED <<table, runner, failing, canceling, watched, faults, spawned>>

StartFails(t) == /\ starting' = [starting EXCEPT ![t] = @ - 1]
                 /\ failing' = [failing EXCEPT ![t] = @ + 1]

(* The daemon serves a Start request; its answer may be lost or come after  *)
(* the client's five seconds, which the server takes for a failure.         *)
StartServed(t) ==
  /\ starting[t] > 0
  /\ up
  /\ \/ /\ CanStart(t)
        /\ Admit(t)
        /\ \/ /\ starting' = [starting EXCEPT ![t] = @ - 1]
              /\ UNCHANGED <<failing, faults>>
           \/ /\ StartFails(t)
              /\ Fault("reply_lost")
     \/ /\ ~CanStart(t)
        /\ StartFails(t)
        /\ UNCHANGED <<pc, faults>>
  /\ UNCHANGED <<table, up, promoted, ctx, blockedSeen, resumeFailed, outcome, ask, canceling, watched, spawned>>

StartUnreachable(t) ==
  /\ starting[t] > 0
  /\ IF up THEN Fault("reply_lost") ELSE UNCHANGED faults
  /\ StartFails(t)
  /\ UNCHANGED <<table, runner, canceling, watched, spawned>>

(* startTask and CancelTask on a Start error: the row failed. *)
StartGivesUp(t) ==
  /\ failing[t] > 0
  /\ failing' = [failing EXCEPT ![t] = @ - 1]
  /\ FinishTask(t, "failed")
  /\ UNCHANGED <<runner, starting, canceling, watched, faults, spawned>>

CancelGoesTo(t, step) == canceling' = [canceling EXCEPT ![t] = step]

MayCancel(t) == /\ canceling[t] = "none"
                /\ Cardinality({u \in Task : canceling[u] # "none"}) < MaxCancels

(* CancelTask reads the row, then acts on the status it has read. *)
CancelReads(t) ==
  /\ "cancel" \in Users
  /\ MayCancel(t)
  /\ \/ status[t] = "waiting" /\ CancelGoesTo(t, "cancel_waiting")
     \/ status[t] = "queued" /\ CancelGoesTo(t, "cancel_queued")
     \/ status[t] \in {"running", "awaiting_approval"} /\ CancelGoesTo(t, "cancel_running")
  /\ UNCHANGED <<table, runner, starting, failing, watched, faults, spawned>>

CancelSetsCanceled(t) ==
  /\ \/ canceling[t] = "cancel_waiting" /\ CancelGoesTo(t, "none")
     \/ canceling[t] = "cancel_queued" /\ CancelGoesTo(t, "free_workdir")
     \/ canceling[t] = "preempt_set" /\ CancelGoesTo(t, "none")
  /\ SetStatus(t, "canceled")
  /\ UNCHANGED <<runner, starting, failing, watched, faults, spawned>>

(* Canceling a queued row promotes the next waiting one and starts it. *)
CancelFreesWorkdir(t) ==
  /\ canceling[t] = "free_workdir"
  /\ CancelGoesTo(t, "none")
  /\ \/ ~CanDequeue(t) /\ UNCHANGED <<table, starting>>
     \/ \E n \in Task : Dequeue(t, n) /\ AddStart(n)
  /\ UNCHANGED <<runner, failing, watched, faults, spawned>>

CancelContext(t) == IF up /\ InCancels(t) THEN ctx' = ctx \cup {t} ELSE UNCHANGED ctx

CancelAsksRunner(t) ==
  /\ canceling[t] = "cancel_running"
  /\ CancelContext(t)
  /\ CancelGoesTo(t, "none")
  /\ UNCHANGED <<table, up, pc, promoted, blockedSeen, resumeFailed, outcome, ask,
                 starting, failing, watched, faults, spawned>>

(* PreemptContinueSession cancels the in-flight run it has read, and when   *)
(* the daemon knows no such run marks a row that was not running canceled.  *)
PreemptReads(t) ==
  /\ "preempt" \in Users
  /\ MayCancel(t)
  /\ \/ status[t] \in {"queued", "waiting", "awaiting_approval"} /\ CancelGoesTo(t, "preempt_weak")
     \/ status[t] = "running" /\ CancelGoesTo(t, "preempt_running")
  /\ UNCHANGED <<table, runner, starting, failing, watched, faults, spawned>>

PreemptAsksRunner(t) ==
  /\ canceling[t] \in {"preempt_weak", "preempt_running"}
  /\ CancelContext(t)
  /\ CancelGoesTo(t, IF up /\ ~InCancels(t) /\ canceling[t] = "preempt_weak"
                     THEN "preempt_set" ELSE "none")
  /\ UNCHANGED <<table, up, pc, promoted, blockedSeen, resumeFailed, outcome, ask,
                 starting, failing, watched, faults, spawned>>

(* A row somebody is at work on is written, or moves on, well within the    *)
(* watchdog's fifteen minutes: a run's heartbeat touches its row every      *)
(* thirty seconds, an approval waits five minutes, a request five seconds.  *)
Attended(t) ==
  \/ starting[t] + failing[t] > 0
  \/ up /\ InCancels(t)
  \/ up /\ ~Quiet(t)
  \/ \E u \in Task : promoted[u] = t

(* The watchdog interrupts a row nobody wrote for fifteen minutes: a row    *)
(* that is not attended, or, when the host or one of those steps stalls (a  *)
(* laptop sleeps, a killed CLI leaves its pipe open), any row in flight.    *)
WatchdogInterrupts(t) ==
  /\ watched = {}
  /\ IF Attended(t) THEN Fault("stall") ELSE UNCHANGED faults
  /\ InterruptIfInFlight(t)
  /\ watched' = {t}
  /\ UNCHANGED <<runner, starting, failing, canceling, spawned>>

WatchdogCancels(t) ==
  /\ t \in watched
  /\ CancelContext(t)
  /\ watched' = {}
  /\ UNCHANGED <<table, up, pc, promoted, blockedSeen, resumeFailed, outcome, ask,
                 starting, failing, canceling, faults, spawned>>

(* The server dies with the handlers under way and is started again. *)
ServerCrash ==
  /\ Fault("server_crash")
  /\ starting' = [t \in Task |-> 0] /\ failing' = [t \in Task |-> 0]
  /\ canceling' = [t \in Task |-> "none"]
  /\ watched' = {}
  /\ UNCHANGED <<table, runner, spawned>>

-----------------------------------------------------------------------------
RunStep(t) ==
  \/ RunSetRunning(t) \/ RunSetupFails(t) \/ RunSpawn(t)
  \/ RunFinishes(t) \/ RunDequeues(t) \/ RunStartsNext(t)

AskStep(t) == \E h \in Slot : AskBlocks(t, h) \/ AskAwaits(t, h) \/ AskReturns(t, h)

ServerStep(t) ==
  \/ StartServed(t) \/ StartUnreachable(t) \/ StartGivesUp(t)
  \/ CancelSetsCanceled(t) \/ CancelFreesWorkdir(t) \/ CancelAsksRunner(t)
  \/ PreemptAsksRunner(t)
  \/ WatchdogInterrupts(t) \/ WatchdogCancels(t)

CliStep(t) ==
  \/ RunBlocks(t) \/ RunResumeFails(t) \/ RunExits(t)
  \/ \E h \in Slot : RunAsks(t, h)

UserStep(t) ==
  \/ \E strategy \in {"exclusive", "wait"} : Create(t, strategy)
  \/ Replay(t) \/ CancelReads(t) \/ PreemptReads(t)

Next ==
  \/ \E t \in Task : \/ RunStep(t) \/ AskStep(t) \/ ServerStep(t) \/ CliStep(t) \/ UserStep(t)
  \/ RunnerCrash \/ RunnerBoot \/ ServerCrash

Spec == Init /\ [][Next]_vars

(* What the two processes do by themselves.  Nothing obliges a user to act, *)
(* a fault to happen or a dead daemon to be started again (the server       *)
(* starts it only when it starts itself).                                   *)
Fairness ==
  \A t \in Task :
    /\ WF_vars(RunStep(t))
    /\ WF_vars(StartServed(t) \/ StartUnreachable(t))
    /\ WF_vars(StartGivesUp(t))
    /\ WF_vars(CancelSetsCanceled(t) \/ CancelFreesWorkdir(t) \/ CancelAsksRunner(t)
               \/ PreemptAsksRunner(t))
    /\ WF_vars(WatchdogInterrupts(t))
    /\ WF_vars(WatchdogCancels(t))
    /\ \A h \in Slot : WF_vars(AskBlocks(t, h) \/ AskAwaits(t, h)) /\ WF_vars(AskReturns(t, h))

(* An assumption on the CLIs: each ends by itself, sooner or later.  Of a   *)
(* canceled run's it is a fact: exec.CommandContext kills it, and what it   *)
(* has still written to its pipe is finite, so it cannot keep run busy with *)
(* approval requests for ever (strong).                                     *)
EveryCliEnds == \A t \in Task : SF_vars(RunExits(t))

LiveCliSpec == Spec /\ Fairness /\ EveryCliEnds

-----------------------------------------------------------------------------
(* Safety. *)

SharesDir(t, u) == t # u /\ WorkdirOf[t] = WorkdirOf[u]

(* At most one row in flight per workdir, whatever cancels, replays,        *)
(* crashes and promotions interleave, unless a row that was already final   *)
(* has been set back to running or awaiting_approval (store.go 104, 580).   *)
OneHolder ==
  \A t, u \in Task :
    SharesDir(t, u) /\ status[t] \in InFlight /\ status[u] \in InFlight
      => t \in revived \/ u \in revived

(* Two CLI processes share a workdir only when somebody has made the row of *)
(* one of them final while it was still running, or a final row was         *)
(* revived: no interleaving of start, dequeue and crash alone does it.      *)
OneCli ==
  \A t, u \in Task :
    SharesDir(t, u) /\ pc[t] \in Executing /\ pc[u] \in Executing
      => {t, u} \cap revived # {} \/ status[t] \in Terminal \/ status[u] \in Terminal

(* A task's CLI is spawned at most once in its life: replayed creates, lost *)
(* answers, a promotion by a cancel racing one by a run, and restarts of    *)
(* either process never execute a task twice.                               *)
SpawnedOnce == \A t \in Task : spawned[t] <= 1

(* Whatever is under way for a row in either process, the row says so: only *)
(* a row that exists is canceled; a row that is being started, runs, awaits *)
(* approvals or has just been promoted is neither absent nor waiting, and   *)
(* is not queued once its run has set it running; and only such a row's     *)
(* CLI has been spawned.                                                    *)
Begun(t) ==
  \/ pc[t] # "none" \/ ~Quiet(t)
  \/ starting[t] > 0 \/ failing[t] > 0
  \/ \E u \in Task : promoted[u] = t

RowBegun(t) ==
  /\ canceling[t] # "none" => status[t] # "absent"
  /\ Begun(t) => status[t] \notin {"absent", "waiting"}
  /\ pc[t] \notin {"none", "admitted"} \/ ~Quiet(t) \/ spawned[t] > 0
       => status[t] \notin {"absent", "waiting", "queued"}
  /\ pc[t] = "setup" => spawned[t] = 0
  /\ pc[t] = "exited" => outcome[t] # "none"
  /\ pc[t] = "promoting" => promoted[t] # 0

RowsBegun == \A t \in Task : RowBegun(t)

(* Once a run has executed and returned, and its approval handlers too, its *)
(* row is final: nothing it leaves behind holds the workdir.  So it is with *)
(* the CLIs whose approvals block the stdout reader (manager.go 514).       *)
EndedFinal(t) ==
  up /\ spawned[t] > 0 /\ pc[t] = "none" /\ Quiet(t) => status[t] \in Terminal

EndedRunIsFinal == \A t \in Task : Driver[t] # "codex" => EndedFinal(t)

(* "Mutual exclusion: disallow concurrent queued/running/waiting tasks per  *)
(* workdir" (store.go): two rows in flight never share a workdir.  True of  *)
(* runs without approvals, for all users and faults; with approvals a       *)
(* blocked row frees the workdir and may come back, in flight.              *)
WorkdirMutex ==
  \A t, u \in Task : SharesDir(t, u) => status[t] \notin InFlight \/ status[u] \notin InFlight

(* A row with finished_at keeps its status while no user cancels it, if its *)
(* CLI asks nobody: FinishTask's guard is enough against the run, the       *)
(* watchdog, replays and failed starts finishing one row in any order.      *)
FinishedStays ==
  [][\A t \in finished :
       Driver[t] = "exec" /\ canceling[t] = "none" => status'[t] = status[t]]_vars

-----------------------------------------------------------------------------
(* What comments and tests say of the code, and the code does not always do *)
(* (WorkdirMutex is one of them as well).                                   *)

(* A canceled codex run ends canceled (the test of its approvals): a codex  *)
(* run, too, leaves a final row behind.  Its approval handlers run on their *)
(* own, and one may set the row running after run has finished it.          *)
EndedCodexRunIsFinal == \A t \in Task : Driver[t] = "codex" => EndedFinal(t)

(* "Waiting tasks are started by the runner daemon when the workdir becomes *)
(* available" (startTask): no row waits for ever when every CLI ends.  A    *)
(* run that fails before its CLI is spawned does not look for one.          *)
WaitingStarted == \A t \in Task : status[t] = "waiting" ~> status[t] # "waiting"

-----------------------------------------------------------------------------
(* The abstract lock this implements. *)

PhaseOf(s) ==
  CASE s = "absent"     -> "new"
    [] s = "waiting"    -> "waiting"
    [] s \in InFlight   -> "holding"
    [] s \in Terminal   -> "left"

Lock == INSTANCE WorkdirLock WITH
  NClients <- NTasks,
  Dir      <- Workdir,
  DirOf    <- WorkdirOf,
  Reopens  <- Slot # {},
  phase    <- [t \in Task |-> PhaseOf(status[t])],
  reopened <- revived

(* Every step of either process, with every fault, is a step of a first-    *)
(* come first-served lock per workdir: a row enters its workdir only when   *)
(* it is free, waiting rows in the order of their creation, and only rows   *)
(* that ask for approvals ever come back after they were final.             *)
LockSpec == Lock!Spec

-----------------------------------------------------------------------------
(* Liveness. *)

(* A run whose context is canceled returns, whether it is setting up,       *)
(* waiting for an approval, live (then its CLI is killed) or promoting the  *)
(* next row; with EndedRunIsFinal, its row is then final.                   *)
CanceledRunEnds == \A t \in Task : t \in ctx ~> pc[t] = "none"

(* No row waits for ever, but where a run of its workdir ended before its   *)
(* CLI was spawned, or a process died: the end of a run, and the canceling  *)
(* of a queued row, promote the next.                                       *)
WaitingServed ==
  \A t \in Task :
    status[t] = "waiting" ~>
      \/ status[t] # "waiting"
      \/ faults > 0
      \/ \E u \in SameDir(t) : status[u] \in Terminal /\ spawned[u] = 0

(* No row holds its workdir for ever, also when the daemon dies and is not  *)
(* started again, or the server dies with a Start request under way: then   *)
(* only the watchdog gets the row out of the way.                           *)
HoldersLeave == \A t \in Task : status[t] \in InFlight ~> status[t] \notin InFlight
=============================================================================
