----------------------------- MODULE Scheduler -----------------------------
(***************************************************************************)
(* The secretary's schedules.  A schedule calls one tool every interval    *)
(* until its time to live is over, and lets the model react to each result *)
(* in a callback.  Its loop, the ticks it starts, the expiry and whoever   *)
(* cancels it all work on one job under scheduleMu; the slow parts (the    *)
(* tool, the model, the wait for sendMu) run with the lock released.       *)
(*                                                                         *)
(* Canceling a job's context is merged with the locked step before it: a   *)
(* loop whose context is done may still pick its ticker or timer.          *)
(***************************************************************************)
EXTENDS Integers, FiniteSets

CONSTANTS
  Schedule,    \* the schedules that may be created
  MaxFires     \* bound on how often the ticker of a schedule fires

ASSUME SchedulerAssumption == MaxFires \in Nat

TickNo == 1 .. MaxFires + 1           \* one more for the notice of expiry
Loop   == 0                           \* the goroutine of runScheduleLoop
Thread == {Loop} \cup TickNo

VARIABLES
  job,        \* what scheduleMu protects, for each schedule
  at,         \* where each goroutine of each schedule is
  past,       \* schedules whose expiresAt is over
  fires,      \* how often each ticker has fired
  timer,      \* schedules whose expiry timer the loop has received
  sendMu,     \* who holds sendMu
  runIds,     \* history: how often each tick number named a run
  notices     \* history: how often each schedule was reported expired

schedulerVars == <<job, at, past, fires, timer, sendMu, runIds, notices>>

JobState == {"absent", "active", "canceled", "expired"}
ThreadPc == {"none", "select", "tool", "callback", "write", "finish",
             "expire", "notice", "notice_write", "cleanup", "ended"}

SchedulerTypeOK ==
  /\ job \in [Schedule -> [state : JobState, listed : BOOLEAN, running : BOOLEAN,
                           pending : BOOLEAN, reported : BOOLEAN, tickNo : Nat]]
  /\ at \in [Schedule -> [Thread -> ThreadPc]]
  /\ past \subseteq Schedule /\ timer \subseteq Schedule
  /\ fires \in [Schedule -> 0 .. MaxFires]
  /\ sendMu \in {"free", "user"}
  /\ runIds \in [Schedule -> [TickNo -> Nat]]
  /\ notices \in [Schedule -> Nat]

NoJob == [state |-> "absent", listed |-> FALSE, running |-> FALSE,
          pending |-> FALSE, reported |-> FALSE, tickNo |-> 0]

SchedulerInit ==
  /\ job = [j \in Schedule |-> NoJob]
  /\ at = [j \in Schedule |-> [t \in Thread |-> "none"]]
  /\ past = {} /\ timer = {}
  /\ fires = [j \in Schedule |-> 0]
  /\ sendMu = "free"
  /\ runIds = [j \in Schedule |-> [n \in TickNo |-> 0]]
  /\ notices = [j \in Schedule |-> 0]

-----------------------------------------------------------------------------
(* CreateSchedule: what it is asked for decides whether there is a job.     *)

Tool == {"", "unknown", "scheduler_create", "tasks_list", "task_new_submit"}
ReadOnlyTool == {"tasks_list"}
ScheduleRequest ==
  [tool : Tool, interval : {0, 10, 61}, allowWrite : BOOLEAN, fromCallback : BOOLEAN]

Admissible(r) ==
  /\ ~r.fromCallback
  /\ r.tool \notin {"", "unknown", "scheduler_create"}
  /\ r.interval <= 60
  /\ r.allowWrite \/ r.tool \in ReadOnlyTool

CreateSchedule(j) ==
  /\ job[j].state = "absent"
  /\ \E r \in ScheduleRequest : Admissible(r)
  /\ job' = [job EXCEPT ![j].state = "active", ![j].listed = TRUE]
  /\ at' = [at EXCEPT ![j][Loop] = "select"]
  /\ UNCHANGED <<past, fires, timer, sendMu, runIds, notices>>

(* removeScheduleIfTerminalLocked. *)
WithoutTerminal(b) ==
  IF b.state # "active" /\ ~b.running THEN [b EXCEPT !.listed = FALSE] ELSE b

(* Any user turn, and any callback, may cancel any listed schedule. *)
CancelSchedule(j) ==
  /\ job[j].listed
  /\ job' = [job EXCEPT ![j] = WithoutTerminal(
               IF @.state = "active" THEN [@ EXCEPT !.state = "canceled", !.pending = FALSE]
               ELSE @)]
  /\ UNCHANGED <<at, past, fires, timer, sendMu, runIds, notices>>

Goto(j, t, pc) == at' = [at EXCEPT ![j][t] = pc]

(* The next tick of a job: its number names the run the tick logs to. *)
NextTick(b) == [b EXCEPT !.running = TRUE, !.tickNo = @ + 1]
StartTick(j, n) ==
  /\ at' = [at EXCEPT ![j][n] = "tool"]
  /\ runIds' = [runIds EXCEPT ![j][n] = @ + 1]

-----------------------------------------------------------------------------
(* runScheduleLoop. *)

LoopStops(j) ==
  /\ at[j][Loop] = "select" /\ job[j].state # "active"
  /\ Goto(j, Loop, "ended")
  /\ UNCHANGED <<job, past, fires, timer, sendMu, runIds, notices>>

TimerFires(j) ==
  /\ at[j][Loop] = "select" /\ j \in past
  /\ timer' = timer \cup {j}
  /\ Goto(j, Loop, "expire")
  /\ UNCHANGED <<job, past, fires, sendMu, runIds, notices>>

RequestTickOverlapping(j) ==
  /\ at[j][Loop] = "select" /\ fires[j] < MaxFires
  /\ fires' = [fires EXCEPT ![j] = @ + 1]
  /\ job[j].state = "active" /\ j \notin past
  /\ job' = [job EXCEPT ![j] = NextTick(@)]
  /\ StartTick(j, job[j].tickNo + 1)
  /\ UNCHANGED <<past, timer, sendMu, notices>>

RequestTick(j) ==
  /\ at[j][Loop] = "select" /\ fires[j] < MaxFires
  /\ fires' = [fires EXCEPT ![j] = @ + 1]
  /\ \/ /\ job[j].state # "active"
        /\ UNCHANGED <<job, at, runIds>>
     \/ /\ job[j].state = "active" /\ j \in past
        /\ Goto(j, Loop, "expire")
        /\ UNCHANGED <<job, runIds>>
     \/ /\ job[j].state = "active" /\ j \notin past /\ job[j].running
        /\ job' = [job EXCEPT ![j].pending = TRUE]
        /\ UNCHANGED <<at, runIds>>
     \/ /\ job[j].state = "active" /\ j \notin past /\ ~job[j].running
        /\ job' = [job EXCEPT ![j] = NextTick(@)]
        /\ StartTick(j, job[j].tickNo + 1)
  /\ UNCHANGED <<past, timer, sendMu, notices>>

(* The time to live runs out on its own. *)
TimePasses(j) ==
  /\ job[j].state # "absent" /\ j \notin past
  /\ past' = past \cup {j}
  /\ UNCHANGED <<job, at, fires, timer, sendMu, runIds, notices>>

-----------------------------------------------------------------------------
(* executeScheduleTick: the tool, the callback, finishScheduleTick.  The    *)
(* callback has a context of its own, so it runs on after a cancel.         *)

CallTool(j, n) ==
  /\ at[j][n] = "tool"
  /\ Goto(j, n, "callback")
  /\ UNCHANGED <<job, past, fires, timer, sendMu, runIds, notices>>

(* runScheduleCallback: no history, no reply: nothing to write. *)
CallbackThinks(j, t) ==
  /\ \/ /\ at[j][t] = "callback"
        /\ \/ Goto(j, t, "write")
           \/ Goto(j, t, "finish")
     \/ /\ at[j][t] = "notice"
        /\ \/ Goto(j, t, "notice_write")
           \/ Goto(j, t, "cleanup")
  /\ UNCHANGED <<job, past, fires, timer, sendMu, runIds, notices>>

(* The transcript is appended, or its deadline has passed in the wait.     *)
CallbackWrites(j, t) ==
  /\ sendMu = "free"
  /\ \/ at[j][t] = "write" /\ Goto(j, t, "finish")
     \/ at[j][t] = "notice_write" /\ Goto(j, t, "cleanup")
  /\ UNCHANGED <<job, past, fires, timer, sendMu, runIds, notices>>

SendBegins == sendMu = "free" /\ sendMu' = "user"
SendEnds   == sendMu = "user" /\ sendMu' = "free"
UserSends ==
  /\ SendBegins \/ SendEnds
  /\ UNCHANGED <<job, at, past, fires, timer, runIds, notices>>

FinishScheduleTickKeeping(j, n) ==
  /\ at[j][n] = "finish"
  /\ job[j].state # "active"
  /\ job' = [job EXCEPT ![j].running = FALSE, ![j].pending = FALSE]
  /\ Goto(j, n, "ended") /\ UNCHANGED runIds
  /\ UNCHANGED <<past, fires, timer, sendMu, notices>>

FinishScheduleTick(j, n) ==
  /\ at[j][n] = "finish"
  /\ \/ /\ job[j].state = "active" /\ j \in past
        /\ job' = [job EXCEPT ![j].running = FALSE]
        /\ Goto(j, n, "expire") /\ UNCHANGED runIds
     \/ /\ job[j].state = "active" /\ j \notin past /\ job[j].pending
        /\ job' = [job EXCEPT ![j] = [NextTick(@) EXCEPT !.pending = FALSE]]
        /\ at' = [at EXCEPT ![j][n] = "ended", ![j][job[j].tickNo + 1] = "tool"]
        /\ runIds' = [runIds EXCEPT ![j][job[j].tickNo + 1] = @ + 1]
     \/ /\ job[j].state = "active" /\ j \notin past /\ ~job[j].pending
        /\ job' = [job EXCEPT ![j].running = FALSE]
        /\ Goto(j, n, "ended") /\ UNCHANGED runIds
     \/ /\ job[j].state # "active"
        /\ job' = [job EXCEPT ![j] = WithoutTerminal([@ EXCEPT !.running = FALSE, !.pending = FALSE])]
        /\ Goto(j, n, "ended") /\ UNCHANGED runIds
  /\ UNCHANGED <<past, fires, timer, sendMu, notices>>

-----------------------------------------------------------------------------
(* expireSchedule, called by the loop (its timer, a late request) and by    *)
(* the tick that finishes late.                                             *)

ExpireSchedule(j, t) ==
  /\ at[j][t] = "expire"
  /\ IF job[j].state = "active"
     THEN LET b == [job[j] EXCEPT !.state = "expired", !.pending = FALSE]
              n == b.tickNo + 1
          IN IF b.reported
             THEN /\ job' = [job EXCEPT ![j] = b]
                  /\ Goto(j, t, "cleanup")
                  /\ UNCHANGED <<runIds, notices>>
             ELSE /\ job' = [job EXCEPT ![j] = [b EXCEPT !.reported = TRUE, !.tickNo = n]]
                  /\ Goto(j, t, "notice")
                  /\ runIds' = [runIds EXCEPT ![j][n] = @ + 1]
                  /\ notices' = [notices EXCEPT ![j] = @ + 1]
     ELSE Goto(j, t, "cleanup") /\ UNCHANGED <<job, runIds, notices>>
  /\ UNCHANGED <<past, fires, timer, sendMu>>

(* cleanupScheduleIfTerminal; a loop that only had a late request selects   *)
(* again.                                                                   *)
Cleanup(j, t) ==
  /\ at[j][t] = "cleanup"
  /\ job' = [job EXCEPT ![j] = WithoutTerminal(@)]
  /\ Goto(j, t, IF t = Loop /\ j \notin timer THEN "select" ELSE "ended")
  /\ UNCHANGED <<past, fires, timer, sendMu, runIds, notices>>

-----------------------------------------------------------------------------
TickStep(j, n) ==
  \/ CallTool(j, n)
  \/ CallbackThinks(j, n)
  \/ FinishScheduleTick(j, n)
  \/ ExpireSchedule(j, n)
  \/ Cleanup(j, n)

LoopStep(j) ==
  \/ LoopStops(j)
  \/ TimerFires(j)
  \/ CallbackThinks(j, Loop)
  \/ ExpireSchedule(j, Loop)
  \/ Cleanup(j, Loop)

SchedulerNext ==
  \/ \E j \in Schedule :
       \/ CreateSchedule(j) \/ CancelSchedule(j) \/ RequestTick(j) \/ TimePasses(j) \/ LoopStep(j)
       \/ \E n \in TickNo : TickStep(j, n)
       \/ \E t \in Thread : CallbackWrites(j, t)
  \/ UserSends

(* Goroutines run, timers come, a user's turn ends; a Go mutex passes to    *)
(* whoever has waited for a millisecond, hence the strong fairness.         *)
SchedulerFairness ==
  /\ \A j \in Schedule :
       /\ WF_schedulerVars(LoopStep(j))
       /\ WF_schedulerVars(TimePasses(j))
       /\ \A n \in TickNo : WF_schedulerVars(TickStep(j, n))
       /\ \A t \in Thread : SF_schedulerVars(CallbackWrites(j, t))
  /\ WF_schedulerVars(SendEnds /\ UserSends)

SchedulerSpec == SchedulerInit /\ [][SchedulerNext]_schedulerVars /\ SchedulerFairness

-----------------------------------------------------------------------------
TickPc == {"tool", "callback", "write", "finish"}

(* However ticks, late requests, reruns, cancels and the expiry interleave, *)
(* a schedule has at most one tick under way, its running flag says so      *)
(* (requestScheduleTick relies on it), a schedule that is over starts no    *)
(* other, each tick number names one run, and expiry is reported once.      *)
TickDiscipline ==
  \A j \in Schedule :
    /\ Cardinality({n \in TickNo : at[j][n] \in TickPc}) = IF job[j].running THEN 1 ELSE 0
    /\ job[j].state = "active" => job[j].listed
    /\ \A n \in TickNo : runIds[j][n] = IF n <= job[j].tickNo THEN 1 ELSE 0
    /\ notices[j] = IF job[j].state = "expired" THEN 1 ELSE 0

(* A schedule never stays behind: whatever ends it, some step removes it    *)
(* from the list and its goroutines end (removeScheduleIfTerminalLocked is  *)
(* tried by cancel, finish and expiry, each of which may come last).        *)
SchedulesEnd ==
  \A j \in Schedule :
    job[j].state = "active" ~> /\ ~job[j].listed
                               /\ \A t \in Thread : at[j][t] \in {"none", "ended"}
=============================================================================
