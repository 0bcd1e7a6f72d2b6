----------------------------- MODULE TaskTable -----------------------------
(***************************************************************************)
(* The `tasks` table of the SQLite database that the server process and    *)
(* the runner daemon share, and the statements tasks.Store runs on it.     *)
(* The connection pool has one connection and every method is one          *)
(* statement or one transaction, so each of them is one atomic action.     *)
(*                                                                         *)
(* A row is named by the order of its creation: row t is the t-th task     *)
(* created, which is also the order of created_at.  A row keeps its        *)
(* workdir for ever, so the workdir of a row is a constant.                *)
(***************************************************************************)
EXTENDS Integers, FiniteSets

CONSTANTS
  NTasks,      \* bound on the number of task rows ever created
  Workdir,     \* the cleaned workdir paths
  WorkdirOf    \* the workdir of each row

Task == 1 .. NTasks

ASSUME TaskTableAssumption ==
  /\ NTasks \in Nat
  /\ WorkdirOf \in [Task -> Workdir]

InFlight == {"queued", "running", "awaiting_approval"}
Terminal == {"succeeded", "failed", "canceled", "interrupted", "blocked"}
Status   == InFlight \cup Terminal \cup {"waiting"}

VARIABLES
  status,      \* status of each row; "absent" before the INSERT
  finished,    \* rows whose finished_at is not NULL
  revived      \* history: rows that left a terminal status

table == <<status, finished, revived>>

TableTypeOK ==
  /\ status \in [Task -> Status \cup {"absent"}]
  /\ finished \subseteq Task
  /\ revived \subseteq Task

TableInit ==
  /\ status = [t \in Task |-> "absent"]
  /\ finished = {}
  /\ revived = {}

-----------------------------------------------------------------------------
(* A definition whose name extends that of the one after it, here and in    *)
(* the other modules, is a mutant: a bug the properties must find.          *)

(* Rows that hold the workdir: against a new row, a waiting row counts too. *)
SameDir(t)       == {u \in Task : WorkdirOf[u] = WorkdirOf[t]}
HoldersRunning(t) == {u \in SameDir(t) : status[u] \in {"queued", "running"}}
HoldersNotQueued(t) == {u \in SameDir(t) : status[u] \in InFlight \ {"queued"}}
HoldersBlocked(t) == {u \in SameDir(t) : status[u] \in InFlight \cup {"blocked"}}
Holders(t)       == {u \in SameDir(t) : status[u] \in InFlight}
Waiters(t)       == {u \in SameDir(t) : status[u] = "waiting"}
NextRow(t)       == /\ status[t] = "absent"
                    /\ \A u \in Task : u < t => status[u] # "absent"

Write(t, s) ==
  /\ status' = [status EXCEPT ![t] = s]
  /\ revived' = IF status[t] \in Terminal /\ s \notin Terminal
                THEN revived \cup {t} ELSE revived

(* CreateTask: a busy workdir turns strategy "wait" into status waiting and *)
(* any other strategy into a WorkDirBusyError that writes nothing.          *)
InsertQueued(t, strategy) ==
  /\ NextRow(t)
  /\ Write(t, "queued")
  /\ UNCHANGED finished

Insert(t, strategy) ==
  /\ NextRow(t)
  /\ \/ /\ Holders(t) \cup Waiters(t) = {}
        /\ Write(t, "queued")
     \/ /\ Holders(t) \cup Waiters(t) # {}
        /\ strategy = "wait"
        /\ Write(t, "waiting")
  /\ UNCHANGED finished

(* SetRunning fails, and writes nothing, unless the row is queued. *)
SetRunning(t) ==
  /\ status[t] = "queued"
  /\ Write(t, "running")
  /\ UNCHANGED finished

(* setStatus, behind SetBlocked, SetAwaitingApproval, SetRunningStatus and  *)
(* SetCanceled: the previous status is not looked at.                       *)
SetStatus(t, s) ==
  /\ Write(t, s)
  /\ UNCHANGED finished

(* FinishTask keeps a different terminal status that is already there. *)
FinishTaskAnyway(t, s) ==
  /\ Write(t, s)
  /\ finished' = finished \cup {t}

FinishTask(t, s) ==
  IF status[t] \in Terminal /\ status[t] # s
  THEN UNCHANGED table
  ELSE /\ Write(t, s)
       /\ finished' = finished \cup {t}

(* DequeueNextWaitingForWorkdir, on the workdir of row t: the oldest        *)
(* waiting row n becomes queued unless some row there is in flight.         *)
CanDequeue(t) == Holders(t) = {} /\ Waiters(t) # {}

DequeueNewest(t, n) ==
  /\ CanDequeue(t)
  /\ n \in Waiters(t)
  /\ \A u \in Waiters(t) : u <= n
  /\ Write(n, "queued")
  /\ UNCHANGED finished

Dequeue(t, n) ==
  /\ CanDequeue(t)
  /\ n \in Waiters(t)
  /\ \A u \in Waiters(t) : n <= u
  /\ Write(n, "queued")
  /\ UNCHANGED finished

(* MarkInterrupted: waiting rows are left as they are, finished_at too. *)
MarkInterruptedQueued ==
  /\ status' = [t \in Task |-> IF status[t] \in InFlight THEN "queued" ELSE status[t]]
  /\ UNCHANGED <<finished, revived>>

MarkInterrupted ==
  /\ status' = [t \in Task |-> IF status[t] \in InFlight THEN "interrupted" ELSE status[t]]
  /\ UNCHANGED <<finished, revived>>

(* InterruptTaskIfStaleInFlight: one UPDATE that checks the row again.  The  *)
(* age of updated_at, its other condition, is the caller's business.        *)
InterruptIfInFlightRunning(t) ==
  /\ status[t] = "running"
  /\ t \notin finished
  /\ Write(t, "interrupted")
  /\ finished' = finished \cup {t}

InterruptIfInFlight(t) ==
  /\ status[t] \in InFlight
  /\ t \notin finished
  /\ Write(t, "interrupted")
  /\ finished' = finished \cup {t}

=============================================================================
