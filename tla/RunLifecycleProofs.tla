------------------------- MODULE RunLifecycleProofs -------------------------
(***************************************************************************)
(* Proofs about RunLifecycle, for any number of rows and workdirs, any mix *)
(* of drivers, and every combination of users and faults.                  *)
(***************************************************************************)
EXTENDS RunLifecycle, TLAPS

IInv == TypeOK /\ RowsBegun

(* What the statements of TaskTable do to the type of the table. *)
LEMMA WriteType ==
  ASSUME TableTypeOK, NEW t \in Task, NEW s \in Status, Write(t, s),
         finished' = finished \/ finished' = finished \cup {t}
  PROVE  TableTypeOK'
BY DEF TableTypeOK, Write

LEMMA FinishType ==
  ASSUME TableTypeOK, NEW t \in Task, NEW s \in Terminal, FinishTask(t, s)
  PROVE  TableTypeOK'
<1>1. CASE status[t] \in Terminal /\ status[t] # s
  BY <1>1 DEF FinishTask, TableTypeOK, table
<1>2. CASE ~(status[t] \in Terminal /\ status[t] # s)
  BY <1>2, WriteType DEF FinishTask, Status
<1> QED BY <1>1, <1>2

(* Every variable keeps its type. *)
LEMMA TypeStep == IInv /\ [Next]_vars => TypeOK'
<1> SUFFICES ASSUME IInv, [Next]_vars PROVE TypeOK'
  OBVIOUS
<1> USE DEF IInv, TypeOK
<1>1. ASSUME NEW t \in Task, RunSetRunning(t) PROVE TypeOK'
  BY <1>1, WriteType DEF RunSetRunning, SetRunning, Return, Status, InFlight, server, table, RunPc, TableTypeOK
<1>2. ASSUME NEW t \in Task, RunSetupFails(t) PROVE TypeOK'
  BY <1>2, FinishType DEF RunSetupFails, Return, Terminal, server, RunPc
<1>3. ASSUME NEW t \in Task, RunSpawn(t) PROVE TypeOK'
  BY <1>3 DEF RunSpawn, server, table, TableTypeOK, RunPc
<1>4. ASSUME NEW t \in Task, RunFinishes(t) PROVE TypeOK'
  <2>1. outcome[t] \in Terminal
    BY <1>4 DEF RunFinishes, RowsBegun, RowBegun
  <2> QED BY <1>4, <2>1, FinishType DEF RunFinishes, server, RunPc
<1>5. ASSUME NEW t \in Task, RunDequeues(t) PROVE TypeOK'
  <2>1. CASE ~CanDequeue(t) /\ Return(t) /\ UNCHANGED <<table, promoted>>
    BY <1>5, <2>1 DEF RunDequeues, Return, server, table, TableTypeOK, RunPc
  <2>2. ASSUME NEW n \in Task, Dequeue(t, n), promoted' = [promoted EXCEPT ![t] = n],
               pc' = [pc EXCEPT ![t] = "promoting"], UNCHANGED ctx
        PROVE  TypeOK'
    BY <1>5, <2>2, WriteType DEF RunDequeues, Dequeue, Status, InFlight, server, RunPc
  <2> QED BY <1>5, <2>1, <2>2 DEF RunDequeues
<1>6. ASSUME NEW t \in Task, RunStartsNext(t) PROVE TypeOK'
  <2>1. promoted[t] \in Task
    BY <1>6 DEF RunStartsNext, RowsBegun, RowBegun
  <2>2. CASE UNCHANGED table
    BY <1>6, <2>1, <2>2 DEF RunStartsNext, server, table, TableTypeOK, RunPc
  <2>3. CASE FinishTask(promoted[t], "failed")
    BY <1>6, <2>1, <2>3, FinishType DEF RunStartsNext, server, RunPc, Terminal
  <2> QED BY <1>6, <2>2, <2>3 DEF RunStartsNext
<1>7. ASSUME NEW t \in Task, RunBlocks(t) PROVE TypeOK'
  BY <1>7, WriteType DEF RunBlocks, SetStatus, Status, Terminal, server
<1>8. ASSUME NEW t \in Task, RunResumeFails(t) PROVE TypeOK'
  BY <1>8 DEF RunResumeFails, server, table, TableTypeOK
<1>9. ASSUME NEW t \in Task, RunExits(t) PROVE TypeOK'
  BY <1>9 DEF RunExits, ExitStatus, Terminal, server, table, TableTypeOK, RunPc
<1>10. ASSUME NEW t \in Task, NEW h \in Slot, RunAsks(t, h) PROVE TypeOK'
  BY <1>10 DEF RunAsks, server, table, TableTypeOK, AskPc
<1>11. ASSUME NEW t \in Task, NEW h \in Slot, AskBlocks(t, h) \/ AskAwaits(t, h) \/ AskReturns(t, h)
       PROVE  TypeOK'
  <2>1. ask' \in [Task -> [Slot -> AskPc]]
    <3>1. PICK a \in AskPc : ask' = [ask EXCEPT ![t][h] = a]
      BY <1>11 DEF AskBlocks, AskAwaits, AskReturns, AskPc
    <3> QED BY <3>1
  <2>2. TableTypeOK'
    BY <1>11, WriteType DEF AskBlocks, AskAwaits, AskReturns, SetStatus, Status, InFlight, Terminal
  <2> QED BY <1>11, <2>1, <2>2 DEF AskBlocks, AskAwaits, AskReturns, server
<1>12. CASE RunnerCrash
  <2>1. ask' \in [Task -> [Slot -> AskPc]]
    BY <1>12 DEF RunnerCrash, AskPc
  <2>2. faults' \in Nat
    BY <1>12 DEF RunnerCrash, Fault
  <2> QED BY <1>12, <2>1, <2>2 DEF RunnerCrash, server, table, TableTypeOK, RunPc
<1>13. CASE RunnerBoot
  BY <1>13 DEF RunnerBoot, MarkInterrupted, server, TableTypeOK, Status, Terminal
<1>14. ASSUME NEW t \in Task, NEW strategy \in {"exclusive", "wait"}, Create(t, strategy) PROVE TypeOK'
  <2>1. TableTypeOK'
    BY <1>14, WriteType DEF Create, Insert, Status, InFlight
  <2> QED BY <1>14, <2>1 DEF Create, AddStart, runner
<1>15. ASSUME NEW t \in Task, Replay(t) PROVE TypeOK'
  BY <1>15 DEF Replay, AddStart, runner, table, TableTypeOK
<1>16. ASSUME NEW t \in Task, StartServed(t) PROVE TypeOK'
  <2>1. /\ starting' \in [Task -> Nat] /\ failing' \in [Task -> Nat]
        /\ faults' \in Nat
    BY <1>16 DEF StartServed, StartFails, Fault
  <2>2. pc' \in [Task -> RunPc]
    BY <1>16 DEF StartServed, Admit, RunPc
  <2> QED BY <1>16, <2>1, <2>2 DEF StartServed, table, TableTypeOK
<1>17. ASSUME NEW t \in Task, StartUnreachable(t) PROVE TypeOK'
  BY <1>17 DEF StartUnreachable, StartFails, Fault, runner, table, TableTypeOK
<1>18. ASSUME NEW t \in Task, StartGivesUp(t) PROVE TypeOK'
  BY <1>18, FinishType DEF StartGivesUp, runner, Terminal
<1>19. ASSUME NEW t \in Task, CancelReads(t) \/ PreemptReads(t) PROVE TypeOK'
  BY <1>19 DEF CancelReads, PreemptReads, CancelGoesTo, runner, table, TableTypeOK, CancelPc
<1>20. ASSUME NEW t \in Task, CancelSetsCanceled(t) PROVE TypeOK'
  BY <1>20, WriteType DEF CancelSetsCanceled, CancelGoesTo, SetStatus, Status, Terminal, runner, CancelPc
<1>21. ASSUME NEW t \in Task, CancelFreesWorkdir(t) PROVE TypeOK'
  <2>1. CASE UNCHANGED <<table, starting>>
    BY <1>21, <2>1 DEF CancelFreesWorkdir, CancelGoesTo, runner, table, TableTypeOK, CancelPc
  <2>2. ASSUME NEW n \in Task, Dequeue(t, n), AddStart(n) PROVE TypeOK'
    BY <1>21, <2>2, WriteType
       DEF CancelFreesWorkdir, CancelGoesTo, Dequeue, AddStart, Status, InFlight, runner, CancelPc
  <2> QED BY <1>21, <2>1, <2>2 DEF CancelFreesWorkdir
<1>22. ASSUME NEW t \in Task, CancelAsksRunner(t) \/ PreemptAsksRunner(t) PROVE TypeOK'
  BY <1>22 DEF CancelAsksRunner, PreemptAsksRunner, CancelContext, CancelGoesTo, table, TableTypeOK, CancelPc
<1>23. ASSUME NEW t \in Task, WatchdogInterrupts(t) PROVE TypeOK'
  BY <1>23, WriteType DEF WatchdogInterrupts, InterruptIfInFlight, Fault, Status, Terminal, runner
<1>24. ASSUME NEW t \in Task, WatchdogCancels(t) PROVE TypeOK'
  BY <1>24 DEF WatchdogCancels, CancelContext, table, TableTypeOK
<1>25. CASE ServerCrash
  BY <1>25 DEF ServerCrash, Fault, runner, table, TableTypeOK, CancelPc
<1>26. CASE UNCHANGED vars
  BY <1>26 DEF vars, runner, server, table, TableTypeOK
<1> QED
  BY <1>1, <1>2, <1>3, <1>4, <1>5, <1>6, <1>7, <1>8, <1>9, <1>10, <1>11, <1>12, <1>13, <1>14, <1>15,
     <1>16, <1>17, <1>18, <1>19, <1>20, <1>21, <1>22, <1>23, <1>24, <1>25, <1>26
     DEF Next, RunStep, AskStep, ServerStep, CliStep, UserStep

(* What is under way for a row is always justified by its status. *)
LEMMA BegunStep == IInv /\ [Next]_vars => RowsBegun'
<1> SUFFICES ASSUME IInv, [Next]_vars, NEW r \in Task PROVE RowBegun(r)'
  BY DEF RowsBegun
<1>0. TypeOK /\ RowBegun(r)
  BY DEF IInv, RowsBegun
<1> USE <1>0 DEF RowBegun, Begun, Quiet, TypeOK, TableTypeOK
<1>1. ASSUME NEW t \in Task, RunSetRunning(t) PROVE RowBegun(r)'
  BY <1>1 DEF RunSetRunning, SetRunning, Write, Return, Status, InFlight, server, table
<1>2. ASSUME NEW t \in Task, RunSetupFails(t) PROVE RowBegun(r)'
  BY <1>2 DEF RunSetupFails, FinishTask, Write, Return, server, table
<1>3. ASSUME NEW t \in Task, RunSpawn(t) PROVE RowBegun(r)'
  BY <1>3 DEF RunSpawn, server, table
<1>4. ASSUME NEW t \in Task, RunFinishes(t) PROVE RowBegun(r)'
  BY <1>4 DEF RunFinishes, FinishTask, Write, server, table, Terminal
<1>5. ASSUME NEW t \in Task, RunDequeues(t) PROVE RowBegun(r)'
  <2>1. CASE ~CanDequeue(t) /\ Return(t) /\ UNCHANGED <<table, promoted>>
    BY <1>5, <2>1 DEF RunDequeues, Return, server, table
  <2>2. ASSUME NEW n \in Task, Dequeue(t, n), promoted' = [promoted EXCEPT ![t] = n],
               pc' = [pc EXCEPT ![t] = "promoting"]
        PROVE  RowBegun(r)'
    <3>1. /\ status[n] = "waiting"
          /\ status' = [status EXCEPT ![n] = "queued"]
      BY <2>2 DEF Dequeue, Waiters, SameDir, Write
    <3>2. n # 0
      BY DEF Task
    <3> QED BY <1>0, <1>5, <2>2, <3>1, <3>2 DEF RunDequeues, server
  <2> QED BY <1>5, <2>1, <2>2 DEF RunDequeues
<1>6. ASSUME NEW t \in Task, RunStartsNext(t) PROVE RowBegun(r)'
  <2> DEFINE n == promoted[t]
  <2>1. n \in Task /\ status[n] \notin {"absent", "waiting"}
    BY <1>6 DEF RunStartsNext, IInv, RowsBegun
  <2>2. UNCHANGED <<canceling, starting, failing, ask, spawned, outcome>>
    BY <1>6 DEF RunStartsNext, server
  <2>3. (\E u \in Task : promoted'[u] = r) => \E u \in Task : promoted[u] = r
    BY <1>6 DEF RunStartsNext, Task
  <2> HIDE DEF n
  <2>4. CASE CanStart(n) /\ pc' = [pc EXCEPT ![t] = "none", ![n] = "admitted"] /\ UNCHANGED table
    <3>1. r = n \/ pc'[r] = pc[r] \/ pc'[r] = "none"
      BY <2>4
    <3> QED BY <1>0, <1>6, <2>1, <2>2, <2>3, <2>4, <3>1 DEF CanStart, table, RunStartsNext
  <2>5. CASE FinishTask(n, "failed") /\ pc' = [pc EXCEPT ![t] = "none"]
    <3>1. status' = status \/ status' = [status EXCEPT ![n] = "failed"]
      BY <2>5 DEF FinishTask, Write, table
    <3>2. pc'[r] = pc[r] \/ pc'[r] = "none"
      BY <2>5
    <3>3. pc[r] = "promoting" /\ pc'[r] = "promoting" => promoted'[r] = promoted[r]
      BY <1>6, <2>5 DEF RunStartsNext
    <3> QED BY <1>0, <2>1, <2>2, <2>3, <3>1, <3>2, <3>3
  <2> QED BY <1>6, <2>4, <2>5 DEF RunStartsNext, n
<1>7. ASSUME NEW t \in Task, RunBlocks(t) PROVE RowBegun(r)'
  BY <1>7 DEF RunBlocks, SetStatus, Write, server
<1>9. ASSUME NEW t \in Task, RunExits(t) PROVE RowBegun(r)'
  BY <1>9 DEF RunExits, ExitStatus, server, table
<1>10. ASSUME NEW t \in Task, NEW h \in Slot, RunAsks(t, h) PROVE RowBegun(r)'
  BY <1>10 DEF RunAsks, server, table
<1>11. ASSUME NEW t \in Task, NEW h \in Slot, AskBlocks(t, h) \/ AskAwaits(t, h) \/ AskReturns(t, h)
       PROVE  RowBegun(r)'
  BY <1>11 DEF AskBlocks, AskAwaits, AskReturns, SetStatus, Write, server
<1>12. CASE RunnerCrash
  BY <1>12 DEF RunnerCrash, server, table, Task
<1>13. CASE RunnerBoot
  BY <1>13 DEF RunnerBoot, MarkInterrupted, server, InFlight
<1>14. ASSUME NEW t \in Task, NEW strategy \in {"exclusive", "wait"}, Create(t, strategy) PROVE RowBegun(r)'
  BY <1>14 DEF Create, Insert, NextRow, Write, AddStart, runner
<1>15. ASSUME NEW t \in Task, Replay(t) PROVE RowBegun(r)'
  BY <1>15 DEF Replay, AddStart, runner, table
<1>16. ASSUME NEW t \in Task, StartServed(t) PROVE RowBegun(r)'
  BY <1>16 DEF StartServed, CanStart, InCancels, Admit, StartFails, table
<1>17. ASSUME NEW t \in Task, StartUnreachable(t) PROVE RowBegun(r)'
  BY <1>17 DEF StartUnreachable, StartFails, runner, table
<1>18. ASSUME NEW t \in Task, StartGivesUp(t) PROVE RowBegun(r)'
  BY <1>18 DEF StartGivesUp, FinishTask, Write, runner, table, Terminal
<1>19. ASSUME NEW t \in Task, CancelReads(t) \/ PreemptReads(t) PROVE RowBegun(r)'
  BY <1>19 DEF CancelReads, PreemptReads, MayCancel, CancelGoesTo, runner, table
<1>20. ASSUME NEW t \in Task, CancelSetsCanceled(t) PROVE RowBegun(r)'
  BY <1>20 DEF CancelSetsCanceled, CancelGoesTo, SetStatus, Write, runner
<1>21. ASSUME NEW t \in Task, CancelFreesWorkdir(t) PROVE RowBegun(r)'
  BY <1>21 DEF CancelFreesWorkdir, CancelGoesTo, Dequeue, Waiters, SameDir, Write, AddStart, runner, table
<1>22. ASSUME NEW t \in Task, CancelAsksRunner(t) \/ PreemptAsksRunner(t) PROVE RowBegun(r)'
  BY <1>22 DEF CancelAsksRunner, PreemptAsksRunner, CancelGoesTo, table
<1>23. ASSUME NEW t \in Task, WatchdogInterrupts(t) PROVE RowBegun(r)'
  BY <1>23 DEF WatchdogInterrupts, InterruptIfInFlight, Write, runner
<1>24. ASSUME NEW t \in Task, RunResumeFails(t) \/ WatchdogCancels(t) PROVE RowBegun(r)'
  BY <1>24 DEF RunResumeFails, WatchdogCancels, server, table
<1>25. CASE ServerCrash
  BY <1>25 DEF ServerCrash, runner, table
<1>26. CASE UNCHANGED vars
  BY <1>26 DEF vars, runner, server, table
<1> QED
  BY <1>1, <1>2, <1>3, <1>4, <1>5, <1>6, <1>7, <1>9, <1>10, <1>11, <1>12, <1>13, <1>14, <1>15,
     <1>16, <1>17, <1>18, <1>19, <1>20, <1>21, <1>22, <1>23, <1>24, <1>25, <1>26
     DEF Next, RunStep, AskStep, ServerStep, CliStep, UserStep

-----------------------------------------------------------------------------
LEMMA Invariance == Spec => []IInv
<1>1. Init => IInv
  <2> SUFFICES ASSUME Init PROVE TypeOK /\ RowsBegun
    BY DEF IInv
  <2> USE DEF Init, TableInit
  <2>1. ask \in [Task -> [Slot -> AskPc]]
    BY DEF AskPc
  <2>2. TypeOK
    BY <2>1 DEF TypeOK, TableTypeOK, RunPc, CancelPc
  <2>3. RowsBegun
    BY DEF RowsBegun, RowBegun, Begun, Quiet, Task
  <2> QED BY <2>2, <2>3
<1>2. IInv /\ [Next]_vars => IInv'
  BY TypeStep, BegunStep DEF IInv
<1> QED BY <1>1, <1>2, PTL DEF Spec

(* Every variable keeps its type. *)
THEOREM TypeCorrect == Spec => []TypeOK
BY Invariance, PTL DEF IInv

(* Whatever is under way for a row, in either process, its status allows:   *)
(* no crash, replay or promotion leaves work behind for a row that does not *)
(* exist, still waits, or is queued again.                                  *)
THEOREM BegunCorrect == Spec => []RowsBegun
BY Invariance, PTL DEF IInv

(* All that a step of the system can do to the table. *)
TableStep ==
  \/ UNCHANGED table
  \/ \E t \in Task, strategy \in {"exclusive", "wait"} : Insert(t, strategy)
  \/ \E t \in Task : SetRunning(t)
  \/ \E t \in Task : \E n \in Task : Dequeue(t, n)
  \/ \E t \in Task : \E s \in Terminal : status[t] # "absent" /\ Write(t, s)
  \/ \E t \in Task : \E s \in {"running", "awaiting_approval"} :
       Slot # {} /\ status[t] \notin {"absent", "waiting"} /\ Write(t, s)
  \/ MarkInterrupted

LEMMA FinishStep ==
  ASSUME NEW t \in Task, NEW s \in Terminal, status[t] # "absent", FinishTask(t, s)
  PROVE  TableStep
BY DEF FinishTask, TableStep

LEMMA TableSteps == IInv /\ [Next]_vars => TableStep
<1> SUFFICES ASSUME IInv, [Next]_vars PROVE TableStep
  OBVIOUS
<1> USE DEF IInv
<1>0. ASSUME NEW t \in Task PROVE RowBegun(t)
  BY <1>0 DEF RowsBegun
<1>1. ASSUME NEW t \in Task, RunSetRunning(t) PROVE TableStep
  BY <1>1 DEF RunSetRunning, TableStep
<1>2. ASSUME NEW t \in Task, RunSetupFails(t) PROVE TableStep
  BY <1>0, <1>2, FinishStep DEF RunSetupFails, Terminal, RowBegun, Begun
<1>3. ASSUME NEW t \in Task, RunFinishes(t) PROVE TableStep
  BY <1>0, <1>3, FinishStep DEF RunFinishes, RowBegun, Begun, TypeOK
<1>4. ASSUME NEW t \in Task, RunDequeues(t) PROVE TableStep
  BY <1>4 DEF RunDequeues, TableStep, table
<1>5. ASSUME NEW t \in Task, RunStartsNext(t) PROVE TableStep
  <2>1. promoted[t] \in Task /\ status[promoted[t]] # "absent"
    BY <1>0, <1>5 DEF RunStartsNext, RowBegun, Begun, TypeOK
  <2>2. CASE UNCHANGED table
    BY <2>2 DEF TableStep
  <2>3. CASE FinishTask(promoted[t], "failed")
    BY <2>1, <2>3, FinishStep DEF Terminal
  <2> QED BY <1>5, <2>2, <2>3 DEF RunStartsNext
<1>6. ASSUME NEW t \in Task, RunBlocks(t) PROVE TableStep
  BY <1>0, <1>6 DEF RunBlocks, SetStatus, RowBegun, Begun, TableStep, Terminal
<1>7. ASSUME NEW t \in Task, NEW h \in Slot, AskBlocks(t, h) \/ AskAwaits(t, h) \/ AskReturns(t, h)
      PROVE  TableStep
  BY <1>0, <1>7 DEF AskBlocks, AskAwaits, AskReturns, SetStatus, RowBegun, Begun, Quiet, TableStep, Terminal
<1>8. CASE RunnerBoot
  BY <1>8 DEF RunnerBoot, TableStep
<1>9. ASSUME NEW t \in Task, NEW strategy \in {"exclusive", "wait"}, Create(t, strategy) PROVE TableStep
  BY <1>9 DEF Create, TableStep
<1>10. ASSUME NEW t \in Task, StartGivesUp(t) PROVE TableStep
  BY <1>0, <1>10, FinishStep DEF StartGivesUp, RowBegun, Begun, Terminal
<1>11. ASSUME NEW t \in Task, CancelSetsCanceled(t) PROVE TableStep
  BY <1>0, <1>11 DEF CancelSetsCanceled, SetStatus, RowBegun, TableStep, Terminal
<1>12. ASSUME NEW t \in Task, CancelFreesWorkdir(t) PROVE TableStep
  BY <1>12 DEF CancelFreesWorkdir, TableStep
<1>13. ASSUME NEW t \in Task, WatchdogInterrupts(t) PROVE TableStep
  BY <1>13 DEF WatchdogInterrupts, InterruptIfInFlight, InFlight, Terminal, TableStep
<1>14. ASSUME NEW t \in Task,
              \/ RunSpawn(t) \/ RunResumeFails(t) \/ RunExits(t) \/ \E h \in Slot : RunAsks(t, h)
              \/ Replay(t) \/ StartServed(t) \/ StartUnreachable(t)
              \/ CancelReads(t) \/ PreemptReads(t) \/ CancelAsksRunner(t) \/ PreemptAsksRunner(t)
              \/ WatchdogCancels(t)
       PROVE  TableStep
  BY <1>14 DEF RunSpawn, RunResumeFails, RunExits, RunAsks, Replay, StartServed, StartUnreachable,
     CancelReads, PreemptReads, CancelAsksRunner, PreemptAsksRunner, WatchdogCancels, TableStep
<1>15. CASE RunnerCrash \/ ServerCrash \/ UNCHANGED vars
  BY <1>15 DEF RunnerCrash, ServerCrash, vars, TableStep
<1> QED
  BY <1>1, <1>2, <1>3, <1>4, <1>5, <1>6, <1>7, <1>8, <1>9, <1>10, <1>11, <1>12, <1>13, <1>14, <1>15
     DEF Next, RunStep, AskStep, ServerStep, CliStep, UserStep

-----------------------------------------------------------------------------
(* The workdir lock. *)

(* At most one row in flight per workdir, but for rows that were revived. *)
THEOREM Exclusion == Spec => []OneHolder
<1>1. Init => OneHolder
  BY DEF Init, TableInit, OneHolder, InFlight
<1>2. IInv /\ OneHolder /\ [Next]_vars => OneHolder'
  <2> SUFFICES ASSUME IInv, OneHolder, TableStep PROVE OneHolder'
    BY TableSteps
  <2> USE DEF OneHolder, SharesDir, IInv, TypeOK, TableTypeOK
  <2>1. CASE UNCHANGED table
    BY <2>1 DEF table
  <2>2. ASSUME NEW t \in Task, NEW strategy \in {"exclusive", "wait"}, Insert(t, strategy) PROVE OneHolder'
    BY <2>2 DEF Insert, Holders, Waiters, SameDir, Write, InFlight
  <2>3. ASSUME NEW t \in Task, SetRunning(t) PROVE OneHolder'
    BY <2>3 DEF SetRunning, Write, InFlight
  <2>4. ASSUME NEW t \in Task, NEW n \in Task, Dequeue(t, n) PROVE OneHolder'
    BY <2>4 DEF Dequeue, CanDequeue, Holders, Waiters, SameDir, Write
  <2>5. ASSUME NEW t \in Task, NEW s \in Terminal, Write(t, s) PROVE OneHolder'
    BY <2>5 DEF Write, Terminal, InFlight
  <2>6. ASSUME NEW t \in Task, NEW s \in {"running", "awaiting_approval"},
               status[t] \notin {"absent", "waiting"}, Write(t, s)
        PROVE  OneHolder'
    BY <2>6 DEF Write, Status, Terminal, InFlight
  <2>7. CASE MarkInterrupted
    BY <2>7 DEF MarkInterrupted, InFlight
  <2> QED BY <2>1, <2>2, <2>3, <2>4, <2>5, <2>6, <2>7 DEF TableStep
<1> QED BY <1>1, <1>2, Invariance, PTL DEF Spec

(* Two CLIs share a workdir only after a row was made final under a running *)
(* CLI, or revived.                                                         *)
THEOREM CliExclusion == Spec => []OneCli
<1>1. IInv /\ OneHolder => OneCli
  BY DEF IInv, TypeOK, TableTypeOK, RowsBegun, RowBegun, Begun, OneHolder, OneCli, Executing, Status, InFlight
<1> QED BY <1>1, Invariance, Exclusion, PTL

(* A CLI is spawned at most once per row. *)
THEOREM SpawnOnce == Spec => []SpawnedOnce
<1>1. Init => SpawnedOnce
  BY DEF Init, SpawnedOnce
<1>2. IInv /\ SpawnedOnce /\ [Next]_vars => SpawnedOnce'
  <2> SUFFICES ASSUME IInv, SpawnedOnce, [Next]_vars PROVE SpawnedOnce'
    OBVIOUS
  <2>1. ASSUME NEW t \in Task, RunSpawn(t) PROVE SpawnedOnce'
    <3>1. spawned[t] = 0 /\ spawned \in [Task -> Nat]
      BY <2>1 DEF RunSpawn, IInv, RowsBegun, RowBegun, TypeOK
    <3> QED BY <2>1, <3>1 DEF RunSpawn, SpawnedOnce
  <2>2. CASE UNCHANGED spawned
    BY <2>2 DEF SpawnedOnce
  <2>3. (\E t \in Task : RunSpawn(t)) \/ UNCHANGED spawned
    BY DEF Next, RunStep, AskStep, ServerStep, CliStep, UserStep, vars,
       RunSetRunning, RunSetupFails, RunFinishes, RunDequeues, RunStartsNext, RunBlocks, RunResumeFails,
       RunAsks, AskBlocks, AskAwaits, AskReturns, RunExits, RunnerCrash, RunnerBoot, Create, Replay,
       StartServed, StartUnreachable, StartGivesUp, CancelReads, CancelSetsCanceled, CancelFreesWorkdir,
       CancelAsksRunner, PreemptReads, PreemptAsksRunner, WatchdogInterrupts, WatchdogCancels, ServerCrash
  <2> QED BY <2>1, <2>2, <2>3
<1> QED BY <1>1, <1>2, Invariance, PTL DEF Spec

(* Where no CLI asks for approvals, no row is ever revived and the workdir  *)
(* lock is absolute.                                                        *)
THEOREM ExclusionWithoutApprovals == Spec => [](Slot = {} => WorkdirMutex)
<1> DEFINE Fresh == Slot = {} => revived = {}
<1>1. Init => Fresh
  BY DEF Init, TableInit
<1>2. IInv /\ Fresh /\ [Next]_vars => Fresh'
  <2> SUFFICES ASSUME IInv, Slot = {}, revived = {}, TableStep PROVE revived' = {}
    BY TableSteps
  <2> QED
    BY DEF TableStep, table, Insert, NextRow, SetRunning, Dequeue, Waiters, Write, MarkInterrupted, Terminal
<1>3. OneHolder /\ Fresh => (Slot = {} => WorkdirMutex)
  BY DEF OneHolder, WorkdirMutex, SharesDir
<1> QED BY <1>1, <1>2, <1>3, Invariance, Exclusion, PTL DEF Spec

LEMMA Phases ==
  /\ PhaseOf("absent") = "new" /\ PhaseOf("waiting") = "waiting"
  /\ \A s \in InFlight : PhaseOf(s) = "holding"
  /\ \A s \in Terminal : PhaseOf(s) = "left"
BY DEF PhaseOf, InFlight, Terminal

(* The two processes together implement a first-come first-served lock per  *)
(* workdir.                                                                 *)
THEOREM ImplementsLock == Spec => LockSpec
<1> DEFINE phase == [t \in Task |-> PhaseOf(status[t])]
<1>0. Lock!Client = Task
  BY DEF Lock!Client, Task
<1>1. Init => Lock!Init
  BY <1>0, Phases DEF Init, TableInit, Lock!Init
<1>2. IInv /\ [Next]_vars => [Lock!Next]_(Lock!vars)
  <2> SUFFICES ASSUME IInv, TableStep PROVE [Lock!Next]_(Lock!vars)
    BY TableSteps
  <2> USE DEF IInv, TypeOK, TableTypeOK
  <2>phase. ASSUME NEW u \in Task
        PROVE  /\ phase[u] = "new" <=> status[u] = "absent"
               /\ phase[u] = "waiting" <=> status[u] = "waiting"
               /\ phase[u] = "holding" <=> status[u] \in InFlight
               /\ phase[u] = "left" <=> status[u] \in Terminal
    BY <2>phase, Phases DEF Status, InFlight, Terminal
  <2>sets. ASSUME NEW u \in Task
         PROVE  /\ Lock!In(u, "waiting") = Waiters(u)
                /\ Lock!In(u, "holding") = Holders(u)
    BY <1>0, <2>phase DEF Lock!In, Waiters, Holders, SameDir
  <2>write. ASSUME NEW t \in Task, NEW s \in Status, Write(t, s), NEW p, PhaseOf(s) = p
          PROVE  phase' = [phase EXCEPT ![t] = p]
    BY <2>write DEF Write
  <2>1. CASE UNCHANGED table
    BY <2>1 DEF table, Lock!vars
  <2>2. ASSUME NEW t \in Task, NEW strategy \in {"exclusive", "wait"}, Insert(t, strategy)
        PROVE  Lock!Take(t) \/ Lock!Wait(t)
    <3>1. /\ phase[t] = "new"
          /\ \A d \in Task : d < t => phase[d] # "new"
      BY <2>phase, <2>2 DEF Insert, NextRow
    <3>2. UNCHANGED revived
      BY <2>2 DEF Insert, NextRow, Write, Terminal
    <3>3. CASE Holders(t) \cup Waiters(t) = {} /\ Write(t, "queued")
      BY <1>0, <2>sets, <2>write, <3>1, <3>2, <3>3, Phases DEF Lock!Take, Lock!Comes, Status, InFlight
    <3>4. CASE Holders(t) \cup Waiters(t) # {} /\ Write(t, "waiting")
      BY <1>0, <2>sets, <2>write, <3>1, <3>2, <3>4, Phases DEF Lock!Wait, Lock!Comes, Status
    <3> QED BY <2>2, <3>3, <3>4 DEF Insert
  <2>3. ASSUME NEW t \in Task, SetRunning(t) PROVE UNCHANGED Lock!vars
    BY <2>3, Phases DEF SetRunning, Write, InFlight, Terminal, Lock!vars
  <2>4. ASSUME NEW t \in Task, NEW n \in Task, Dequeue(t, n) PROVE Lock!Grant(n)
    <3>1. WorkdirOf[n] = WorkdirOf[t] /\ status[n] = "waiting" /\ Write(n, "queued")
      BY <2>4 DEF Dequeue, Waiters, SameDir
    <3>2. Holders(n) = {} /\ \A u \in Waiters(n) : n <= u
      BY <2>4, <3>1 DEF Dequeue, CanDequeue, Holders, Waiters, SameDir
    <3>3. UNCHANGED revived
      BY <3>1 DEF Write, Terminal
    <3> QED BY <2>phase, <2>sets, <2>write, <3>1, <3>2, <3>3, Phases DEF Lock!Grant, Status, InFlight
  <2>5. ASSUME NEW t \in Task, NEW s \in Terminal, status[t] # "absent", Write(t, s)
        PROVE  Lock!GiveUp(t) \/ Lock!Release({t}) \/ UNCHANGED Lock!vars
    <3>1. phase' = [phase EXCEPT ![t] = "left"] /\ UNCHANGED revived
      BY <2>5, <2>write, Phases DEF Write, Status
    <3>2. CASE status[t] = "waiting"
      BY <2>phase, <3>1, <3>2 DEF Lock!GiveUp
    <3>3. CASE status[t] \in InFlight
      BY <1>0, <2>phase, <3>1, <3>3 DEF Lock!Release
    <3>4. CASE status[t] \in Terminal
      <4>1. phase[t] = "left"
        BY <2>phase, <3>4
      <4>2. phase' = phase
        BY <3>1, <4>1
      <4> QED BY <3>1, <4>2 DEF Lock!vars
    <3>5. status[t] \in {"absent", "waiting"} \cup InFlight \cup Terminal
      BY <1>0 DEF Status
    <3> QED BY <2>5, <3>2, <3>3, <3>4, <3>5
  <2>6. ASSUME NEW t \in Task, NEW s \in {"running", "awaiting_approval"}, Slot # {},
               status[t] \notin {"absent", "waiting"}, Write(t, s)
        PROVE  Lock!Reopen(t) \/ UNCHANGED Lock!vars
    <3>0. s \in Status /\ PhaseOf(s) = "holding"
      BY Phases DEF Status, InFlight
    <3>1. phase' = [phase EXCEPT ![t] = "holding"]
      BY <2>6, <2>write, <3>0
    <3>2. CASE status[t] \in InFlight
      BY <2>phase, <2>6, <3>1, <3>2 DEF Write, InFlight, Terminal, Lock!vars
    <3>3. CASE status[t] \in Terminal
      BY <2>phase, <2>6, <3>1, <3>3 DEF Write, Terminal, Lock!Reopen
    <3> QED BY <2>6, <3>2, <3>3 DEF Status
  <2>7. ASSUME MarkInterrupted PROVE Lock!Release({u \in Task : status[u] \in InFlight})
    BY <1>0, <2>phase, <2>7, Phases DEF MarkInterrupted, Lock!Release, Terminal
  <2> DEFINE LockStep == [Lock!Next]_(Lock!vars)
  <2>8. \A t \in Task : Lock!Take(t) \/ Lock!Wait(t) \/ Lock!Grant(t) \/ Lock!GiveUp(t) \/ Lock!Reopen(t) => LockStep
    BY <1>0 DEF Lock!Next
  <2>9. \A S \in SUBSET Task : Lock!Release(S) => LockStep
    BY <1>0 DEF Lock!Next
  <2>10. UNCHANGED Lock!vars => LockStep
    OBVIOUS
  <2> HIDE DEF LockStep, phase, IInv, TypeOK, TableTypeOK
  <2> QED BY <2>1, <2>2, <2>3, <2>4, <2>5, <2>6, <2>7, <2>8, <2>9, <2>10 DEF TableStep, LockStep
<1> QED BY <1>1, <1>2, Invariance, PTL DEF Spec, LockSpec, Lock!Spec

-----------------------------------------------------------------------------
(* The rows of runs that have ended, and of rows that were finished, stay    *)
(* final where no detached approval handler can write them.                  *)

(* The approvals of a run that awaits them in its stdout reader end before *)
(* its CLI does, and an executed run that is over has a final row.         *)
RowEnded(t) ==
  Driver[t] # "codex" =>
    /\ ~Quiet(t) => pc[t] = "live"
    /\ up /\ spawned[t] > 0 /\ pc[t] \notin {"live", "exited"} => status[t] \in Terminal

(* A plain executable asks nobody, and its row is final once finished.     *)
RowFinished(t) ==
  Driver[t] = "exec" =>
    /\ Quiet(t)
    /\ t \in finished => status[t] \in Terminal

EInv == \A t \in Task : RowEnded(t) /\ RowFinished(t)

-----------------------------------------------------------------------------
(* Final rows stay final, but for the writes of approval handlers. *)
LEMMA FinalStays ==
  ASSUME IInv, [Next]_vars, NEW t \in Task, status[t] \in Terminal, Quiet(t)
  PROVE  status'[t] \in Terminal
<1> USE DEF IInv, TypeOK, TableTypeOK
<1>1. ASSUME NEW u \in Task, NEW h \in Slot, AskBlocks(u, h) \/ AskAwaits(u, h) \/ AskReturns(u, h)
      PROVE  status'[t] \in Terminal
  BY <1>1 DEF AskBlocks, AskAwaits, AskReturns, SetStatus, Write, Quiet, Terminal
<1>2. ASSUME NEW u \in Task, NEW s \in Terminal, Write(u, s) \/ FinishTask(u, s)
      PROVE  status'[t] \in Terminal
  BY <1>2 DEF Write, FinishTask, table
<1>3. ASSUME NEW u \in Task, NEW s \in Status, Write(u, s), status[u] \notin Terminal
      PROVE  status'[t] \in Terminal
  BY <1>3 DEF Write
<1>4. ASSUME NEW u \in Task,
             RunSetRunning(u) \/ RunDequeues(u) \/ CancelFreesWorkdir(u)
             \/ \E strategy \in {"exclusive", "wait"} : Create(u, strategy)
      PROVE  status'[t] \in Terminal
  BY <1>3, <1>4 DEF RunSetRunning, SetRunning, RunDequeues, CancelFreesWorkdir, Dequeue, Waiters, SameDir,
     Create, Insert, NextRow, table, Terminal, Status, InFlight
<1>5. ASSUME NEW u \in Task, RunFinishes(u) PROVE status'[t] \in Terminal
  <2>1. outcome[u] \in Terminal
    BY <1>5 DEF RunFinishes, RowsBegun, RowBegun
  <2> QED BY <1>2, <1>5, <2>1 DEF RunFinishes
<1>6. ASSUME NEW u \in Task, RunStartsNext(u) PROVE status'[t] \in Terminal
  <2>1. promoted[u] \in Task
    BY <1>6 DEF RunStartsNext, RowsBegun, RowBegun
  <2> QED BY <1>2, <1>6, <2>1 DEF RunStartsNext, Terminal, table
<1>7. ASSUME NEW u \in Task,
             RunSetupFails(u) \/ RunBlocks(u) \/ StartGivesUp(u) \/ CancelSetsCanceled(u)
             \/ WatchdogInterrupts(u)
      PROVE  status'[t] \in Terminal
  BY <1>2, <1>7 DEF RunSetupFails, RunBlocks, StartGivesUp, CancelSetsCanceled, SetStatus,
     WatchdogInterrupts, InterruptIfInFlight, Terminal
<1>8. CASE RunnerBoot
  BY <1>8 DEF RunnerBoot, MarkInterrupted, Terminal
<1>9. ASSUME UNCHANGED table PROVE status'[t] \in Terminal
  BY <1>9 DEF table
<1>10. ASSUME NEW u \in Task,
              \/ RunSpawn(u) \/ RunResumeFails(u) \/ RunExits(u) \/ \E h \in Slot : RunAsks(u, h)
              \/ Replay(u) \/ StartServed(u) \/ StartUnreachable(u)
              \/ CancelReads(u) \/ PreemptReads(u) \/ CancelAsksRunner(u) \/ PreemptAsksRunner(u)
              \/ WatchdogCancels(u)
       PROVE  UNCHANGED table
  BY <1>10 DEF RunSpawn, RunResumeFails, RunExits, RunAsks, Replay, StartServed, StartUnreachable,
     CancelReads, PreemptReads, CancelAsksRunner, PreemptAsksRunner, WatchdogCancels
<1>11. CASE RunnerCrash \/ ServerCrash \/ UNCHANGED vars
  BY <1>9, <1>11 DEF RunnerCrash, ServerCrash, vars
<1> QED
  BY <1>1, <1>4, <1>5, <1>6, <1>7, <1>8, <1>9, <1>10, <1>11
     DEF Next, RunStep, AskStep, ServerStep, CliStep, UserStep

(* The handlers of a run other than codex: they come and go while it lives. *)
LEMMA HandlersStep ==
  ASSUME IInv, EInv, [Next]_vars, NEW t \in Task, Driver[t] # "codex"
  PROVE  /\ ~Quiet(t)' => pc'[t] = "live"
         /\ Driver[t] = "exec" => Quiet(t)'
<1> USE DEF IInv, TypeOK, EInv, RowEnded, RowFinished, Quiet
<1>1. ASSUME NEW u \in Task, NEW h \in Slot, RunAsks(u, h)
      PROVE  (~Quiet(t)' => pc'[t] = "live") /\ (Driver[t] = "exec" => Quiet(t)')
  BY <1>1 DEF RunAsks
<1>2. ASSUME NEW u \in Task, NEW h \in Slot, AskBlocks(u, h) \/ AskAwaits(u, h) \/ AskReturns(u, h)
      PROVE  (~Quiet(t)' => pc'[t] = "live") /\ (Driver[t] = "exec" => Quiet(t)')
  BY <1>2 DEF AskBlocks, AskAwaits, AskReturns
<1>3. ASSUME NEW u \in Task,
             RunSetRunning(u) \/ RunSetupFails(u) \/ RunSpawn(u) \/ RunFinishes(u) \/ RunDequeues(u)
             \/ RunStartsNext(u) \/ RunExits(u) \/ StartServed(u)
      PROVE  (~Quiet(t)' => pc'[t] = "live") /\ (Driver[t] = "exec" => Quiet(t)')
  BY <1>3 DEF RunSetRunning, RunSetupFails, RunSpawn, RunFinishes, RunDequeues, RunStartsNext, RunExits,
     StartServed, Return, Admit, CanStart, InCancels, ReaderDone
<1>4. ASSUME UNCHANGED <<pc, ask>>
      PROVE  (~Quiet(t)' => pc'[t] = "live") /\ (Driver[t] = "exec" => Quiet(t)')
  BY <1>4
<1>5. ASSUME NEW u \in Task,
             \/ RunBlocks(u) \/ RunResumeFails(u)
             \/ \E strategy \in {"exclusive", "wait"} : Create(u, strategy)
             \/ Replay(u) \/ StartUnreachable(u) \/ StartGivesUp(u) \/ CancelReads(u) \/ PreemptReads(u)
             \/ CancelSetsCanceled(u) \/ CancelFreesWorkdir(u) \/ CancelAsksRunner(u) \/ PreemptAsksRunner(u)
             \/ WatchdogInterrupts(u) \/ WatchdogCancels(u)
      PROVE  UNCHANGED <<pc, ask>>
  BY <1>5 DEF RunBlocks, RunResumeFails, Create, Replay, StartUnreachable, StartGivesUp, CancelReads, PreemptReads,
     CancelSetsCanceled, CancelFreesWorkdir, CancelAsksRunner, PreemptAsksRunner, WatchdogInterrupts,
     WatchdogCancels, runner
<1>6. CASE RunnerCrash
  BY <1>6 DEF RunnerCrash
<1>7. CASE RunnerBoot \/ ServerCrash \/ UNCHANGED vars
  BY <1>4, <1>7 DEF RunnerBoot, ServerCrash, runner, vars
<1> QED
  BY <1>1, <1>2, <1>3, <1>4, <1>5, <1>6, <1>7 DEF Next, RunStep, AskStep, ServerStep, CliStep, UserStep

(* A run leaves "live" and "exited" by finishing its row or with its daemon. *)
LEMMA OverStep ==
  ASSUME IInv, [Next]_vars, NEW t \in Task, ~RunnerBoot, ~RunFinishes(t),
         up', spawned'[t] > 0, pc'[t] \notin {"live", "exited"}
  PROVE  up /\ spawned[t] > 0 /\ pc[t] \notin {"live", "exited"}
<1> USE DEF IInv, TypeOK
<1> DEFINE Over == up /\ spawned[t] > 0 /\ pc[t] \notin {"live", "exited"}
<1>1. ASSUME NEW u \in Task,
             RunSetRunning(u) \/ RunSetupFails(u) \/ RunSpawn(u) \/ RunFinishes(u) \/ RunDequeues(u)
             \/ RunStartsNext(u) \/ RunExits(u) \/ StartServed(u)
      PROVE  Over
  BY <1>1 DEF RunSetRunning, RunSetupFails, RunSpawn, RunFinishes, RunDequeues, RunStartsNext, RunExits,
     StartServed, Return, Admit, CanStart, InCancels
<1>2. ASSUME UNCHANGED <<up, pc, spawned>> PROVE Over
  BY <1>2
<1>3. ASSUME NEW u \in Task,
             \/ RunBlocks(u) \/ RunResumeFails(u) \/ AskStep(u) \/ \E h \in Slot : RunAsks(u, h)
             \/ \E strategy \in {"exclusive", "wait"} : Create(u, strategy)
             \/ Replay(u) \/ StartUnreachable(u) \/ StartGivesUp(u) \/ CancelReads(u) \/ PreemptReads(u)
             \/ CancelSetsCanceled(u) \/ CancelFreesWorkdir(u) \/ CancelAsksRunner(u) \/ PreemptAsksRunner(u)
             \/ WatchdogInterrupts(u) \/ WatchdogCancels(u)
      PROVE  UNCHANGED <<up, pc, spawned>>
  BY <1>3 DEF RunBlocks, RunResumeFails, AskStep, AskBlocks, AskAwaits, AskReturns, RunAsks,
     Create, Replay, StartUnreachable, StartGivesUp, CancelReads, PreemptReads,
     CancelSetsCanceled, CancelFreesWorkdir, CancelAsksRunner, PreemptAsksRunner, WatchdogInterrupts,
     WatchdogCancels, runner
<1>4. CASE RunnerCrash
  BY <1>4 DEF RunnerCrash
<1>5. CASE ServerCrash \/ UNCHANGED vars
  BY <1>2, <1>5 DEF ServerCrash, runner, vars
<1> QED
  BY <1>1, <1>2, <1>3, <1>4, <1>5 DEF Next, RunStep, ServerStep, CliStep, UserStep

LEMMA EndedStep ==
  ASSUME IInv, EInv, [Next]_vars, NEW t \in Task, Driver[t] # "codex",
         up', spawned'[t] > 0, pc'[t] \notin {"live", "exited"}
  PROVE  status'[t] \in Terminal
<1> USE DEF IInv, TypeOK, TableTypeOK
<1>1. CASE RunFinishes(t)
  <2>1. outcome[t] \in Terminal
    BY <1>1 DEF RunFinishes, RowsBegun, RowBegun
  <2> QED BY <1>1, <2>1 DEF RunFinishes, FinishTask, Write, table
<1>2. CASE RunnerBoot
  <2>1. status[t] \in InFlight \cup Terminal
    BY <1>2 DEF RunnerBoot, RowsBegun, RowBegun, Status
  <2> QED BY <1>2, <2>1 DEF RunnerBoot, MarkInterrupted, Terminal
<1>3. CASE ~RunnerBoot /\ ~RunFinishes(t)
  <2>1. status[t] \in Terminal /\ Quiet(t)
    BY <1>3, OverStep DEF EInv, RowEnded
  <2> QED BY <2>1, FinalStays
<1> QED BY <1>1, <1>2, <1>3

(* finished_at is written together with a final status only. *)
LEMMA FinishedStep ==
  ASSUME IInv, EInv, [Next]_vars, NEW t \in Task, Driver[t] = "exec", t \in finished'
  PROVE  status'[t] \in Terminal
<1> USE DEF IInv, TypeOK, TableTypeOK
<1>1. CASE t \in finished
  BY <1>1, FinalStays DEF EInv, RowFinished
<1>2. ASSUME t \notin finished, NEW s \in Terminal, FinishTask(t, s) \/ InterruptIfInFlight(t)
      PROVE  status'[t] \in Terminal
  BY <1>2 DEF FinishTask, InterruptIfInFlight, Write, table, Terminal
<1>3. ASSUME t \notin finished
      PROVE  \E s \in Terminal : FinishTask(t, s) \/ InterruptIfInFlight(t)
  <2>1. ASSUME NEW u \in Task, NEW s \in Terminal, FinishTask(u, s) PROVE FinishTask(t, s)
    BY <1>3, <2>1 DEF FinishTask, table
  <2>2. ASSUME NEW u \in Task, InterruptIfInFlight(u) PROVE InterruptIfInFlight(t)
    BY <1>3, <2>2 DEF InterruptIfInFlight
  <2>3. ASSUME NEW u \in Task, RunFinishes(u) PROVE \E s \in Terminal : FinishTask(t, s)
    BY <2>1, <2>3 DEF RunFinishes, RowsBegun, RowBegun
  <2>4. ASSUME NEW u \in Task, RunStartsNext(u) PROVE \E s \in Terminal : FinishTask(t, s)
    <3>1. promoted[u] \in Task
      BY <2>4 DEF RunStartsNext, RowsBegun, RowBegun
    <3> QED BY <1>3, <2>1, <2>4, <3>1 DEF RunStartsNext, table, Terminal
  <2>5. ASSUME NEW u \in Task, RunSetupFails(u) \/ StartGivesUp(u) PROVE \E s \in Terminal : FinishTask(t, s)
    BY <2>1, <2>5 DEF RunSetupFails, StartGivesUp, Terminal
  <2>6. ASSUME NEW u \in Task, WatchdogInterrupts(u) PROVE InterruptIfInFlight(t)
    BY <2>2, <2>6 DEF WatchdogInterrupts
  <2>7. ASSUME NEW u \in Task,
             \/ RunSetRunning(u) \/ RunDequeues(u) \/ RunBlocks(u) \/ AskStep(u)
             \/ \E strategy \in {"exclusive", "wait"} : Create(u, strategy)
             \/ CancelSetsCanceled(u) \/ CancelFreesWorkdir(u)
        PROVE  finished' = finished
    BY <2>7 DEF RunSetRunning, SetRunning, RunDequeues, RunBlocks, AskStep, AskBlocks, AskAwaits, AskReturns,
       Create, Insert, CancelSetsCanceled, CancelFreesWorkdir, Dequeue, SetStatus, table
  <2>8. ASSUME NEW u \in Task,
             \/ RunSpawn(u) \/ RunResumeFails(u) \/ RunExits(u) \/ \E h \in Slot : RunAsks(u, h)
             \/ Replay(u) \/ StartServed(u) \/ StartUnreachable(u)
             \/ CancelReads(u) \/ PreemptReads(u) \/ CancelAsksRunner(u) \/ PreemptAsksRunner(u)
             \/ WatchdogCancels(u)
        PROVE  finished' = finished
    BY <2>8 DEF RunSpawn, RunResumeFails, RunExits, RunAsks, Replay, StartServed, StartUnreachable,
       CancelReads, PreemptReads, CancelAsksRunner, PreemptAsksRunner, WatchdogCancels, table
  <2>9. CASE RunnerCrash \/ RunnerBoot \/ ServerCrash \/ UNCHANGED vars
    BY <1>3, <2>9 DEF RunnerCrash, RunnerBoot, MarkInterrupted, ServerCrash, vars, table
  <2>10. Terminal # {}
    BY DEF Terminal
  <2> QED
    BY <1>3, <2>3, <2>4, <2>5, <2>6, <2>7, <2>8, <2>9, <2>10
       DEF Next, RunStep, ServerStep, CliStep, UserStep
<1> QED BY <1>1, <1>2, <1>3

LEMMA EndInvariance == Spec => []EInv
<1>1. Init => EInv
  BY DEF Init, TableInit, EInv, RowEnded, RowFinished, Quiet
<1>2. IInv /\ EInv /\ [Next]_vars => EInv'
  <2> SUFFICES ASSUME IInv, EInv, [Next]_vars, NEW t \in Task PROVE RowEnded(t)' /\ RowFinished(t)'
    BY DEF EInv
  <2>1. RowEnded(t)'
    BY HandlersStep, EndedStep DEF RowEnded
  <2>2. RowFinished(t)'
    BY HandlersStep, FinishedStep DEF RowFinished
  <2> QED BY <2>1, <2>2
<1> QED BY <1>1, <1>2, Invariance, PTL DEF Spec

-----------------------------------------------------------------------------
(* Where approvals are awaited in the stdout reader, a run that has executed *)
(* and returned leaves a final row, whatever canceled, interrupted or failed *)
(* it and whenever the daemon died.                                          *)
THEOREM EndedRuns == Spec => []EndedRunIsFinal
<1>1. EInv => EndedRunIsFinal
  BY DEF EInv, RowEnded, EndedRunIsFinal, EndedFinal
<1> QED BY <1>1, EndInvariance, PTL

(* Where the CLI asks nobody, a row with finished_at keeps its status while  *)
(* no user cancels it.                                                       *)
THEOREM FinishedRows == Spec => FinishedStays
<1> DEFINE Stays == \A t \in finished : Driver[t] = "exec" /\ canceling[t] = "none" => status'[t] = status[t]
<1>1. IInv /\ EInv /\ [Next]_vars => [Stays]_vars
  <2> SUFFICES ASSUME IInv, EInv, [Next]_vars, NEW t \in finished, Driver[t] = "exec", canceling[t] = "none"
               PROVE  status'[t] = status[t]
    OBVIOUS
  <2> USE DEF IInv, TypeOK, TableTypeOK
  <2>0. t \in Task /\ status[t] \in Terminal /\ Quiet(t)
    BY DEF EInv, RowFinished
  <2>1. ASSUME NEW u \in Task, NEW s \in Terminal, FinishTask(u, s) PROVE status'[t] = status[t]
    BY <2>0, <2>1 DEF FinishTask, Write, table
  <2>2. ASSUME NEW u \in Task, NEW s, Write(u, s), u # t PROVE status'[t] = status[t]
    BY <2>0, <2>2 DEF Write
  <2>3. ASSUME NEW u \in Task, RunFinishes(u) PROVE status'[t] = status[t]
    BY <2>1, <2>3 DEF RunFinishes, RowsBegun, RowBegun
  <2>4. ASSUME NEW u \in Task, RunStartsNext(u) PROVE status'[t] = status[t]
    <3>1. promoted[u] \in Task
      BY <2>4 DEF RunStartsNext, RowsBegun, RowBegun
    <3> QED BY <2>1, <2>4, <3>1 DEF RunStartsNext, table, Terminal
  <2>5. ASSUME NEW u \in Task, RunSetupFails(u) \/ StartGivesUp(u) PROVE status'[t] = status[t]
    BY <2>1, <2>5 DEF RunSetupFails, StartGivesUp, Terminal
  <2>6. ASSUME NEW u \in Task, AskStep(u) PROVE status'[t] = status[t]
    BY <2>0, <2>2, <2>6 DEF AskStep, AskBlocks, AskAwaits, AskReturns, SetStatus, Quiet
  <2>7. ASSUME NEW u \in Task,
             \/ RunSetRunning(u) \/ RunDequeues(u) \/ RunBlocks(u)
             \/ \E strategy \in {"exclusive", "wait"} : Create(u, strategy)
             \/ CancelSetsCanceled(u) \/ CancelFreesWorkdir(u) \/ WatchdogInterrupts(u)
        PROVE  status'[t] = status[t]
    BY <2>0, <2>2, <2>7 DEF RunSetRunning, SetRunning, RunDequeues, RunBlocks, Create, Insert, NextRow,
       CancelSetsCanceled, CancelFreesWorkdir, Dequeue, Waiters, SameDir, SetStatus, WatchdogInterrupts,
       InterruptIfInFlight, InFlight, Terminal, table
  <2>8. ASSUME NEW u \in Task,
             \/ RunSpawn(u) \/ RunResumeFails(u) \/ RunExits(u) \/ \E h \in Slot : RunAsks(u, h)
             \/ Replay(u) \/ StartServed(u) \/ StartUnreachable(u)
             \/ CancelReads(u) \/ PreemptReads(u) \/ CancelAsksRunner(u) \/ PreemptAsksRunner(u)
             \/ WatchdogCancels(u)
        PROVE  status' = status
    BY <2>8 DEF RunSpawn, RunResumeFails, RunExits, RunAsks, Replay, StartServed, StartUnreachable,
       CancelReads, PreemptReads, CancelAsksRunner, PreemptAsksRunner, WatchdogCancels, table
  <2>9. CASE RunnerCrash \/ RunnerBoot \/ ServerCrash \/ UNCHANGED vars
    BY <2>0, <2>9 DEF RunnerCrash, RunnerBoot, MarkInterrupted, ServerCrash, vars, table, InFlight, Terminal
  <2> QED
    BY <2>3, <2>4, <2>5, <2>6, <2>7, <2>8, <2>9 DEF Next, RunStep, ServerStep, CliStep, UserStep
<1> QED BY <1>1, EndInvariance, Invariance, PTL DEF Spec, FinishedStays

-----------------------------------------------------------------------------
(* Who sees to the rows while no process has died: the safety behind         *)
(* HoldersLeave and WaitingServed.                                           *)

\* No process has died so far.
Undisturbed == faults = 0 \/ Faults \cap {"runner_crash", "server_crash"} = {}

\* What the place of a run says of its CLI and of its row.
Launched(t) ==
  /\ pc[t] \in {"live", "exited", "finished", "promoting"} => spawned[t] > 0
  /\ pc[t] # "promoting" => promoted[t] = 0
  /\ up /\ Driver[t] # "codex" /\ status[t] \in {"running", "awaiting_approval"} /\ spawned[t] = 0
       => pc[t] = "setup"

LInv == (Undisturbed => up) /\ \A t \in Task : Launched(t)

\* A row in flight is in a run's hands, in a request's or about to be started.
InHands(t) ==
  \/ InCancels(t) \/ starting[t] + failing[t] > 0
  \/ \E u \in Task : promoted[u] = t

AInv == Undisturbed => \A t \in Task : Driver[t] # "codex" /\ status[t] \in InFlight => InHands(t)

\* What will look for a waiting row, or, as the code has it, fail to: a row that
\* became final before its CLI was spawned.
Wakes(u) ==
  \/ status[u] \in InFlight
  \/ pc[u] \in {"live", "exited", "finished"}
  \/ canceling[u] = "free_workdir"
  \/ status[u] \in Terminal /\ spawned[u] = 0

NoWakeupLost ==
  Undisturbed =>
    \A t \in Task : status[t] = "waiting" /\ (\A u \in SameDir(t) : Driver[u] # "codex")
                      => \E u \in SameDir(t) : Wakes(u)

InFlightAttended ==
  Undisturbed => \A t \in Task : Driver[t] # "codex" /\ status[t] \in InFlight => Attended(t)

-----------------------------------------------------------------------------
\* The steps that leave the goroutines and their CLIs alone, and those that do not.
RunMoves(u) == \/ RunSetRunning(u) \/ RunSetupFails(u) \/ RunSpawn(u) \/ RunFinishes(u) \/ RunDequeues(u)
               \/ RunStartsNext(u) \/ RunExits(u) \/ StartServed(u)

LEMMA Movers ==
  ASSUME [Next]_vars
  PROVE  (\E u \in Task : RunMoves(u)) \/ RunnerCrash \/ RunnerBoot \/ UNCHANGED << up, pc, promoted, spawned >>
<1>1. ASSUME NEW u \in Task,
             \/ RunBlocks(u) \/ RunResumeFails(u) \/ AskStep(u) \/ \E h \in Slot : RunAsks(u, h)
             \/ \E strategy \in {"exclusive", "wait"} : Create(u, strategy)
             \/ Replay(u) \/ StartUnreachable(u) \/ StartGivesUp(u) \/ CancelReads(u) \/ PreemptReads(u)
             \/ CancelSetsCanceled(u) \/ CancelFreesWorkdir(u) \/ CancelAsksRunner(u) \/ PreemptAsksRunner(u)
             \/ WatchdogInterrupts(u) \/ WatchdogCancels(u)
      PROVE  UNCHANGED << up, pc, promoted, spawned >>
  BY <1>1 DEF RunBlocks, RunResumeFails, AskStep, AskBlocks, AskAwaits, AskReturns, RunAsks,
     Create, Replay, StartUnreachable, StartGivesUp, CancelReads, PreemptReads,
     CancelSetsCanceled, CancelFreesWorkdir, CancelAsksRunner, PreemptAsksRunner, WatchdogInterrupts,
     WatchdogCancels, runner
<1>2. CASE ServerCrash \/ UNCHANGED vars
  BY <1>2 DEF ServerCrash, runner, vars
<1> QED BY <1>1, <1>2 DEF Next, RunStep, ServerStep, CliStep, UserStep, RunMoves

\* Nothing undoes the death of a process.
LEMMA StaysDisturbed ==
  ASSUME IInv, [Next]_vars, Undisturbed'
  PROVE  Undisturbed /\ ~RunnerCrash /\ ~ServerCrash
<1> USE DEF IInv, TypeOK
<1>1. faults' = faults \/ (faults' = faults + 1)
  <2>1. ASSUME NEW t \in Task, StartServed(t) \/ StartUnreachable(t) \/ WatchdogInterrupts(t)
        PROVE  faults' = faults \/ faults' = faults + 1
    BY <2>1 DEF StartServed, StartUnreachable, WatchdogInterrupts, Fault
  <2>2. CASE RunnerCrash \/ ServerCrash \/ RunnerBoot \/ UNCHANGED vars
    BY <2>2 DEF RunnerCrash, ServerCrash, RunnerBoot, vars, Fault
  <2>3. ASSUME NEW t \in Task, RunStep(t) \/ AskStep(t) \/ CliStep(t) \/ UserStep(t)
        PROVE  faults' = faults
    BY <2>3 DEF RunStep, AskStep, CliStep, UserStep,
       RunSetRunning, RunSetupFails, RunSpawn, RunFinishes, RunDequeues, RunStartsNext, RunBlocks, RunResumeFails,
       RunAsks, AskBlocks, AskAwaits, AskReturns, RunExits, Create, Replay, CancelReads, PreemptReads
  <2>4. ASSUME NEW t \in Task, StartGivesUp(t) \/ CancelSetsCanceled(t) \/ CancelFreesWorkdir(t) \/ CancelAsksRunner(t)
                 \/ PreemptAsksRunner(t) \/ WatchdogCancels(t)
        PROVE  faults' = faults
    BY <2>4 DEF StartGivesUp, CancelSetsCanceled, CancelFreesWorkdir, CancelAsksRunner, PreemptAsksRunner, WatchdogCancels
  <2> QED BY <2>1, <2>2, <2>3, <2>4 DEF Next, ServerStep
<1>2. Undisturbed
  BY <1>1 DEF Undisturbed
<1>3. ~RunnerCrash /\ ~ServerCrash
  BY DEF RunnerCrash, ServerCrash, Fault, Undisturbed
<1> QED BY <1>2, <1>3

\* The status of a row that is final or in flight: it is one or the other.
LEMMA StatusStep ==
  ASSUME IInv, [Next]_vars, NEW t \in Task, status[t] \in InFlight \cup Terminal
  PROVE  status'[t] \in InFlight \cup Terminal
<1> SUFFICES ASSUME TableStep PROVE status'[t] \in InFlight \cup Terminal
  BY TableSteps
<1> USE DEF IInv, TypeOK, TableTypeOK
<1>1. ASSUME NEW u \in Task, NEW s \in InFlight \cup Terminal, Write(u, s)
      PROVE  status'[t] \in InFlight \cup Terminal
  BY <1>1 DEF Write
<1>2. ASSUME NEW u \in Task, NEW strategy \in {"exclusive", "wait"}, Insert(u, strategy)
      PROVE  status'[t] \in InFlight \cup Terminal
  BY <1>2 DEF Insert, NextRow, Write, InFlight, Terminal
<1>3. CASE MarkInterrupted
  BY <1>3 DEF MarkInterrupted, Terminal
<1>4. "queued" \in InFlight /\ "running" \in InFlight /\ "awaiting_approval" \in InFlight
  BY DEF InFlight
<1> QED BY <1>1, <1>2, <1>3, <1>4 DEF TableStep, table, SetRunning, Dequeue

\* A CLI is spawned by its own run.
LEMMA SpawnStep ==
  ASSUME IInv, [Next]_vars, NEW t \in Task
  PROVE  spawned'[t] = spawned[t] \/ (pc'[t] = "live" /\ spawned'[t] > 0)
<1>1. CASE UNCHANGED spawned
  BY <1>1
<1>2. ASSUME NEW u \in Task, RunMoves(u)
      PROVE  spawned'[t] = spawned[t] \/ (pc'[t] = "live" /\ spawned'[t] > 0)
  <2>1. CASE RunSpawn(u)
    BY <2>1 DEF RunSpawn, IInv, TypeOK
  <2>2. CASE ~RunSpawn(u)
    BY <1>2, <2>2 DEF RunMoves, RunSetRunning, RunSetupFails, RunFinishes, RunDequeues, RunStartsNext, RunExits, StartServed
  <2> QED BY <2>1, <2>2
<1>3. CASE RunnerCrash \/ RunnerBoot
  BY <1>3 DEF RunnerCrash, RunnerBoot
<1> QED BY <1>1, <1>2, <1>3, Movers

-----------------------------------------------------------------------------
\* A run goes through its places one after the other.
LEMMA PcStep ==
  ASSUME IInv, [Next]_vars, NEW t \in Task, ~RunnerCrash
  PROVE  /\ pc[t] \in {"live", "exited", "finished"} =>
               pc'[t] \in {"live", "exited", "finished"} \/ RunDequeues(t)
         /\ pc'[t] \in {"live", "exited", "finished", "promoting"} =>
               pc[t] \in {"live", "exited", "finished", "promoting"} \/ RunSpawn(t)
         /\ pc[t] = "setup" => pc'[t] = "setup" \/ RunSetupFails(t) \/ RunSpawn(t)
<1> USE DEF IInv, TypeOK
<1> DEFINE Goal == /\ pc[t] \in {"live", "exited", "finished"} =>
                         pc'[t] \in {"live", "exited", "finished"} \/ RunDequeues(t)
                   /\ pc'[t] \in {"live", "exited", "finished", "promoting"} =>
                         pc[t] \in {"live", "exited", "finished", "promoting"} \/ RunSpawn(t)
                   /\ pc[t] = "setup" => pc'[t] = "setup" \/ RunSetupFails(t) \/ RunSpawn(t)
<1>1. ASSUME NEW u \in Task, RunSetRunning(u) \/ RunFinishes(u) \/ RunExits(u) \/ StartServed(u) PROVE Goal
  BY <1>1 DEF RunSetRunning, RunFinishes, RunExits, StartServed, Return, Admit, CanStart, InCancels
<1>2. ASSUME NEW u \in Task, RunSetupFails(u) \/ RunSpawn(u) PROVE Goal
  <2>1. CASE u = t
    BY <1>2, <2>1 DEF RunSetupFails, RunSpawn, Return
  <2>2. CASE u # t
    BY <1>2, <2>2 DEF RunSetupFails, RunSpawn, Return
  <2> QED BY <2>1, <2>2
<1>3. ASSUME NEW u \in Task, RunDequeues(u) PROVE Goal
  <2>1. CASE u = t
    BY <1>3, <2>1 DEF RunDequeues, Return
  <2>2. CASE u # t
    BY <1>3, <2>2 DEF RunDequeues, Return
  <2> QED BY <2>1, <2>2
<1>4. ASSUME NEW u \in Task, RunStartsNext(u) PROVE Goal
  BY <1>4 DEF RunStartsNext, CanStart, InCancels
<1>5. CASE UNCHANGED pc
  BY <1>5
<1>6. CASE RunnerBoot
  BY <1>6 DEF RunnerBoot
<1> QED BY <1>1, <1>2, <1>3, <1>4, <1>5, <1>6, Movers DEF RunMoves

\* Which row a run has dequeued: none until it promotes.
LEMMA PromotedStep ==
  ASSUME IInv, LInv, [Next]_vars, NEW t \in Task, pc'[t] # "promoting"
  PROVE  promoted'[t] = 0
<1> USE DEF IInv, TypeOK, LInv, Launched
<1>1. ASSUME NEW u \in Task,
             RunSetRunning(u) \/ RunSetupFails(u) \/ RunSpawn(u) \/ RunFinishes(u) \/ RunExits(u) \/ StartServed(u)
      PROVE  promoted'[t] = 0
  BY <1>1 DEF RunSetRunning, RunSetupFails, RunSpawn, RunFinishes, RunExits, StartServed, Return, Admit, CanStart, InCancels
<1>2. ASSUME NEW u \in Task, RunDequeues(u) PROVE promoted'[t] = 0
  BY <1>2 DEF RunDequeues, Return
<1>3. ASSUME NEW u \in Task, RunStartsNext(u) PROVE promoted'[t] = 0
  BY <1>3 DEF RunStartsNext, CanStart, InCancels
<1>4. CASE UNCHANGED << pc, promoted >>
  BY <1>4
<1>5. CASE RunnerCrash \/ RunnerBoot
  BY <1>5 DEF RunnerCrash, RunnerBoot
<1> QED BY <1>1, <1>2, <1>3, <1>4, <1>5, Movers DEF RunMoves

\* How a row comes to be running or awaiting an approval.
LEMMA RunningStep ==
  ASSUME IInv, [Next]_vars, NEW t \in Task, status'[t] \in {"running", "awaiting_approval"}
  PROVE  status[t] \in {"running", "awaiting_approval"} \/ RunSetRunning(t) \/ (AskStep(t) /\ ~Quiet(t))
<1> USE DEF IInv, TypeOK, TableTypeOK
<1> DEFINE Goal == status[t] \in {"running", "awaiting_approval"} \/ RunSetRunning(t) \/ (AskStep(t) /\ ~Quiet(t))
<1>1. ASSUME NEW u \in Task, NEW s, Write(u, s), u # t \/ s \notin {"running", "awaiting_approval"}
      PROVE  status[t] \in {"running", "awaiting_approval"}
  BY <1>1 DEF Write
<1>2. ASSUME NEW u \in Task, NEW s \in Terminal, Write(u, s) \/ FinishTask(u, s) PROVE Goal
  BY <1>2 DEF Write, FinishTask, table, Terminal
<1>3. ASSUME NEW u \in Task, AskStep(u) PROVE Goal
  <2>1. CASE u = t
    BY <1>3, <2>1 DEF AskStep, AskBlocks, AskAwaits, AskReturns, Quiet
  <2>2. CASE u # t
    BY <1>1, <1>3, <2>2 DEF AskStep, AskBlocks, AskAwaits, AskReturns, SetStatus
  <2> QED BY <2>1, <2>2
<1>4. ASSUME NEW u \in Task, RunSetRunning(u) PROVE Goal
  <2>1. CASE u = t
    BY <1>4, <2>1
  <2>2. CASE u # t
    BY <1>4, <2>2, <1>1 DEF RunSetRunning, SetRunning, table
  <2> QED BY <2>1, <2>2
<1>5. ASSUME NEW u \in Task,
             RunDequeues(u) \/ CancelFreesWorkdir(u) \/ \E strategy \in {"exclusive", "wait"} : Create(u, strategy)
      PROVE  Goal
  BY <1>1, <1>5 DEF RunDequeues, CancelFreesWorkdir, Dequeue, Create, Insert, table
<1>6. ASSUME NEW u \in Task, RunFinishes(u) PROVE Goal
  <2>1. outcome[u] \in Terminal
    BY <1>6 DEF RunFinishes, RowsBegun, RowBegun
  <2> QED BY <1>2, <1>6, <2>1 DEF RunFinishes
<1>7. ASSUME NEW u \in Task, RunStartsNext(u) PROVE Goal
  <2>1. promoted[u] \in Task
    BY <1>7 DEF RunStartsNext, RowsBegun, RowBegun
  <2>2. "failed" \in Terminal
    BY DEF Terminal
  <2> QED BY <1>2, <1>7, <2>1, <2>2 DEF RunStartsNext, table
<1>8. ASSUME NEW u \in Task,
             RunSetupFails(u) \/ RunBlocks(u) \/ StartGivesUp(u) \/ CancelSetsCanceled(u)
             \/ WatchdogInterrupts(u)
      PROVE  Goal
  BY <1>2, <1>8 DEF RunSetupFails, RunBlocks, StartGivesUp, CancelSetsCanceled, SetStatus,
     WatchdogInterrupts, InterruptIfInFlight, Terminal
<1>9. CASE RunnerBoot
  BY <1>9 DEF RunnerBoot, MarkInterrupted
<1>10. ASSUME UNCHANGED table PROVE Goal
  BY <1>10 DEF table
<1>11. ASSUME NEW u \in Task,
              \/ RunSpawn(u) \/ RunResumeFails(u) \/ RunExits(u) \/ \E h \in Slot : RunAsks(u, h)
              \/ Replay(u) \/ StartServed(u) \/ StartUnreachable(u)
              \/ CancelReads(u) \/ PreemptReads(u) \/ CancelAsksRunner(u) \/ PreemptAsksRunner(u)
              \/ WatchdogCancels(u)
       PROVE  UNCHANGED table
  BY <1>11 DEF RunSpawn, RunResumeFails, RunExits, RunAsks, Replay, StartServed, StartUnreachable,
     CancelReads, PreemptReads, CancelAsksRunner, PreemptAsksRunner, WatchdogCancels
<1>12. CASE RunnerCrash \/ ServerCrash \/ UNCHANGED vars
  BY <1>10, <1>12 DEF RunnerCrash, ServerCrash, vars
<1> HIDE DEF IInv, TypeOK, TableTypeOK
<1>13. ASSUME NEW u \in Task, RunStep(u) \/ AskStep(u) \/ ServerStep(u) \/ CliStep(u) \/ UserStep(u)
       PROVE  Goal
  BY <1>3, <1>4, <1>5, <1>6, <1>7, <1>8, <1>10, <1>11, <1>13 DEF RunStep, ServerStep, CliStep, UserStep
<1>14. CASE Next
  <2>1. CASE RunnerCrash \/ ServerCrash
    BY <1>12, <2>1
  <2>2. CASE \E u \in Task : RunStep(u) \/ AskStep(u) \/ ServerStep(u) \/ CliStep(u) \/ UserStep(u)
    BY <1>13, <2>2
  <2> QED BY <1>9, <1>14, <2>1, <2>2 DEF Next
<1> QED BY <1>12, <1>14

LEMMA LaunchedStep == IInv /\ EInv /\ LInv /\ [Next]_vars => LInv'
<1> SUFFICES ASSUME IInv, EInv, LInv, [Next]_vars PROVE LInv'
  OBVIOUS
<1> USE DEF IInv, TypeOK, TableTypeOK
<1>1. Undisturbed' => up'
  <2>1. ASSUME NEW u \in Task, RunMoves(u) PROVE up' = up
    BY <2>1 DEF RunMoves, RunSetRunning, RunSetupFails, RunSpawn, RunFinishes, RunDequeues, RunStartsNext, RunExits, StartServed
  <2>2. RunnerBoot => up'
    BY DEF RunnerBoot
  <2> QED BY <2>1, <2>2, StaysDisturbed, Movers DEF LInv
<1>2. ASSUME NEW t \in Task PROVE Launched(t)'
  <2>1. Launched(t) /\ RowEnded(t) /\ spawned[t] \in Nat
    BY DEF LInv, EInv
  <2>2. pc'[t] \in {"live", "exited", "finished", "promoting"} => spawned'[t] > 0
    <3>1. CASE RunnerCrash
      BY <3>1 DEF RunnerCrash
    <3>2. CASE RunSpawn(t)
      BY <3>2 DEF RunSpawn
    <3>3. CASE ~RunnerCrash /\ ~RunSpawn(t)
      BY <2>1, <3>3, PcStep, SpawnStep DEF Launched
    <3> QED BY <3>1, <3>2, <3>3
  <2>3. pc'[t] # "promoting" => promoted'[t] = 0
    BY PromotedStep
  <2>4. ASSUME up', Driver[t] # "codex", status'[t] \in {"running", "awaiting_approval"}, spawned'[t] = 0
        PROVE  pc'[t] = "setup"
    <3>1. spawned[t] = 0
      BY <2>4, SpawnStep
    <3>2. ~RunnerCrash /\ ~RunnerBoot
      <4>1. ~RunnerCrash
        BY <2>4 DEF RunnerCrash
      <4>2. status' = [u \in Task |-> IF status[u] \in InFlight THEN "interrupted" ELSE status[u]] => status'[t] \notin {"running", "awaiting_approval"}
        BY DEF InFlight
      <4> QED BY <2>4, <4>1, <4>2 DEF RunnerBoot, MarkInterrupted
    <3>3. up
      <4>1. ASSUME NEW u \in Task, RunMoves(u) PROVE up' = up
        BY <4>1 DEF RunMoves, RunSetRunning, RunSetupFails, RunSpawn, RunFinishes, RunDequeues, RunStartsNext, RunExits, StartServed
      <4> QED BY <2>4, <3>2, <4>1, Movers
    <3>4. CASE status[t] \in {"running", "awaiting_approval"}
      <4>1. pc[t] = "setup"
        BY <2>1, <2>4, <3>1, <3>3, <3>4 DEF Launched
      <4>2. ~RunSpawn(t)
        <5>1. spawned \in [Task -> Nat] /\ 0 + 1 # 0
          OBVIOUS
        <5> QED BY <2>4, <3>1, <5>1 DEF RunSpawn
      <4>3. ~RunSetupFails(t)
        BY <2>4, <3>4 DEF RunSetupFails, FinishTask, Write, table, Terminal
      <4> QED BY <3>2, <4>1, <4>2, <4>3, PcStep
    <3>5. CASE RunSetRunning(t) /\ status[t] \notin {"running", "awaiting_approval"}
      BY <2>4, <3>5 DEF RunSetRunning, SetRunning, Return, table
    <3>6. CASE AskStep(t) /\ ~Quiet(t)
      <4>1. pc[t] = "live"
        BY <2>1, <2>4, <3>6 DEF RowEnded
      <4> QED BY <2>1, <3>1, <4>1 DEF Launched
    <3> QED BY <2>4, <3>4, <3>5, <3>6, RunningStep
  <2> QED BY <2>2, <2>3, <2>4 DEF Launched
<1> QED BY <1>1, <1>2 DEF LInv

\* How a row comes to be queued: somebody is to start it.
LEMMA QueuedStep ==
  ASSUME IInv, [Next]_vars, NEW t \in Task, status[t] \notin InFlight, status'[t] = "queued"
  PROVE  starting'[t] > 0 \/ \E u \in Task : promoted'[u] = t
<1> USE DEF IInv, TypeOK, TableTypeOK
<1> DEFINE Goal == starting'[t] > 0 \/ \E u \in Task : promoted'[u] = t
<1>1. ASSUME NEW u \in Task, NEW s, Write(u, s), u # t \/ s # "queued"
      PROVE  status[t] \in InFlight
  BY <1>1 DEF Write, InFlight
<1>2. ASSUME NEW u \in Task, NEW s \in Terminal, Write(u, s) \/ FinishTask(u, s) PROVE Goal
  BY <1>2 DEF Write, FinishTask, table, Terminal, InFlight
<1>3. ASSUME NEW u \in Task, AskStep(u) \/ RunSetRunning(u) PROVE Goal
  <2>1. \A s : Write(u, s) => s = "queued"
    BY <1>1
  <2>2. "queued" \notin {"running", "awaiting_approval", "blocked"}
    OBVIOUS
  <2> QED BY <1>3, <2>1, <2>2 DEF AskStep, AskBlocks, AskAwaits, AskReturns, SetStatus, RunSetRunning, SetRunning, table, InFlight
<1>4. ASSUME NEW u \in Task, RunDequeues(u) PROVE Goal
  <2>1. status' # status
    BY DEF InFlight
  <2>2. PICK n \in Task : Dequeue(u, n) /\ promoted' = [promoted EXCEPT ![u] = n]
    BY <1>4, <2>1 DEF RunDequeues, table
  <2>3. n = t
    BY <1>1, <2>2 DEF Dequeue
  <2> QED BY <2>2, <2>3
<1>5. ASSUME NEW u \in Task, CancelFreesWorkdir(u) PROVE Goal
  <2>1. status' # status
    BY DEF InFlight
  <2>2. PICK n \in Task : Dequeue(u, n) /\ AddStart(n)
    BY <1>5, <2>1 DEF CancelFreesWorkdir, table
  <2>3. n = t
    BY <1>1, <2>2 DEF Dequeue
  <2> QED BY <2>2, <2>3 DEF AddStart
<1>6. ASSUME NEW u \in Task, NEW strategy \in {"exclusive", "wait"}, Create(u, strategy) PROVE Goal
  <2>1. u = t
    BY <1>1, <1>6 DEF Create, Insert
  <2> QED BY <1>6, <2>1 DEF Create, AddStart
<1>7. ASSUME NEW u \in Task, RunFinishes(u) PROVE Goal
  <2>1. outcome[u] \in Terminal
    BY <1>7 DEF RunFinishes, RowsBegun, RowBegun
  <2> QED BY <1>2, <1>7, <2>1 DEF RunFinishes
<1>8. ASSUME UNCHANGED table PROVE Goal
  BY <1>8 DEF table, InFlight
<1>9. ASSUME NEW u \in Task, RunStartsNext(u) PROVE Goal
  <2>1. promoted[u] \in Task
    BY <1>9 DEF RunStartsNext, RowsBegun, RowBegun
  <2>2. "failed" \in Terminal
    BY DEF Terminal
  <2> QED BY <1>2, <1>8, <1>9, <2>1, <2>2 DEF RunStartsNext
<1>10. ASSUME NEW u \in Task,
             RunSetupFails(u) \/ RunBlocks(u) \/ StartGivesUp(u) \/ CancelSetsCanceled(u)
             \/ WatchdogInterrupts(u)
      PROVE  Goal
  BY <1>2, <1>10 DEF RunSetupFails, RunBlocks, StartGivesUp, CancelSetsCanceled, SetStatus,
     WatchdogInterrupts, InterruptIfInFlight, Terminal
<1>11. CASE RunnerBoot
  BY <1>11 DEF RunnerBoot, MarkInterrupted, InFlight
<1>12. ASSUME NEW u \in Task,
              \/ RunSpawn(u) \/ RunResumeFails(u) \/ RunExits(u) \/ \E h \in Slot : RunAsks(u, h)
              \/ Replay(u) \/ StartServed(u) \/ StartUnreachable(u)
              \/ CancelReads(u) \/ PreemptReads(u) \/ CancelAsksRunner(u) \/ PreemptAsksRunner(u)
              \/ WatchdogCancels(u)
       PROVE  UNCHANGED table
  BY <1>12 DEF RunSpawn, RunResumeFails, RunExits, RunAsks, Replay, StartServed, StartUnreachable,
     CancelReads, PreemptReads, CancelAsksRunner, PreemptAsksRunner, WatchdogCancels
<1>13. CASE RunnerCrash \/ ServerCrash \/ UNCHANGED vars
  BY <1>8, <1>13 DEF RunnerCrash, ServerCrash, vars
<1> HIDE DEF IInv, TypeOK, TableTypeOK
<1>14. ASSUME NEW u \in Task, RunStep(u) \/ AskStep(u) \/ ServerStep(u) \/ CliStep(u) \/ UserStep(u)
       PROVE  Goal
  BY <1>3, <1>4, <1>5, <1>6, <1>7, <1>8, <1>9, <1>10, <1>12, <1>14 DEF RunStep, ServerStep, CliStep, UserStep
<1>15. CASE Next
  <2>1. CASE RunnerCrash \/ ServerCrash
    BY <1>13, <2>1
  <2>2. CASE \E u \in Task : RunStep(u) \/ AskStep(u) \/ ServerStep(u) \/ CliStep(u) \/ UserStep(u)
    BY <1>14, <2>2
  <2> QED BY <1>11, <1>15, <2>1, <2>2 DEF Next
<1> QED BY <1>13, <1>15

\* A row in flight whose CLI was spawned has it still.
LEMMA HasCli ==
  ASSUME IInv, EInv, NEW t \in Task, Driver[t] # "codex", up, status[t] \in InFlight
  PROVE  spawned[t] = 0 \/ pc[t] \in {"live", "exited"}
<1>1. status[t] \notin Terminal
  BY DEF InFlight, Terminal
<1> QED BY <1>1 DEF EInv, RowEnded, IInv, TypeOK

\* A run that returns leaves a final row.
LEMMA ReturnStep ==
  ASSUME IInv, EInv, LInv, [Next]_vars, NEW t \in Task, Driver[t] # "codex", up, ~RunnerCrash,
         status[t] \in InFlight, status'[t] \in InFlight, pc[t] # "none"
  PROVE  pc'[t] # "none"
<1> USE DEF IInv, TypeOK, TableTypeOK
<1>1. Launched(t) /\ (spawned[t] = 0 \/ pc[t] \in {"live", "exited"})
  BY HasCli DEF LInv
<1>2. pc[t] \notin {"finished", "promoting"}
  BY <1>1 DEF Launched
<1>3. ASSUME NEW u \in Task, RunSetRunning(u) PROVE pc'[t] # "none"
  <2>1. CASE u = t
    <3>1. pc[t] = "admitted" /\ (status[t] = "queued" => pc'[t] = "setup")
      BY <1>3, <2>1 DEF RunSetRunning, Return
    <3>2. status[t] = "queued"
      BY <1>1, <3>1 DEF Launched, InFlight
    <3> QED BY <3>1, <3>2
  <2>2. CASE u # t
    BY <1>3, <2>2 DEF RunSetRunning, Return
  <2> QED BY <2>1, <2>2
<1>4. ASSUME NEW u \in Task, RunSetupFails(u) PROVE pc'[t] # "none"
  <2>1. u # t
    BY <1>4 DEF RunSetupFails, FinishTask, Write, table, InFlight, Terminal
  <2> QED BY <1>4, <2>1 DEF RunSetupFails, Return
<1>5. ASSUME NEW u \in Task, RunSpawn(u) \/ RunFinishes(u) \/ RunExits(u) \/ StartServed(u) PROVE pc'[t] # "none"
  BY <1>5 DEF RunSpawn, RunFinishes, RunExits, StartServed, Admit
<1>6. ASSUME NEW u \in Task, RunDequeues(u) \/ RunStartsNext(u) PROVE pc'[t] # "none"
  <2>1. u # t
    BY <1>2, <1>6 DEF RunDequeues, RunStartsNext
  <2> QED BY <1>6, <2>1 DEF RunDequeues, RunStartsNext, Return
<1>7. CASE RunnerBoot \/ UNCHANGED pc
  BY <1>7 DEF RunnerBoot
<1> QED BY <1>3, <1>4, <1>5, <1>6, <1>7, Movers DEF RunMoves

\* A request to start a row ends with its admission or with its end.
LEMMA RequestStep ==
  ASSUME IInv, [Next]_vars, NEW t \in Task, ~ServerCrash,
         status'[t] \in InFlight, starting[t] + failing[t] > 0
  PROVE  starting'[t] + failing'[t] > 0 \/ pc'[t] # "none"
<1> USE DEF IInv, TypeOK, TableTypeOK
<1> DEFINE Goal == starting'[t] + failing'[t] > 0 \/ pc'[t] # "none"
<1>1. ASSUME NEW u \in Task, StartServed(u) PROVE Goal
  <2>1. CASE u = t
    <3>1. pc'[t] = "admitted" \/ StartFails(t)
      BY <1>1, <2>1 DEF StartServed, Admit
    <3>2. StartFails(t) => failing'[t] = failing[t] + 1 /\ starting'[t] = starting[t] - 1
      BY DEF StartFails
    <3> QED BY <3>1, <3>2
  <2>2. CASE u # t
    BY <1>1, <2>2 DEF StartServed, StartFails
  <2> QED BY <2>1, <2>2
<1>2. ASSUME NEW u \in Task, StartUnreachable(u) PROVE Goal
  BY <1>2 DEF StartUnreachable, StartFails
<1>3. ASSUME NEW u \in Task, StartGivesUp(u) PROVE Goal
  <2>1. u # t
    BY <1>3 DEF StartGivesUp, FinishTask, Write, table, InFlight, Terminal
  <2> QED BY <1>3, <2>1 DEF StartGivesUp
<1>4. ASSUME NEW u \in Task, (\E strategy \in {"exclusive", "wait"} : Create(u, strategy)) \/ Replay(u) \/ CancelFreesWorkdir(u)
      PROVE  Goal
  BY <1>4 DEF Create, Replay, CancelFreesWorkdir, AddStart
<1>5. ASSUME NEW u \in Task,
             RunStep(u) \/ AskStep(u) \/ CliStep(u) \/ CancelReads(u) \/ PreemptReads(u) \/ CancelSetsCanceled(u)
             \/ CancelAsksRunner(u) \/ PreemptAsksRunner(u) \/ WatchdogInterrupts(u) \/ WatchdogCancels(u)
      PROVE  UNCHANGED << starting, failing >>
  BY <1>5 DEF RunStep, AskStep, CliStep,
       RunSetRunning, RunSetupFails, RunSpawn, RunFinishes, RunDequeues, RunStartsNext, RunBlocks, RunResumeFails,
       RunAsks, AskBlocks, AskAwaits, AskReturns, RunExits, CancelReads, PreemptReads,
       CancelSetsCanceled, CancelAsksRunner, PreemptAsksRunner, WatchdogInterrupts, WatchdogCancels, server
<1>6. CASE RunnerCrash \/ RunnerBoot \/ UNCHANGED vars
  BY <1>6 DEF RunnerCrash, RunnerBoot, server, vars
<1>7. CASE UNCHANGED << starting, failing >>
  BY <1>7
<1> HIDE DEF IInv, TypeOK, TableTypeOK
<1>8. ASSUME NEW u \in Task, RunStep(u) \/ AskStep(u) \/ ServerStep(u) \/ CliStep(u) \/ UserStep(u)
      PROVE  Goal
  BY <1>1, <1>2, <1>3, <1>4, <1>5, <1>7, <1>8 DEF ServerStep, UserStep
<1>9. CASE Next
  <2>1. CASE \E u \in Task : RunStep(u) \/ AskStep(u) \/ ServerStep(u) \/ CliStep(u) \/ UserStep(u)
    BY <1>8, <2>1
  <2> QED BY <1>6, <1>9, <2>1 DEF Next
<1> QED BY <1>6, <1>9

\* What a run has dequeued, it starts or fails.
LEMMA PromotionStep ==
  ASSUME IInv, LInv, [Next]_vars, NEW t \in Task, NEW u \in Task, ~RunnerCrash,
         status'[t] \in InFlight, promoted[u] = t
  PROVE  promoted'[u] = t \/ pc'[t] # "none"
<1> USE DEF IInv, TypeOK, TableTypeOK
<1>1. pc[u] = "promoting"
  BY DEF LInv, Launched, Task
<1>2. ASSUME NEW v \in Task, RunStartsNext(v) PROVE promoted'[u] = t \/ pc'[t] # "none"
  <2>1. CASE u = v
    BY <1>2, <2>1 DEF RunStartsNext, FinishTask, Write, table, InFlight, Terminal
  <2>2. CASE u # v
    BY <1>2, <2>2 DEF RunStartsNext
  <2> QED BY <2>1, <2>2
<1>3. ASSUME NEW v \in Task, RunDequeues(v) PROVE promoted'[u] = t
  BY <1>1, <1>3 DEF RunDequeues
<1>4. ASSUME NEW v \in Task,
             RunSetRunning(v) \/ RunSetupFails(v) \/ RunSpawn(v) \/ RunFinishes(v) \/ RunExits(v) \/ StartServed(v)
      PROVE  promoted' = promoted
  BY <1>4 DEF RunSetRunning, RunSetupFails, RunSpawn, RunFinishes, RunExits, StartServed
<1>5. CASE RunnerBoot
  BY <1>5 DEF RunnerBoot
<1> QED BY <1>2, <1>3, <1>4, <1>5, Movers DEF RunMoves

LEMMA HandsStep == IInv /\ EInv /\ LInv /\ AInv /\ [Next]_vars => AInv'
<1> SUFFICES ASSUME IInv, EInv, LInv, AInv, [Next]_vars, Undisturbed',
                    NEW t \in Task, Driver[t] # "codex", status'[t] \in InFlight
             PROVE  InHands(t)'
  BY DEF AInv
<1>1. Undisturbed /\ ~RunnerCrash /\ ~ServerCrash /\ up
  BY StaysDisturbed DEF LInv
<1>2. CASE status[t] \notin InFlight
  <2>1. CASE status'[t] = "queued"
    <3>1. starting'[t] \in Nat /\ failing'[t] \in Nat
      BY TypeStep DEF TypeOK
    <3> QED BY <1>2, <2>1, <3>1, QueuedStep DEF InHands
  <2>2. CASE status'[t] \in {"running", "awaiting_approval"}
    <3>1. RunSetRunning(t) \/ (AskStep(t) /\ ~Quiet(t))
      BY <1>2, <2>2, RunningStep DEF InFlight
    <3>2. ~RunSetRunning(t)
      BY <1>2, <2>2 DEF RunSetRunning, SetRunning, table, InFlight
    <3>3. pc[t] = "live" /\ pc' = pc
      BY <3>1, <3>2 DEF EInv, RowEnded, AskStep, AskBlocks, AskAwaits, AskReturns
    <3> QED BY <3>3 DEF InHands, InCancels
  <2> QED BY <2>1, <2>2 DEF InFlight
<1>3. CASE status[t] \in InFlight
  <2>1. InHands(t)
    BY <1>1, <1>3 DEF AInv
  <2>2. CASE pc[t] # "none"
    BY <1>1, <1>3, <2>2, ReturnStep DEF InHands, InCancels
  <2>3. CASE starting[t] + failing[t] > 0
    BY <1>1, <2>3, RequestStep DEF InHands, InCancels
  <2>4. ASSUME NEW u \in Task, promoted[u] = t PROVE InHands(t)'
    BY <1>1, <2>4, PromotionStep DEF InHands, InCancels
  <2> QED BY <2>1, <2>2, <2>3, <2>4 DEF InHands, InCancels
<1> QED BY <1>2, <1>3

\* What will free the workdir of a queued row that was canceled.
LEMMA FreeingStep ==
  ASSUME IInv, [Next]_vars, NEW t \in Task, ~ServerCrash, canceling[t] = "free_workdir"
  PROVE  canceling'[t] = "free_workdir" \/ CancelFreesWorkdir(t)
<1> USE DEF IInv, TypeOK
<1> DEFINE Goal == canceling'[t] = "free_workdir" \/ CancelFreesWorkdir(t)
<1>1. ASSUME NEW u \in Task, CancelFreesWorkdir(u) PROVE Goal
  BY <1>1 DEF CancelFreesWorkdir, CancelGoesTo
<1>2. ASSUME NEW u \in Task,
             CancelReads(u) \/ PreemptReads(u) \/ CancelSetsCanceled(u) \/ CancelAsksRunner(u) \/ PreemptAsksRunner(u)
      PROVE  Goal
  BY <1>2 DEF CancelReads, PreemptReads, CancelSetsCanceled, CancelAsksRunner, PreemptAsksRunner, CancelGoesTo, MayCancel
<1>3. ASSUME NEW u \in Task,
             RunStep(u) \/ AskStep(u) \/ CliStep(u) \/ StartServed(u) \/ StartUnreachable(u) \/ StartGivesUp(u)
             \/ WatchdogInterrupts(u) \/ WatchdogCancels(u) \/ Replay(u)
             \/ \E strategy \in {"exclusive", "wait"} : Create(u, strategy)
      PROVE  canceling' = canceling
  BY <1>3 DEF RunStep, AskStep, CliStep,
       RunSetRunning, RunSetupFails, RunSpawn, RunFinishes, RunDequeues, RunStartsNext, RunBlocks, RunResumeFails,
       RunAsks, AskBlocks, AskAwaits, AskReturns, RunExits, StartServed, StartUnreachable, StartGivesUp,
       WatchdogInterrupts, WatchdogCancels, Replay, Create, server
<1>4. CASE RunnerCrash \/ RunnerBoot \/ UNCHANGED vars
  BY <1>4 DEF RunnerCrash, RunnerBoot, server, vars
<1>5. CASE canceling' = canceling
  BY <1>5
<1> HIDE DEF IInv, TypeOK
<1>6. ASSUME NEW u \in Task, RunStep(u) \/ AskStep(u) \/ ServerStep(u) \/ CliStep(u) \/ UserStep(u)
      PROVE  Goal
  BY <1>1, <1>2, <1>3, <1>5, <1>6 DEF ServerStep, UserStep
<1>7. CASE Next
  <2>1. CASE \E u \in Task : RunStep(u) \/ AskStep(u) \/ ServerStep(u) \/ CliStep(u) \/ UserStep(u)
    BY <1>6, <2>1
  <2> QED BY <1>4, <1>7, <2>1 DEF Next
<1> QED BY <1>4, <1>7

\* Who will look for a waiting row does so, or leaves it to others by looking now.
LEMMA WakerStays ==
  ASSUME IInv, EInv, [Next]_vars, NEW u \in Task, Driver[u] # "codex", up, ~RunnerCrash, ~ServerCrash,
         Wakes(u), ~RunDequeues(u), ~CancelFreesWorkdir(u)
  PROVE  Wakes(u)'
<1> USE DEF IInv, TypeOK, TableTypeOK
<1>1. CASE canceling[u] = "free_workdir"
  BY <1>1, FreeingStep DEF Wakes
<1>2. CASE pc[u] \in {"live", "exited", "finished"}
  BY <1>2, PcStep DEF Wakes
<1>3. CASE status[u] \in InFlight /\ pc[u] \notin {"live", "exited"}
  <2>1. spawned[u] = 0 /\ status'[u] \in InFlight \cup Terminal
    BY <1>3, HasCli, StatusStep
  <2> QED BY <2>1, SpawnStep DEF Wakes
<1>4. CASE status[u] \in Terminal /\ spawned[u] = 0
  <2>1. status'[u] \in InFlight \cup Terminal
    BY <1>4, StatusStep
  <2> QED BY <1>4, <2>1, SpawnStep DEF Wakes
<1> QED BY <1>1, <1>2, <1>3, <1>4 DEF Wakes

\* Who looks finds the row that waits, or one that holds its workdir.
LEMMA Looks ==
  ASSUME IInv, NEW t \in Task, status[t] = "waiting", NEW u \in SameDir(t), RunDequeues(u) \/ CancelFreesWorkdir(u)
  PROVE  \E v \in SameDir(t) : status'[v] \in InFlight
<1> USE DEF IInv, TypeOK, TableTypeOK
<1>1. u \in Task /\ t \in Waiters(u) /\ SameDir(u) = SameDir(t)
  BY DEF SameDir, Waiters
<1>2. CASE ~CanDequeue(u) /\ UNCHANGED table
  <2>1. PICK v \in Holders(u) : TRUE
    BY <1>1, <1>2 DEF CanDequeue
  <2> QED BY <1>1, <1>2, <2>1 DEF Holders, table
<1>3. ASSUME NEW n \in Task, Dequeue(u, n)
      PROVE  \E v \in SameDir(t) : status'[v] \in InFlight
  <2>1. n \in SameDir(t) /\ status'[n] = "queued"
    BY <1>1, <1>3 DEF Dequeue, Waiters, Write
  <2> QED BY <2>1 DEF InFlight
<1> QED BY <1>1, <1>2, <1>3 DEF RunDequeues, CancelFreesWorkdir

LEMMA WakeupStep == IInv /\ EInv /\ LInv /\ NoWakeupLost /\ [Next]_vars => NoWakeupLost'
<1> SUFFICES ASSUME IInv, EInv, LInv, NoWakeupLost, [Next]_vars, Undisturbed',
                    NEW t \in Task, status'[t] = "waiting", \A u \in SameDir(t) : Driver[u] # "codex"
             PROVE  \E u \in SameDir(t) : Wakes(u)'
  BY DEF NoWakeupLost, SameDir
<1>1. Undisturbed /\ ~RunnerCrash /\ ~ServerCrash /\ up
  BY StaysDisturbed DEF LInv
<1>2. ASSUME NEW w \in SameDir(t), status[w] = "waiting"
      PROVE  \E u \in SameDir(t) : Wakes(u)'
  <2>1. w \in Task /\ SameDir(w) = SameDir(t)
    BY DEF SameDir
  <2>2. PICK u \in SameDir(w) : Wakes(u)
    BY <1>1, <1>2, <2>1 DEF NoWakeupLost
  <2>3. CASE RunDequeues(u) \/ CancelFreesWorkdir(u)
    BY <1>2, <2>1, <2>3, Looks DEF Wakes
  <2>4. CASE ~RunDequeues(u) /\ ~CancelFreesWorkdir(u)
    BY <1>1, <2>1, <2>2, <2>4, WakerStays DEF SameDir
  <2> QED BY <2>3, <2>4
<1>3. CASE status[t] # "waiting"
  <2> USE DEF IInv, TypeOK, TableTypeOK
  <2>1. PICK v \in Task, strategy \in {"exclusive", "wait"} : Insert(v, strategy)
    BY <1>3, TableSteps DEF TableStep, table, SetRunning, Dequeue, Write, MarkInterrupted, Terminal
  <2>2. v = t /\ Holders(t) \cup Waiters(t) # {} /\ status' = [status EXCEPT ![t] = "waiting"] /\ status[t] = "absent"
    BY <1>3, <2>1 DEF Insert, NextRow, Write
  <2>3. PICK w \in SameDir(t) : status[w] \in InFlight \/ status[w] = "waiting"
    BY <2>2 DEF Holders, Waiters
  <2>4. CASE status[w] \in InFlight
    <3>1. w \in Task /\ w # t
      BY <2>2, <2>4 DEF SameDir, InFlight
    <3>2. status'[w] \in InFlight
      BY <2>2, <2>4, <3>1
    <3> QED BY <3>2 DEF Wakes
  <2> QED BY <1>2, <2>3, <2>4
<1>4. t \in SameDir(t)
  BY DEF SameDir
<1> QED BY <1>2, <1>3, <1>4

-----------------------------------------------------------------------------
LEMMA AttendInvariance == Spec => [](LInv /\ AInv /\ NoWakeupLost)
<1>1. Init => LInv /\ AInv /\ NoWakeupLost
  <2> SUFFICES ASSUME Init PROVE LInv /\ AInv /\ NoWakeupLost
    OBVIOUS
  <2>1. \A t \in Task : pc[t] = "none" /\ promoted[t] = 0 /\ status[t] = "absent"
    BY DEF Init, TableInit
  <2>2. up
    BY DEF Init
  <2> QED BY <2>1, <2>2 DEF LInv, Launched, AInv, NoWakeupLost, InFlight
<1>2. IInv /\ EInv /\ (LInv /\ AInv /\ NoWakeupLost) /\ [Next]_vars => (LInv /\ AInv /\ NoWakeupLost)'
  BY LaunchedStep, HandsStep, WakeupStep
<1> QED BY <1>1, <1>2, Invariance, EndInvariance, PTL DEF Spec

\* While no process has died, a row in flight whose approvals are awaited in the
\* stdout reader is seen to: the watchdog interrupts none but in a stall, however
\* starts fail, answers are lost, users cancel and promotions race
\* (InterruptTaskIfStaleInFlight).
THEOREM HoldersAttended == Spec => []InFlightAttended
<1>1. LInv /\ AInv => InFlightAttended
  BY DEF LInv, AInv, InFlightAttended, InHands, Attended
<1> QED BY <1>1, AttendInvariance, PTL

\* While no process has died, no waiting row is forgotten in a workdir without
\* codex: a row of the workdir is in flight, a run there or the canceling of a
\* queued row will still look for it, or a row there ended before its CLI was
\* spawned, when nobody looks (maybeStartNextWaitingForWorkdir, CancelTask).
THEOREM WakeupsKept == Spec => []NoWakeupLost
BY AttendInvariance, PTL
=============================================================================
