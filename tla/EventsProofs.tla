---------------------------- MODULE EventsProofs ----------------------------
(***************************************************************************)
(* Proofs about the secretary's schedules, for any number of schedules and *)
(* of ticks; about a run of codex behind its app server, for any number of *)
(* questions and of errors; and about the flow of events, for any number   *)
(* of publishers and versions and any size of the buffers.                 *)
(***************************************************************************)
EXTENDS EventFlow, Scheduler, CodexPeer, TLAPS, FiniteSetTheorems, SequenceTheorems

-----------------------------------------------------------------------------
(* The schedules: the running flag, kept under scheduleMu, is what keeps     *)
(* ticks apart.                                                              *)

Ticks(j) == {n \in TickNo : at[j][n] \in TickPc}

\* A job: one tick under way if it is running, none else, and none yet to come.
OneTick(j) ==
  /\ \A m, n \in Ticks(j) : m = n
  /\ job[j].running <=> Ticks(j) # {}
  /\ \A n \in Ticks(j) : n <= job[j].tickNo

\* Tick numbers are given out one by one, each for a firing of the ticker
\* (a pending tick has had its own) or for the notice of expiry.
Numbered(j) ==
  /\ \A n \in TickNo : runIds[j][n] = IF n <= job[j].tickNo THEN 1 ELSE 0
  /\ job[j].tickNo + (IF job[j].pending THEN 1 ELSE 0) <= fires[j] + (IF job[j].reported THEN 1 ELSE 0)

\* Expiry is reported when it happens, and is the end.
ReportedOnce(j) ==
  /\ job[j].reported <=> job[j].state = "expired"
  /\ notices[j] = IF job[j].state = "expired" THEN 1 ELSE 0
  /\ job[j].state = "active" => job[j].listed

JobInv(j) == OneTick(j) /\ Numbered(j) /\ ReportedOnce(j)

SInv == SchedulerTypeOK /\ \A j \in Schedule : JobInv(j)

-----------------------------------------------------------------------------
Job == [state : JobState, listed : BOOLEAN, running : BOOLEAN,
        pending : BOOLEAN, reported : BOOLEAN, tickNo : Nat]

LEMMA Threads == /\ TickNo \subseteq Thread /\ TickNo \subseteq Nat /\ Loop \in Thread /\ Loop \notin TickNo
                 /\ \A n \in 1 .. MaxFires + 1 : n \in TickNo
BY SchedulerAssumption DEF TickNo, Thread, Loop

\* What is written to a job is a job, field by field.
LEMMA JobOps ==
  ASSUME NEW b \in Job
  PROVE  /\ NextTick(b) \in Job
         /\ NextTick(b).state = b.state /\ NextTick(b).listed = b.listed /\ NextTick(b).running
         /\ NextTick(b).pending = b.pending /\ NextTick(b).reported = b.reported /\ NextTick(b).tickNo = b.tickNo + 1
         /\ WithoutTerminal(b) \in Job
         /\ WithoutTerminal(b).state = b.state /\ WithoutTerminal(b).running = b.running
         /\ WithoutTerminal(b).pending = b.pending /\ WithoutTerminal(b).reported = b.reported
         /\ WithoutTerminal(b).tickNo = b.tickNo
         /\ b.state = "active" => WithoutTerminal(b).listed = b.listed
<1>1. b.tickNo + 1 \in Nat
  BY DEF Job
<1> QED BY <1>1 DEF Job, NextTick, WithoutTerminal

\* A job that becomes another; the rest stay as they are.
LEMMA Becomes ==
  ASSUME SchedulerTypeOK, NEW j \in Schedule, NEW b \in Job, job' = [job EXCEPT ![j] = b]
  PROVE  /\ job' \in [Schedule -> Job] /\ job'[j] = b /\ \A k \in Schedule \ {j} : job'[k] = job[k]
BY DEF SchedulerTypeOK, Job

\* A goroutine that goes somewhere; the others stay where they are.
LEMMA Went ==
  ASSUME SchedulerTypeOK, NEW j \in Schedule, NEW t \in Thread, NEW pc \in ThreadPc, Goto(j, t, pc)
  PROVE  /\ at' \in [Schedule -> [Thread -> ThreadPc]]
         /\ at'[j][t] = pc /\ \A u \in Thread \ {t} : at'[j][u] = at[j][u]
         /\ \A k \in Schedule \ {j} : at'[k] = at[k]
BY DEF SchedulerTypeOK, Goto

\* A tick that starts.
LEMMA Starts ==
  ASSUME SchedulerTypeOK, NEW j \in Schedule, NEW n \in TickNo, StartTick(j, n)
  PROVE  /\ at' \in [Schedule -> [Thread -> ThreadPc]] /\ runIds' \in [Schedule -> [TickNo -> Nat]]
         /\ at'[j][n] = "tool" /\ \A u \in Thread \ {n} : at'[j][u] = at[j][u]
         /\ runIds'[j][n] = runIds[j][n] + 1 /\ \A m \in TickNo \ {n} : runIds'[j][m] = runIds[j][m]
         /\ \A k \in Schedule \ {j} : at'[k] = at[k] /\ runIds'[k] = runIds[k]
<1>1. at' \in [Schedule -> [Thread -> ThreadPc]] /\ at'[j][n] = "tool"
      /\ (\A u \in Thread \ {n} : at'[j][u] = at[j][u]) /\ \A k \in Schedule \ {j} : at'[k] = at[k]
  BY Threads DEF SchedulerTypeOK, StartTick, ThreadPc
<1>2. runIds[j][n] + 1 \in Nat /\ runIds' = [runIds EXCEPT ![j][n] = runIds[j][n] + 1]
  BY DEF SchedulerTypeOK, StartTick
<1>3. runIds' \in [Schedule -> [TickNo -> Nat]] /\ runIds'[j][n] = runIds[j][n] + 1
      /\ (\A m \in TickNo \ {n} : runIds'[j][m] = runIds[j][m]) /\ \A k \in Schedule \ {j} : runIds'[k] = runIds[k]
  BY <1>2 DEF SchedulerTypeOK
<1> QED BY <1>1, <1>3

\* What a step of one schedule leaves of the others.
Others(j) == \A k \in Schedule \ {j} :
  /\ job'[k] = job[k] /\ at'[k] = at[k] /\ fires'[k] = fires[k]
  /\ runIds'[k] = runIds[k] /\ notices'[k] = notices[k]

\* A step of one schedule that keeps its job's invariant keeps them all.
LEMMA OneJob ==
  ASSUME SInv, NEW j \in Schedule, SchedulerTypeOK', Others(j), JobInv(j)'
  PROVE  SInv'
<1>1. ASSUME NEW k \in Schedule, k # j PROVE JobInv(k)'
  <2>1. job'[k] = job[k] /\ at'[k] = at[k] /\ fires'[k] = fires[k] /\ runIds'[k] = runIds[k] /\ notices'[k] = notices[k]
    BY <1>1 DEF Others
  <2>2. JobInv(k)
    BY DEF SInv
  <2> QED BY <2>1, <2>2 DEF JobInv, OneTick, Ticks, Numbered, ReportedOnce
<1> QED BY <1>1 DEF SInv

\* A goroutine's move between places that count as a tick under way, or
\* between places that do not.
LEMMA SameTicks ==
  ASSUME SchedulerTypeOK, NEW j \in Schedule, NEW t \in Thread, NEW pc \in ThreadPc, Goto(j, t, pc),
         t = Loop \/ (at[j][t] \in TickPc <=> pc \in TickPc)
  PROVE  Ticks(j)' = Ticks(j)
<1>1. \A n \in TickNo : n # t => at'[j][n] = at[j][n]
  BY Went, Threads
<1>2. t \in TickNo => (at'[j][t] \in TickPc <=> at[j][t] \in TickPc)
  BY Went, Threads
<1> QED BY <1>1, <1>2 DEF Ticks

\* A tick that is over is no longer under way.
LEMMA TickOver ==
  ASSUME SchedulerTypeOK, NEW j \in Schedule, OneTick(j), NEW n \in Ticks(j),
         NEW pc \in ThreadPc \ TickPc, Goto(j, n, pc)
  PROVE  Ticks(j)' = {}
<1>1. n \in Thread /\ n \in TickNo
  BY Threads DEF Ticks
<1>2. at'[j][n] = pc /\ \A m \in TickNo : m # n => at'[j][m] = at[j][m]
  BY <1>1, Went, Threads
<1>3. \A m \in TickNo : at[j][m] \in TickPc => m = n
  BY DEF Ticks, OneTick
<1>4. \A m \in TickNo : at'[j][m] \notin TickPc
  BY <1>2, <1>3
<1> QED BY <1>4 DEF Ticks

-----------------------------------------------------------------------------
\* Steps that move a goroutine, and leave the job.
LEMMA MoveStep ==
  ASSUME SInv, NEW j \in Schedule, NEW t \in Thread,
         \/ t = Loop /\ (LoopStops(j) \/ TimerFires(j))
         \/ CallTool(j, t) \/ CallbackThinks(j, t) \/ CallbackWrites(j, t)
  PROVE  SInv'
<1>1. PICK pc \in ThreadPc : Goto(j, t, pc) /\ (t = Loop \/ (at[j][t] \in TickPc <=> pc \in TickPc))
  BY DEF LoopStops, TimerFires, CallTool, CallbackThinks, CallbackWrites, ThreadPc, TickPc
<1>2. SchedulerTypeOK
  BY DEF SInv
<1>3. UNCHANGED << job, past, fires, sendMu, runIds, notices >> /\ timer' \subseteq Schedule
  BY <1>2 DEF LoopStops, TimerFires, CallTool, CallbackThinks, CallbackWrites, SchedulerTypeOK
<1>4. SchedulerTypeOK' /\ Others(j)
  BY <1>1, <1>2, <1>3, Went DEF SchedulerTypeOK, Others
<1>5. Ticks(j)' = Ticks(j)
  BY <1>1, <1>2, SameTicks
<1>6. JobInv(j)'
  BY <1>3, <1>5 DEF SInv, JobInv, OneTick, Numbered, ReportedOnce
<1> QED BY <1>4, <1>6, OneJob

\* A tick starts when none is under way, with the next number.
LEMMA StartStep ==
  ASSUME SchedulerTypeOK, NEW j \in Schedule, JobInv(j), Ticks(j) = {},
         job[j].tickNo + 1 \in TickNo, StartTick(j, job[j].tickNo + 1),
         job'[j].tickNo = job[j].tickNo + 1, job'[j].running
  PROVE  /\ OneTick(j)'
         /\ \A n \in TickNo : runIds'[j][n] = IF n <= job'[j].tickNo THEN 1 ELSE 0
<1> DEFINE new == job[j].tickNo + 1
<1>1. new \in TickNo /\ job[j].tickNo \in Nat /\ \A n \in TickNo : n \in Nat
  BY Threads DEF SchedulerTypeOK
<1>2. /\ at'[j][new] = "tool" /\ \A m \in TickNo : m # new => at'[j][m] = at[j][m]
      /\ runIds'[j][new] = runIds[j][new] + 1 /\ \A m \in TickNo : m # new => runIds'[j][m] = runIds[j][m]
  BY <1>1, Starts, Threads
<1>3. \A m \in TickNo : at[j][m] \notin TickPc
  BY DEF Ticks
<1>4. \A m \in TickNo : at'[j][m] \in TickPc <=> m = new
  BY <1>2, <1>3 DEF TickPc
<1>5. Ticks(j)' = {new}
  BY <1>1, <1>4 DEF Ticks
<1>6. \A n \in TickNo : runIds[j][n] = IF n <= job[j].tickNo THEN 1 ELSE 0
  BY DEF JobInv, Numbered
<1>7. ASSUME NEW n \in TickNo PROVE runIds'[j][n] = IF n <= new THEN 1 ELSE 0
  BY <1>1, <1>2, <1>6
<1> QED BY <1>1, <1>5, <1>7 DEF OneTick

\* The ticker fires.
LEMMA RequestStep ==
  ASSUME SInv, NEW j \in Schedule, RequestTick(j)
  PROVE  SInv'
<1>1. SchedulerTypeOK /\ JobInv(j) /\ job[j] \in Job
  BY DEF SInv, SchedulerTypeOK, Job
<1>2. fires[j] \in 0 .. MaxFires /\ fires[j] < MaxFires /\ fires' = [fires EXCEPT ![j] = @ + 1]
  BY <1>1 DEF RequestTick, SchedulerTypeOK
<1>3. /\ fires' \in [Schedule -> 0 .. MaxFires] /\ fires'[j] = fires[j] + 1
      /\ \A k \in Schedule \ {j} : fires'[k] = fires[k]
  BY <1>1, <1>2, SchedulerAssumption DEF SchedulerTypeOK
<1>4. UNCHANGED << past, timer, sendMu, notices >>
  BY DEF RequestTick
<1>5. CASE UNCHANGED << job, runIds >> /\ (UNCHANGED at \/ Goto(j, Loop, "expire"))
  <2>1. Ticks(j)' = Ticks(j)
    BY <1>1, <1>5, SameTicks, Threads DEF ThreadPc, Ticks
  <2>2. SchedulerTypeOK' /\ Others(j)
    BY <1>1, <1>3, <1>4, <1>5, Went, Threads DEF SchedulerTypeOK, Others, ThreadPc
  <2>3. JobInv(j)'
    BY <1>1, <1>2, <1>3, <1>4, <1>5, <2>1, SchedulerAssumption DEF JobInv, OneTick, Numbered, ReportedOnce, Job
  <2> QED BY <2>2, <2>3, OneJob
<1>6. CASE job[j].state = "active" /\ job' = [job EXCEPT ![j].pending = TRUE] /\ UNCHANGED << at, runIds >>
  <2> DEFINE b == [job[j] EXCEPT !.pending = TRUE]
  <2>1. b \in Job /\ job' = [job EXCEPT ![j] = b]
    BY <1>1, <1>6 DEF Job
  <2>2. /\ b.state = job[j].state /\ b.running = job[j].running /\ b.reported = job[j].reported
        /\ b.listed = job[j].listed /\ b.tickNo = job[j].tickNo
    BY <1>1 DEF Job
  <2> HIDE DEF b
  <2>3. job' \in [Schedule -> Job] /\ job'[j] = b /\ \A k \in Schedule \ {j} : job'[k] = job[k]
    BY <1>1, <2>1, Becomes
  <2>4. SchedulerTypeOK' /\ Others(j)
    BY <1>1, <1>3, <1>4, <1>6, <2>3 DEF SchedulerTypeOK, Others, Job
  <2>5. Ticks(j)' = Ticks(j)
    BY <1>6 DEF Ticks
  <2>6. job[j].tickNo <= fires[j]
    BY <1>1, <1>2, <1>6 DEF JobInv, Numbered, ReportedOnce, Job
  <2>7. JobInv(j)'
    BY <1>1, <1>2, <1>3, <1>4, <1>6, <2>1, <2>2, <2>3, <2>5, <2>6 DEF JobInv, OneTick, Numbered, ReportedOnce, Job
  <2> QED BY <2>4, <2>7, OneJob
<1>7. CASE /\ job[j].state = "active" /\ ~job[j].running
           /\ job' = [job EXCEPT ![j] = NextTick(@)] /\ StartTick(j, job[j].tickNo + 1)
  <2> DEFINE b == NextTick(job[j])
  <2>1. b \in Job /\ job' = [job EXCEPT ![j] = b]
    BY <1>1, <1>7, JobOps
  <2>2. /\ b.state = "active" /\ b.running /\ b.reported = job[j].reported /\ b.pending = job[j].pending
        /\ b.listed = job[j].listed /\ b.tickNo = job[j].tickNo + 1
    BY <1>1, <1>7, JobOps
  <2> HIDE DEF b
  <2>3. job' \in [Schedule -> Job] /\ job'[j] = b /\ \A k \in Schedule \ {j} : job'[k] = job[k]
    BY <1>1, <2>1, Becomes
  <2>4. job[j].tickNo <= fires[j] /\ job[j].tickNo \in Nat
    BY <1>1, <1>2, <1>7 DEF JobInv, Numbered, ReportedOnce, Job
  <2>5. job[j].tickNo + 1 \in TickNo
    BY <1>2, <2>4, SchedulerAssumption DEF TickNo
  <2>6. SchedulerTypeOK' /\ Others(j)
    BY <1>1, <1>3, <1>4, <1>7, <2>3, <2>5, Starts DEF SchedulerTypeOK, Others, Job
  <2>7. Ticks(j) = {}
    BY <1>1, <1>7 DEF JobInv, OneTick
  <2>8. OneTick(j)' /\ \A n \in TickNo : runIds'[j][n] = IF n <= job'[j].tickNo THEN 1 ELSE 0
    BY <1>1, <1>7, <2>2, <2>3, <2>5, <2>7, StartStep
  <2>9. b.tickNo + (IF b.pending THEN 1 ELSE 0) <= fires'[j] + (IF b.reported THEN 1 ELSE 0)
    BY <1>1, <1>2, <1>3, <2>2, <2>4 DEF JobInv, Numbered, Job
  <2>10. ReportedOnce(j)'
    BY <1>1, <1>4, <1>7, <2>2, <2>3 DEF JobInv, ReportedOnce, Job
  <2> QED BY <2>3, <2>6, <2>8, <2>9, <2>10, OneJob DEF JobInv, Numbered
<1> QED BY <1>5, <1>6, <1>7 DEF RequestTick

\* What a step does to a job whose ticks it leaves alone.
Touches(j, b) ==
  /\ job' = [job EXCEPT ![j] = b]
  /\ b.running = job[j].running /\ b.reported = job[j].reported /\ b.tickNo = job[j].tickNo
  /\ b.pending => job[j].pending
  /\ b.state = "expired" <=> job[j].state = "expired"
  /\ b.state = "active" => b.listed

\* A schedule is created, canceled or cleaned up.
LEMMA JobStep ==
  ASSUME SInv, NEW j \in Schedule,
         CreateSchedule(j) \/ CancelSchedule(j) \/ \E t \in Thread : Cleanup(j, t)
  PROVE  SInv'
<1>1. SchedulerTypeOK /\ JobInv(j) /\ job[j] \in Job
  BY DEF SInv, SchedulerTypeOK, Job
<1>2. PICK b \in Job : Touches(j, b)
  <2>1. CASE CreateSchedule(j)
    <3> DEFINE b == [job[j] EXCEPT !.state = "active", !.listed = TRUE]
    <3>1. job' = [job EXCEPT ![j] = b] /\ job[j].state = "absent"
      BY <2>1 DEF CreateSchedule
    <3>2. /\ b \in Job /\ b.state = "active" /\ b.listed /\ b.pending = job[j].pending
          /\ b.running = job[j].running /\ b.reported = job[j].reported /\ b.tickNo = job[j].tickNo
      BY <1>1 DEF Job, JobState
    <3> HIDE DEF b
    <3> QED BY <3>1, <3>2 DEF Touches
  <2>2. CASE CancelSchedule(j)
    <3> DEFINE c == IF job[j].state = "active" THEN [job[j] EXCEPT !.state = "canceled", !.pending = FALSE] ELSE job[j]
    <3>1. job' = [job EXCEPT ![j] = WithoutTerminal(c)]
      BY <2>2 DEF CancelSchedule
    <3>2. /\ c \in Job /\ c.state # "active" /\ (c.pending => job[j].pending)
          /\ c.state = "expired" <=> job[j].state = "expired"
          /\ c.running = job[j].running /\ c.reported = job[j].reported /\ c.tickNo = job[j].tickNo
      BY <1>1 DEF Job, JobState
    <3> HIDE DEF c
    <3>3. WithoutTerminal(c) \in Job /\ Touches(j, WithoutTerminal(c))
      BY <3>1, <3>2, JobOps DEF Touches
    <3> QED BY <3>3
  <2>3. ASSUME NEW t \in Thread, Cleanup(j, t)
        PROVE  \E b \in Job : Touches(j, b)
    <3>1. job' = [job EXCEPT ![j] = WithoutTerminal(job[j])]
      BY <2>3 DEF Cleanup
    <3>2. WithoutTerminal(job[j]) \in Job /\ Touches(j, WithoutTerminal(job[j]))
      BY <1>1, <3>1, JobOps DEF Touches, JobInv, ReportedOnce
    <3> QED BY <3>2
  <2> QED BY <2>1, <2>2, <2>3
<1>3. job' \in [Schedule -> Job] /\ job'[j] = b /\ \A k \in Schedule \ {j} : job'[k] = job[k]
  BY <1>1, <1>2, Becomes DEF Touches
<1>4. UNCHANGED << past, fires, timer, sendMu, runIds, notices >>
  BY DEF CreateSchedule, CancelSchedule, Cleanup
<1>5. \/ UNCHANGED at
      \/ \E t \in Thread, pc \in {"select", "ended"} :
           Goto(j, t, pc) /\ (t = Loop \/ at[j][t] = "cleanup")
  BY Threads DEF CreateSchedule, CancelSchedule, Cleanup, Goto
<1>6. Ticks(j)' = Ticks(j) /\ at' \in [Schedule -> [Thread -> ThreadPc]] /\ \A k \in Schedule \ {j} : at'[k] = at[k]
  <2>1. CASE UNCHANGED at
    BY <1>1, <2>1 DEF Ticks, SchedulerTypeOK
  <2>2. ASSUME NEW t \in Thread, NEW pc \in {"select", "ended"}, Goto(j, t, pc), t = Loop \/ at[j][t] = "cleanup"
        PROVE  <1>6
    <3>1. pc \in ThreadPc /\ pc \notin TickPc /\ "cleanup" \notin TickPc
      BY DEF ThreadPc, TickPc
    <3> QED BY <1>1, <2>2, <3>1, Went, SameTicks
  <2> QED BY <1>5, <2>1, <2>2
<1>7. SchedulerTypeOK' /\ Others(j)
  BY <1>1, <1>3, <1>4, <1>6 DEF SchedulerTypeOK, Others, Job
<1>8. OneTick(j)' /\ ReportedOnce(j)'
  BY <1>1, <1>2, <1>3, <1>4, <1>6 DEF JobInv, OneTick, ReportedOnce, Touches
<1>9. Numbered(j)'
  <2>1. fires[j] \in Nat /\ job[j].tickNo \in Nat
    BY <1>1 DEF SchedulerTypeOK, Job
  <2> QED BY <1>1, <1>2, <1>3, <1>4, <2>1 DEF JobInv, Numbered, Touches
<1> QED BY <1>7, <1>8, <1>9, OneJob DEF JobInv

\* A tick is over: it is the last, makes room, or is followed by the pending one.
LEMMA FinishStep ==
  ASSUME SInv, NEW j \in Schedule, NEW n \in TickNo, FinishScheduleTick(j, n)
  PROVE  SInv'
<1>1. SchedulerTypeOK /\ JobInv(j) /\ job[j] \in Job /\ n \in Thread /\ n \in Ticks(j)
  BY Threads DEF SInv, SchedulerTypeOK, Job, FinishScheduleTick, Ticks, TickPc
<1>2. UNCHANGED << past, fires, timer, sendMu, notices >>
  BY DEF FinishScheduleTick
<1>3. fires[j] \in 0 .. MaxFires /\ job[j].tickNo \in Nat
  BY <1>1 DEF SchedulerTypeOK, Job
<1>4. ASSUME NEW b \in Job, job' = [job EXCEPT ![j] = b], UNCHANGED runIds,
             Goto(j, n, "ended") \/ Goto(j, n, "expire"),
             ~b.running /\ b.state = job[j].state /\ b.reported = job[j].reported /\ b.tickNo = job[j].tickNo,
             b.pending => job[j].pending, b.state = "active" => b.listed = job[j].listed
      PROVE  SInv'
  <2>1. job' \in [Schedule -> Job] /\ job'[j] = b /\ \A k \in Schedule \ {j} : job'[k] = job[k]
    BY <1>1, <1>4, Becomes
  <2>2. "ended" \in ThreadPc \ TickPc /\ "expire" \in ThreadPc \ TickPc
    BY DEF ThreadPc, TickPc
  <2>3. Ticks(j)' = {}
    BY <1>1, <1>4, <2>2, TickOver DEF JobInv
  <2>4. at' \in [Schedule -> [Thread -> ThreadPc]] /\ \A k \in Schedule \ {j} : at'[k] = at[k]
    BY <1>1, <1>4, <2>2, Went
  <2>5. SchedulerTypeOK' /\ Others(j)
    BY <1>1, <1>2, <1>4, <2>1, <2>4 DEF SchedulerTypeOK, Others, Job
  <2>6. OneTick(j)' /\ ReportedOnce(j)'
    BY <1>1, <1>2, <1>4, <2>1, <2>3 DEF JobInv, OneTick, ReportedOnce
  <2>7. Numbered(j)'
    BY <1>1, <1>2, <1>3, <1>4, <2>1 DEF JobInv, Numbered
  <2> QED BY <2>5, <2>6, <2>7, OneJob DEF JobInv
<1>5. CASE job[j].state = "active" /\ job' = [job EXCEPT ![j].running = FALSE] /\ UNCHANGED runIds
           /\ (Goto(j, n, "ended") \/ Goto(j, n, "expire"))
  <2> DEFINE b == [job[j] EXCEPT !.running = FALSE]
  <2>1. /\ b \in Job /\ ~b.running /\ b.state = job[j].state /\ b.reported = job[j].reported
        /\ b.tickNo = job[j].tickNo /\ b.pending = job[j].pending /\ b.listed = job[j].listed
    BY <1>1 DEF Job
  <2>2. job' = [job EXCEPT ![j] = b]
    BY <1>5
  <2> HIDE DEF b
  <2> QED BY <1>4, <1>5, <2>1, <2>2
<1>6. CASE /\ job[j].state # "active" /\ Goto(j, n, "ended") /\ UNCHANGED runIds
           /\ job' = [job EXCEPT ![j] = WithoutTerminal([@ EXCEPT !.running = FALSE, !.pending = FALSE])]
  <2> DEFINE c == [job[j] EXCEPT !.running = FALSE, !.pending = FALSE]
  <2>1. /\ c \in Job /\ ~c.running /\ ~c.pending /\ c.state = job[j].state /\ c.reported = job[j].reported
        /\ c.tickNo = job[j].tickNo /\ c.listed = job[j].listed
    BY <1>1 DEF Job
  <2>2. job' = [job EXCEPT ![j] = WithoutTerminal(c)]
    BY <1>6
  <2> HIDE DEF c
  <2>3. /\ WithoutTerminal(c) \in Job /\ ~WithoutTerminal(c).running /\ ~WithoutTerminal(c).pending
        /\ WithoutTerminal(c).state = job[j].state /\ WithoutTerminal(c).reported = job[j].reported
        /\ WithoutTerminal(c).tickNo = job[j].tickNo
    BY <2>1, JobOps
  <2> QED BY <1>4, <1>6, <2>2, <2>3
<1>7. CASE /\ job[j].state = "active" /\ job[j].pending
           /\ job' = [job EXCEPT ![j] = [NextTick(@) EXCEPT !.pending = FALSE]]
           /\ at' = [at EXCEPT ![j][n] = "ended", ![j][job[j].tickNo + 1] = "tool"]
           /\ runIds' = [runIds EXCEPT ![j][job[j].tickNo + 1] = @ + 1]
  <2> DEFINE b == [NextTick(job[j]) EXCEPT !.pending = FALSE]
             new == job[j].tickNo + 1
  <2>1. /\ b \in Job /\ b.state = "active" /\ b.running /\ ~b.pending /\ b.reported = job[j].reported
        /\ b.listed = job[j].listed /\ b.tickNo = new
    <3>1. /\ NextTick(job[j]) \in Job /\ NextTick(job[j]).state = "active" /\ NextTick(job[j]).running
          /\ NextTick(job[j]).listed = job[j].listed /\ NextTick(job[j]).reported = job[j].reported
          /\ NextTick(job[j]).tickNo = job[j].tickNo + 1
      BY <1>1, <1>7, JobOps
    <3> QED BY <3>1 DEF Job
  <2>2. job' = [job EXCEPT ![j] = b]
    BY <1>7
  <2>3. new \in TickNo /\ new \in Nat /\ new <= fires[j] /\ ~job[j].reported
    BY <1>1, <1>3, <1>7, SchedulerAssumption DEF JobInv, Numbered, ReportedOnce, TickNo
  <2>4. n # new /\ n \in Nat /\ n <= job[j].tickNo
    BY <1>1, <1>3, Threads DEF JobInv, OneTick
  <2> HIDE DEF b
  <2>5. job' \in [Schedule -> Job] /\ job'[j] = b /\ \A k \in Schedule \ {j} : job'[k] = job[k]
    BY <1>1, <2>1, <2>2, Becomes
  <2>6. /\ at' \in [Schedule -> [Thread -> ThreadPc]] /\ \A k \in Schedule \ {j} : at'[k] = at[k]
        /\ at'[j][n] = "ended" /\ at'[j][new] = "tool" /\ \A m \in TickNo \ {n, new} : at'[j][m] = at[j][m]
    BY <1>1, <1>7, <2>3, <2>4, Threads DEF SchedulerTypeOK, ThreadPc
  <2>7. /\ runIds' \in [Schedule -> [TickNo -> Nat]] /\ \A k \in Schedule \ {j} : runIds'[k] = runIds[k]
        /\ runIds'[j][new] = runIds[j][new] + 1 /\ \A m \in TickNo \ {new} : runIds'[j][m] = runIds[j][m]
    <3>1. runIds[j][new] + 1 \in Nat /\ runIds' = [runIds EXCEPT ![j][new] = runIds[j][new] + 1]
      BY <1>1, <1>7, <2>3 DEF SchedulerTypeOK
    <3> HIDE DEF new
    <3> QED BY <1>1, <2>3, <3>1 DEF SchedulerTypeOK
  <2>8. SchedulerTypeOK' /\ Others(j)
    BY <1>1, <1>2, <2>5, <2>6, <2>7 DEF SchedulerTypeOK, Others, Job
  <2>9. Ticks(j)' = {new}
    <3>1. \A m \in TickNo : at[j][m] \in TickPc => m = n
      BY <1>1 DEF JobInv, OneTick, Ticks
    <3>2. "ended" \notin TickPc /\ "tool" \in TickPc
      BY DEF TickPc
    <3>3. \A m \in TickNo : at'[j][m] \in TickPc <=> m = new
      BY <2>4, <2>6, <3>1, <3>2
    <3> QED BY <2>3, <3>3 DEF Ticks
  <2>10. OneTick(j)' /\ ReportedOnce(j)'
    <3>1. OneTick(j)'
      BY <2>1, <2>3, <2>5, <2>9 DEF OneTick
    <3>2. ReportedOnce(j)'
      BY <1>1, <1>2, <1>7, <2>1, <2>5 DEF JobInv, ReportedOnce
    <3> QED BY <3>1, <3>2
  <2>11. ASSUME NEW m \in TickNo PROVE runIds'[j][m] = IF m <= new THEN 1 ELSE 0
    <3>1. m \in Nat /\ runIds[j][m] = (IF m <= job[j].tickNo THEN 1 ELSE 0)
      BY <1>1, Threads DEF JobInv, Numbered
    <3>2. m # new => runIds'[j][m] = runIds[j][m]
      BY <2>7
    <3> QED BY <1>3, <2>7, <3>1, <3>2
  <2>12. Numbered(j)'
    BY <1>2, <1>3, <2>1, <2>3, <2>5, <2>11 DEF Numbered
  <2> QED BY <2>8, <2>10, <2>12, OneJob DEF JobInv
<1> QED BY <1>5, <1>6, <1>7 DEF FinishScheduleTick

\* Expiry: the notice takes the next number, once.
LEMMA ExpireStep ==
  ASSUME SInv, NEW j \in Schedule, NEW t \in Thread, ExpireSchedule(j, t)
  PROVE  SInv'
<1>1. SchedulerTypeOK /\ JobInv(j) /\ job[j] \in Job
  BY DEF SInv, SchedulerTypeOK, Job
<1>2. UNCHANGED << past, fires, timer, sendMu >>
  BY DEF ExpireSchedule
<1>3. fires[j] \in 0 .. MaxFires /\ job[j].tickNo \in Nat
  BY <1>1 DEF SchedulerTypeOK, Job
<1>4. ASSUME NEW pc \in {"notice", "cleanup"}, Goto(j, t, pc)
      PROVE  /\ Ticks(j)' = Ticks(j) /\ at' \in [Schedule -> [Thread -> ThreadPc]]
             /\ \A k \in Schedule \ {j} : at'[k] = at[k]
  <2>1. pc \in ThreadPc /\ pc \notin TickPc /\ "expire" \notin TickPc /\ at[j][t] = "expire"
    BY DEF ThreadPc, TickPc, ExpireSchedule
  <2> QED BY <1>1, <1>4, <2>1, Went, SameTicks
<1>5. CASE job[j].state # "active"
  <2>1. Goto(j, t, "cleanup") /\ UNCHANGED << job, runIds, notices >>
    BY <1>5 DEF ExpireSchedule
  <2>2. SchedulerTypeOK' /\ Others(j)
    BY <1>1, <1>2, <1>4, <2>1 DEF SchedulerTypeOK, Others
  <2>3. JobInv(j)'
    BY <1>1, <1>2, <1>4, <2>1 DEF JobInv, OneTick, Numbered, ReportedOnce
  <2> QED BY <2>2, <2>3, OneJob
<1>6. CASE job[j].state = "active"
  <2> DEFINE new == job[j].tickNo + 1
             c == [job[j] EXCEPT !.state = "expired", !.pending = FALSE]
             b == [c EXCEPT !.reported = TRUE, !.tickNo = new]
  <2>1. ~job[j].reported /\ new \in Nat /\ new \in TickNo /\ job[j].tickNo <= fires[j]
    BY <1>1, <1>3, <1>6, SchedulerAssumption DEF JobInv, Numbered, ReportedOnce, TickNo
  <2>2. /\ c \in Job /\ c.state = "expired" /\ ~c.pending /\ c.reported = job[j].reported
        /\ c.tickNo = job[j].tickNo /\ c.running = job[j].running
    BY <1>1 DEF Job, JobState
  <2>3. /\ job' = [job EXCEPT ![j] = b] /\ Goto(j, t, "notice")
        /\ runIds' = [runIds EXCEPT ![j][new] = runIds[j][new] + 1]
        /\ notices' = [notices EXCEPT ![j] = notices[j] + 1]
    <3>1. c.tickNo + 1 = new /\ ~c.reported
      BY <2>1, <2>2
    <3> QED BY <1>6, <3>1 DEF ExpireSchedule
  <2> HIDE DEF c, new
  <2>4. b \in Job /\ b.state = "expired" /\ ~b.pending /\ b.reported /\ b.tickNo = new /\ b.running = job[j].running
    BY <2>1, <2>2 DEF Job
  <2> HIDE DEF b
  <2>5. job' \in [Schedule -> Job] /\ job'[j] = b /\ \A k \in Schedule \ {j} : job'[k] = job[k]
    BY <1>1, <2>3, <2>4, Becomes
  <2>6. /\ runIds' \in [Schedule -> [TickNo -> Nat]] /\ \A k \in Schedule \ {j} : runIds'[k] = runIds[k]
        /\ runIds'[j][new] = runIds[j][new] + 1 /\ \A m \in TickNo \ {new} : runIds'[j][m] = runIds[j][m]
    <3>1. runIds[j][new] + 1 \in Nat
      BY <1>1, <2>1 DEF SchedulerTypeOK
    <3> QED BY <1>1, <2>1, <2>3, <3>1 DEF SchedulerTypeOK
  <2>7. /\ notices' \in [Schedule -> Nat] /\ notices'[j] = 1
        /\ \A k \in Schedule \ {j} : notices'[k] = notices[k]
    <3>1. notices[j] = 0 /\ notices \in [Schedule -> Nat]
      BY <1>1, <1>6 DEF JobInv, ReportedOnce, SchedulerTypeOK
    <3> QED BY <2>3, <3>1
  <2>8. SchedulerTypeOK' /\ Others(j)
    BY <1>1, <1>2, <1>4, <2>3, <2>5, <2>6, <2>7 DEF SchedulerTypeOK, Others, Job
  <2>9. OneTick(j)'
    <3>1. \A n \in Ticks(j) : n \in Nat /\ n <= new
      BY <1>1, <1>3, Threads DEF JobInv, OneTick, Ticks, new
    <3> QED BY <1>1, <1>4, <2>3, <2>4, <2>5, <3>1 DEF JobInv, OneTick
  <2>10. ReportedOnce(j)'
    BY <2>4, <2>5, <2>7 DEF ReportedOnce
  <2>11. ASSUME NEW m \in TickNo PROVE runIds'[j][m] = IF m <= new THEN 1 ELSE 0
    <3>1. m \in Nat /\ runIds[j][m] = (IF m <= job[j].tickNo THEN 1 ELSE 0)
      BY <1>1, Threads DEF JobInv, Numbered
    <3>2. m # new => runIds'[j][m] = runIds[j][m]
      BY <2>6
    <3> QED BY <1>3, <2>6, <3>1, <3>2 DEF new
  <2>12. Numbered(j)'
    BY <1>2, <1>3, <2>1, <2>4, <2>5, <2>11 DEF Numbered, new
  <2> QED BY <2>8, <2>9, <2>10, <2>12, OneJob DEF JobInv
<1> QED BY <1>5, <1>6

\* Time passes, and users talk to their secretary.
LEMMA RestStep ==
  ASSUME SInv, UserSends \/ (\E j \in Schedule : TimePasses(j)) \/ UNCHANGED schedulerVars
  PROVE  SInv'
<1>1. UNCHANGED << job, at, fires, timer, runIds, notices >>
  BY DEF UserSends, TimePasses, schedulerVars
<1>2. past' \subseteq Schedule /\ sendMu' \in {"free", "user"}
  BY DEF UserSends, SendBegins, SendEnds, TimePasses, schedulerVars, SInv, SchedulerTypeOK
<1> QED BY <1>1, <1>2 DEF SInv, SchedulerTypeOK, JobInv, OneTick, Ticks, Numbered, ReportedOnce

-----------------------------------------------------------------------------
LEMMA SInvInit == SchedulerInit => SInv
<1> SUFFICES ASSUME SchedulerInit PROVE SInv
  OBVIOUS
<1>1. SchedulerTypeOK
  BY SchedulerAssumption DEF SchedulerInit, SchedulerTypeOK, NoJob, JobState, ThreadPc
<1>2. ASSUME NEW j \in Schedule PROVE JobInv(j)
  <2>1. job[j] = NoJob /\ fires[j] = 0 /\ notices[j] = 0
    BY DEF SchedulerInit
  <2>2. Ticks(j) = {}
    BY Threads DEF SchedulerInit, Ticks, TickPc
  <2>3. \A n \in TickNo : runIds[j][n] = 0 /\ ~(n <= 0)
    BY SchedulerAssumption DEF SchedulerInit, TickNo
  <2> QED BY <2>1, <2>2, <2>3 DEF JobInv, OneTick, Numbered, ReportedOnce, NoJob
<1> QED BY <1>1, <1>2 DEF SInv

LEMMA SInvStep == SInv /\ [SchedulerNext]_schedulerVars => SInv'
<1> SUFFICES ASSUME SInv, [SchedulerNext]_schedulerVars PROVE SInv'
  OBVIOUS
<1> QED BY MoveStep, RequestStep, JobStep, FinishStep, ExpireStep, RestStep, Threads
        DEF SchedulerNext, LoopStep, TickStep

\* The values of the variables of the schedules.
THEOREM SchedulesTyped == SchedulerSpec => []SchedulerTypeOK
<1>1. SInv => SchedulerTypeOK
  BY DEF SInv
<1> QED BY <1>1, SInvInit, SInvStep, PTL DEF SchedulerSpec

\* However ticks, late requests, reruns, cancels and the expiry interleave
\* (requestScheduleTick, finishScheduleTick, expireSchedule), a schedule has one
\* tick under way at most, each number names one run, and expiry is told once.
THEOREM TicksDisciplined == SchedulerSpec => []TickDiscipline
<1>1. ASSUME SInv PROVE TickDiscipline
  <2> SUFFICES ASSUME NEW j \in Schedule
               PROVE  /\ Cardinality(Ticks(j)) = IF job[j].running THEN 1 ELSE 0
                      /\ job[j].state = "active" => job[j].listed
                      /\ \A n \in TickNo : runIds[j][n] = IF n <= job[j].tickNo THEN 1 ELSE 0
                      /\ notices[j] = IF job[j].state = "expired" THEN 1 ELSE 0
    BY DEF TickDiscipline, Ticks
  <2>1. JobInv(j)
    BY <1>1 DEF SInv
  <2>2. CASE ~job[j].running
    BY <2>1, <2>2, FS_EmptySet DEF JobInv, OneTick, Numbered, ReportedOnce
  <2>3. CASE job[j].running
    <3>1. PICK n \in Ticks(j) : Ticks(j) = {n}
      BY <2>1, <2>3 DEF JobInv, OneTick
    <3>2. Cardinality(Ticks(j)) = 1
      BY <3>1, FS_Singleton
    <3> QED BY <2>1, <2>3, <3>2 DEF JobInv, Numbered, ReportedOnce
  <2> QED BY <2>2, <2>3
<1>2. SInv => TickDiscipline
  BY <1>1
<1> QED BY <1>2, SInvInit, SInvStep, PTL DEF SchedulerSpec

-----------------------------------------------------------------------------
(* A run of codex: its verdict tells what happened to its turn, although     *)
(* five kinds of actors write what the verdict is computed from.             *)

ConvPc == {"idle", "register", "send", "wait", "turn", "fail", "cancel", "close", "over"}
Canceler == {"nobody", "user", "failure", "run"}
InLine == [kind : {"request", "reply"}, of : Nat]
Process == [state : {"none", "running", "exit0", "exit1"}, owes : SUBSET Nat, turn : BOOLEAN,
            completed : BOOLEAN, errors : Nat, early : BOOLEAN]

\* The types that matter to the verdict.
Typed ==
  /\ conv \in [at : ConvPc, call : Call]
  /\ cxIn \in [open : BOOLEAN, lines : Seq(InLine)]
  /\ cli \in Process
  /\ asks \in [Ask -> {"none", "sent", "open", "blocking", "over"}]
  /\ cxCtx \in [by : Canceler, during : ConvPc]
  /\ cxFlags \subseteq {"resumeFailure", "blocked"}

Failed == "resumeFailure" \in cxFlags

\* Before the run starts there is no CLI, and nobody can cancel or judge it.
Begun == conv.at = "idle" => cli.state = "none" /\ verdict = "none"

\* The conversation leaves its turn when the turn is over, was cut short or failed.
LeftForAReason == conv.at \in {"close", "over"} => signal \in {"completed", "hollow"} \/ Canceled \/ Failed

\* Who canceled: a failure says so first, and run cancels once it has decided.
CanceledForAReason ==
  /\ conv.at \in {"idle", "register", "send", "wait", "turn", "fail"} => ~Failed
  /\ conv.at = "cancel" => Failed
  /\ cxCtx.by = "failure" => Failed
  /\ cxCtx.by = "run" => verdict # "none"

\* Who closed stdin: the conversation, a question that blocks the run, or run.
ClosedForAReason ==
  /\ conv.at # "idle" /\ ~cxIn.open => conv.at = "over" \/ "blocked" \in cxFlags \/ verdict # "none"
  /\ \A a \in Ask : asks[a] = "blocking" => "blocked" \in cxFlags
  /\ cli.state = "exit0" /\ ~cli.early => ~cxIn.open

\* A turn the user cut short fails only on an error the CLI had reported.
CutShort ==
  cxCtx = [by |-> "user", during |-> "turn"] =>
    /\ conv.at \in {"turn", "fail", "cancel", "close", "over"}
    /\ conv.at \in {"fail", "cancel"} \/ Failed => signal = "error"

CInv == /\ Typed /\ Begun /\ LeftForAReason /\ CanceledForAReason /\ ClosedForAReason
        /\ CutShort /\ VerdictIsTrue

-----------------------------------------------------------------------------
LEMMA CInvInit == CodexInit => CInv
BY DEF CodexInit, CInv, Typed, ConvPc, Canceler, InLine, Process, Call, Failed, Begun, LeftForAReason,
       CanceledForAReason, ClosedForAReason, CutShort, VerdictIsTrue, Canceled

\* What is read from a pipe, and what is left in it.
LEMMA Lines == ASSUME NEW S, NEW q \in Seq(S), q # << >>
               PROVE  Head(q) \in S /\ Tail(q) \in Seq(S)
OBVIOUS

\* What may happen to stdin.
LEMMA Stdin ==
  ASSUME Typed, NEW line \in InLine
  PROVE  /\ Written(line) \in [open : BOOLEAN, lines : Seq(InLine)] /\ Written(line).open = cxIn.open
         /\ CloseStdin \in [open : BOOLEAN, lines : Seq(InLine)] /\ ~CloseStdin.open
         /\ [CloseStdin EXCEPT !.lines = Append(@, line)] \in [open : BOOLEAN, lines : Seq(InLine)]
         /\ ~[CloseStdin EXCEPT !.lines = Append(@, line)].open
<1> DEFINE Pipe == [open : BOOLEAN, lines : Seq(InLine)]
<1>1. cxIn \in Pipe
  BY DEF Typed
<1>2. ASSUME NEW f \in Pipe
      PROVE  LET g == [f EXCEPT !.lines = Append(@, line)] IN g \in Pipe /\ g.open = f.open
  OBVIOUS
<1>3. CloseStdin \in Pipe /\ ~CloseStdin.open
  BY <1>1 DEF CloseStdin
<1> QED BY <1>1, <1>2, <1>3 DEF Written

LEMMA TypedStep == Typed /\ [CodexNext]_codexVars => Typed'
<1> SUFFICES ASSUME Typed, [CodexNext]_codexVars PROVE Typed'
  OBVIOUS
<1> USE CodexAssumption DEF Typed
<1>1. CASE RunStarts
  BY <1>1 DEF RunStarts, ConvPc, Process
<1>2. CASE ConvStep
  <2>1. conv' \in [at : ConvPc, call : Call]
    BY <1>2 DEF ConvStep, Register, SendRequest, RequestReturns, TurnIsOver, FailRecords, ConversationEnds, ConvPc, Call, TurnStart
  <2>2. cxIn' \in [open : BOOLEAN, lines : Seq(InLine)]
    <3>1. Line("request", conv.call) \in InLine
      BY DEF Line, InLine, Call
    <3>2. cxIn' \in {cxIn, Written(Line("request", conv.call)), CloseStdin}
      BY <1>2 DEF ConvStep, Register, SendRequest, RequestReturns, TurnIsOver, FailRecords, ConversationEnds
    <3>3. cxIn \in [open : BOOLEAN, lines : Seq(InLine)]
      OBVIOUS
    <3> HIDE DEF Typed
    <3> QED BY <3>1, <3>2, <3>3, Stdin
  <2>3. cxCtx' \in [by : Canceler, during : ConvPc] /\ cxFlags' \subseteq {"resumeFailure", "blocked"}
    BY <1>2 DEF ConvStep, Register, SendRequest, RequestReturns, TurnIsOver, FailRecords, ConversationEnds,
                Cancel, Canceler
  <2>4. UNCHANGED << cli, asks >>
    BY <1>2 DEF ConvStep, Register, SendRequest, RequestReturns, TurnIsOver, FailRecords, ConversationEnds
  <2> QED BY <2>1, <2>2, <2>3, <2>4
<1>3. CASE CliReads
  <2>1. Head(cxIn.lines) \in InLine /\ Tail(cxIn.lines) \in Seq(InLine)
    BY <1>3, Lines DEF CliReads
  <2>2. cxIn' \in [open : BOOLEAN, lines : Seq(InLine)]
    BY <1>3, <2>1 DEF CliReads
  <2>3. cli' \in Process
    BY <1>3, <2>1 DEF CliReads, InLine, Process
  <2>4. asks' \in [Ask -> {"none", "sent", "open", "blocking", "over"}]
    BY <1>3 DEF CliReads
  <2> QED BY <1>3, <2>2, <2>3, <2>4 DEF CliReads
<1>4. ASSUME NEW c \in Call, NEW kind \in {"answer", "refusal"}, CliAnswers(c, kind)
      PROVE  Typed'
  <2>1. cli' = [cli EXCEPT !.owes = @ \ {c}, !.turn = @ /\ ~(c = TurnStart /\ kind = "refusal")]
    BY <1>4 DEF CliAnswers
  <2>2. (cli.turn /\ ~(c = TurnStart /\ kind = "refusal")) \in BOOLEAN
    BY DEF Process
  <2>3. cli' \in Process
    BY <2>1, <2>2 DEF Process
  <2> QED BY <1>4, <2>3 DEF CliAnswers
<1>5. CASE CliCompletes \/ CliSeesEnd \/ CliQuits \/ CliKilled
  <2>1. cli' \in Process
    <3>1. CASE CliCompletes
      BY <3>1 DEF CliCompletes, Process
    <3>2. CASE CliSeesEnd \/ CliKilled
      <4>1. \E code \in {"exit0", "exit1"} : cli' = [cli EXCEPT !.state = code]
        BY <3>2 DEF CliSeesEnd, CliKilled
      <4> QED BY <4>1 DEF Process
    <3>3. CASE CliQuits
      <4>1. PICK code \in {"exit0", "exit1"} : cli' = [cli EXCEPT !.state = code, !.early = TRUE]
        BY <3>3 DEF CliQuits
      <4> QED BY <4>1 DEF Process
    <3> QED BY <1>5, <3>1, <3>2, <3>3
  <2> QED BY <1>5, <2>1 DEF CliCompletes, CliSeesEnd, CliQuits, CliKilled
<1>6. ASSUME NEW a \in Ask, CliAsks(a)
      PROVE  Typed'
  BY <1>6 DEF CliAsks
<1>7. ASSUME NEW kind \in {"error", "hollow"}, CliErrs(kind)
      PROVE  Typed'
  <2>1. cli.errors + 1 \in Nat /\ cli' = [cli EXCEPT !.errors = cli.errors + 1]
    BY <1>7 DEF CliErrs, Process
  <2> DEFINE more == cli.errors + 1
  <2> HIDE DEF more
  <2>2. cli' \in Process
    BY <2>1 DEF Process
  <2> QED BY <1>7, <2>2 DEF CliErrs
<1>8. CASE ReaderHandles
  BY <1>8 DEF ReaderHandles
<1>9. ASSUME NEW a \in Ask, AskAnswered(a) \/ AskBlocks(a)
      PROVE  Typed'
  <2>1. Line("reply", a) \in InLine
    BY DEF Line, InLine, Ask
  <2>2. cxIn' \in [open : BOOLEAN, lines : Seq(InLine)]
    <3>1. cxIn' \in {cxIn, Written(Line("reply", a)), CloseStdin, [CloseStdin EXCEPT !.lines = Append(@, Line("reply", a))]}
      BY <1>9 DEF AskAnswered, AskBlocks
    <3>2. cxIn \in [open : BOOLEAN, lines : Seq(InLine)]
      OBVIOUS
    <3> HIDE DEF Typed
    <3> QED BY <2>1, <3>1, <3>2, Stdin
  <2>3. asks' \in [Ask -> {"none", "sent", "open", "blocking", "over"}] /\ cxFlags' \subseteq {"resumeFailure", "blocked"}
    BY <1>9 DEF AskAnswered, AskBlocks
  <2> QED BY <1>9, <2>2, <2>3 DEF AskAnswered, AskBlocks
<1>10. CASE UserCancels \/ RunDecides
  <2>1. cxCtx' \in [by : Canceler, during : ConvPc]
    BY <1>10 DEF UserCancels, RunDecides, Cancel, Canceler
  <2>2. cxIn' \in [open : BOOLEAN, lines : Seq(InLine)]
    BY <1>10 DEF UserCancels, RunDecides, CloseStdin
  <2> QED BY <1>10, <2>1, <2>2 DEF UserCancels, RunDecides
<1>11. CASE UNCHANGED codexVars
  BY <1>11 DEF codexVars
<1> QED BY <1>1, <1>2, <1>3, <1>4, <1>5, <1>6, <1>7, <1>8, <1>9, <1>10, <1>11 DEF CodexNext, AskStep, CliAnswersAll

\* The conversation.
LEMMA ConversationStep ==
  ASSUME CInv, RunStarts \/ ConvStep, Typed'
  PROVE  CInv'
<1> USE DEF CInv, Typed, Failed, Begun, LeftForAReason, CanceledForAReason, ClosedForAReason, CutShort,
            VerdictIsTrue, Canceled, Cancel
<1>1. CASE RunStarts
  BY <1>1 DEF RunStarts, Process
<1>2. CASE Register
  BY <1>2 DEF Register
<1>3. CASE SendRequest
  BY <1>3 DEF SendRequest, Written
<1>4. CASE RequestReturns
  <2>1. conv.at = "wait" /\ conv'.at \in {"turn", "register", "fail"}
    BY <1>4 DEF RequestReturns
  <2>2. UNCHANGED << cxIn, cli, asks, signal, cxCtx, cxFlags, verdict >>
    BY <1>4 DEF RequestReturns
  <2> QED BY <2>1, <2>2
<1>5. CASE TurnIsOver
  BY <1>5 DEF TurnIsOver
<1>6. CASE FailRecords
  BY <1>6 DEF FailRecords
<1>7. CASE ConversationEnds
  BY <1>7 DEF ConversationEnds, CloseStdin
<1> QED BY <1>1, <1>2, <1>3, <1>4, <1>5, <1>6, <1>7 DEF ConvStep

\* The CLI writes nothing the verdict is computed from but how it left.
LEMMA CliStep ==
  ASSUME CInv, Typed',
         \/ CliReads \/ CliAnswersAll \/ CliCompletes \/ CliSeesEnd \/ CliQuits \/ CliKilled
         \/ \E a \in Ask : CliAsks(a)
         \/ \E kind \in {"error", "hollow"} : CliErrs(kind)
  PROVE  CInv'
<1> DEFINE Leaves == /\ cli.state = "running" /\ cli'.state # "none"
                     /\ cli.early => cli'.early
                     /\ cli'.state = "exit0" => cli'.early \/ ~cxIn.open
<1>1. UNCHANGED << conv, signal, cxCtx, cxFlags, verdict >>
  BY DEF CliReads, CliAnswersAll, CliAnswers, CliCompletes, CliSeesEnd, CliQuits, CliKilled, CliAsks, CliErrs
<1>2. Leaves
  <2> USE DEF CInv, Typed, Process
  <2>1. CASE CliReads
    BY <2>1 DEF CliReads
  <2>2. CASE CliAnswersAll
    <3>1. PICK c \in Call, kind \in {"answer", "refusal"} : CliAnswers(c, kind)
      BY <2>2 DEF CliAnswersAll
    <3> QED BY <3>1 DEF CliAnswers
  <2>3. CASE CliCompletes \/ \E kind \in {"error", "hollow"} : CliErrs(kind)
    BY <2>3 DEF CliCompletes, CliErrs, InTurn
  <2>4. CASE CliQuits
    <3>1. PICK code \in {"exit0", "exit1"} : cli' = [cli EXCEPT !.state = code, !.early = TRUE]
      BY <2>4 DEF CliQuits
    <3> QED BY <2>4, <3>1 DEF CliQuits
  <2>5. CASE \E a \in Ask : CliAsks(a)
    BY <2>5 DEF CliAsks, InTurn
  <2>6. CASE CliSeesEnd
    BY <2>6 DEF CliSeesEnd
  <2>7. CASE CliKilled
    BY <2>7 DEF CliKilled
  <2> QED BY <2>1, <2>2, <2>3, <2>4, <2>5, <2>6, <2>7
<1>3. cxIn'.open = cxIn.open /\ \A a \in Ask : asks'[a] = "blocking" => asks[a] = "blocking"
  BY DEF CliReads, CliAnswersAll, CliAnswers, CliCompletes, CliSeesEnd, CliQuits, CliKilled, CliAsks, CliErrs,
         CInv, Typed
<1> QED BY <1>1, <1>2, <1>3 DEF CInv, Failed, Begun, LeftForAReason, CanceledForAReason, ClosedForAReason,
           CutShort, VerdictIsTrue, Canceled

\* The reader, the questions, the user and run.
LEMMA RunSideStep ==
  ASSUME CInv, Typed', ReaderHandles \/ UserCancels \/ RunDecides \/ \E a \in Ask : AskStep(a)
  PROVE  CInv'
<1> USE DEF CInv, Typed, Failed, Begun, LeftForAReason, CanceledForAReason, ClosedForAReason, CutShort,
            VerdictIsTrue, Canceled
<1>1. CASE ReaderHandles
  <2>1. signal # "none" => signal' = signal
    BY <1>1 DEF ReaderHandles
  <2>2. \A a \in Ask : asks'[a] = "blocking" => asks[a] = "blocking"
    BY <1>1 DEF ReaderHandles
  <2>3. UNCHANGED << conv, cxIn, cli, cxCtx, cxFlags, verdict >>
    BY <1>1 DEF ReaderHandles
  <2> QED BY <2>1, <2>2, <2>3
<1>2. CASE UserCancels
  BY <1>2 DEF UserCancels, Cancel
<1>3. CASE RunDecides
  <2>1. cxCtx' = IF Canceled THEN cxCtx ELSE [by |-> "run", during |-> conv.at]
    BY <1>3 DEF RunDecides, Cancel
  <2>2. conv.at # "idle" /\ verdict = "none" /\ cli.state \in {"exit0", "exit1"} /\ verdict' = Status
    BY <1>3 DEF RunDecides
  <2>3. UNCHANGED << conv, cli, asks, signal, cxFlags >> /\ ~cxIn'.open
    BY <1>3 DEF RunDecides, CloseStdin
  <2>4. verdict' # "none"
    BY <2>2 DEF Status
  <2>5. VerdictIsTrue'
    BY <2>1, <2>2, <2>3 DEF Status, ConvPc, Canceler
  <2> QED BY <2>1, <2>2, <2>3, <2>4, <2>5
<1>4. ASSUME NEW a \in Ask, AskStep(a)
      PROVE  CInv'
  <2>1. UNCHANGED << conv, cli, signal, cxCtx, verdict >>
    BY <1>4 DEF AskStep, AskAnswered, AskBlocks
  <2>2. Failed' = Failed /\ ("blocked" \in cxFlags => "blocked" \in cxFlags')
    BY <1>4 DEF AskStep, AskAnswered, AskBlocks
  <2>3. \A b \in Ask : asks'[b] = "blocking" => asks[b] = "blocking" \/ "blocked" \in cxFlags'
    BY <1>4 DEF AskStep, AskAnswered, AskBlocks
  <2>4. cxIn'.open = cxIn.open \/ (~cxIn'.open /\ "blocked" \in cxFlags)
    <3>1. Line("reply", a) \in InLine
      BY DEF Line, InLine, Ask
    <3>2. \/ cxIn' \in {cxIn, Written(Line("reply", a))}
          \/ /\ asks[a] = "blocking"
             /\ cxIn' \in {CloseStdin, [CloseStdin EXCEPT !.lines = Append(@, Line("reply", a))]}
      BY <1>4 DEF AskStep, AskAnswered, AskBlocks
    <3>3. CASE cxIn' \in {cxIn, Written(Line("reply", a))}
      <4>1. Written(Line("reply", a)).open = cxIn.open
        BY <3>1, Stdin DEF CInv
      <4> QED BY <3>3, <4>1
    <3>4. CASE /\ asks[a] = "blocking"
               /\ cxIn' \in {CloseStdin, [CloseStdin EXCEPT !.lines = Append(@, Line("reply", a))]}
      <4>1. ~CloseStdin.open /\ ~[CloseStdin EXCEPT !.lines = Append(@, Line("reply", a))].open
        BY <3>1, Stdin DEF CInv
      <4>2. "blocked" \in cxFlags
        BY <3>4
      <4> QED BY <3>4, <4>1, <4>2
    <3> QED BY <3>2, <3>3, <3>4
  <2> QED BY <2>1, <2>2, <2>3, <2>4
<1> QED BY <1>1, <1>2, <1>3, <1>4

LEMMA CInvStep == CInv /\ [CodexNext]_codexVars => CInv'
<1>1. ASSUME CInv, UNCHANGED codexVars
      PROVE  CInv'
  BY <1>1 DEF CInv, Typed, Failed, Begun, LeftForAReason, CanceledForAReason, ClosedForAReason, CutShort,
              VerdictIsTrue, Canceled, codexVars
<1>2. CInv /\ [CodexNext]_codexVars => Typed'
  BY TypedStep DEF CInv
<1> QED BY <1>1, <1>2, ConversationStep, CliStep, RunSideStep DEF CodexNext

\* However the conversation, the reader, the questions, a user and the death of
\* the CLI interleave, a run succeeds only if its turn was over or the CLI left
\* with 0 by itself, is canceled only by a user, and is not called failed for
\* having been canceled in its turn (Manager.run, failOnce).
THEOREM VerdictTold == CodexSpec => []VerdictIsTrue
<1>1. CInv => VerdictIsTrue
  BY DEF CInv
<1> QED BY <1>1, CInvInit, CInvStep, PTL DEF CodexSpec

-----------------------------------------------------------------------------
(* The flow of events: what is published, buffered, fetched and shown, and   *)
(* where the end of the task is while the secretary has not been told.       *)

Past        == 0 .. row
Given       == 1 .. seq
Publication == [at : {"idle", "written", "read", "numbered"}, version : Version \cup {None}, seq : Nat]
Carries(g)  == pub[g].at \in {"read", "numbered"}
HasNumber(g) == pub[g].at = "numbered"

\* A goroutine that carries the row carries what it has been.
Carried ==
  /\ pub \in [Goroutine -> Publication]
  /\ \A g \in Goroutine : Carries(g) => pub[g].version \in Past
  /\ \A g \in Goroutine : HasNumber(g) => pub[g].seq \in Given

\* So do the channels.
Buffered ==
  /\ toBridge \in Seq(Past) /\ toReporter \in Seq(Past)
  /\ toBrowser \in Seq([version : Past, seq : Given])

\* And so do the browser, what it has fetched, and the reporter; the secretary
\* is told of an end only when it is there.
Seen ==
  /\ ui \in Past /\ fetch \in Past \cup {None, Asked} /\ reported \in Past \cup {None}
  /\ lastSeq \in 0 .. seq
  /\ told \in Nat /\ (told > 0 => row = MaxVersion)

Counts ==
  /\ row \in Version /\ seq \in Nat
  /\ bridgeUp \in BOOLEAN /\ browserUp \in BOOLEAN /\ lost \in BOOLEAN
  /\ extra \in 0 .. MaxExtra /\ breaks \in 0 .. MaxBreaks

NothingAhead == Counts /\ Carried /\ Buffered /\ Seen

\* Where the end is while the secretary has not been told of it.
Holds(c) == \E i \in DOMAIN c : c[i] = MaxVersion
EndAt(g) == pub[g].at = "written" \/ (Carries(g) /\ pub[g].version = MaxVersion)
EndUnderWay ==
  /\ reported = MaxVersion => told > 0
  /\ row = MaxVersion /\ told = 0 /\ ~lost =>
       (\E g \in Goroutine : EndAt(g)) \/ Holds(toBridge) \/ Holds(toReporter)

-----------------------------------------------------------------------------
LEMMA FlowInit == EventInit => NothingAhead /\ EndUnderWay
<1> SUFFICES ASSUME EventInit PROVE NothingAhead /\ EndUnderWay
  OBVIOUS
<1> USE EventFlowAssumption DEF EventInit
<1>1. Counts
  <2>1. row = 0 /\ seq = 0 /\ extra = 0 /\ breaks = 0
    OBVIOUS
  <2>2. bridgeUp \in BOOLEAN /\ browserUp \in BOOLEAN /\ lost \in BOOLEAN
    OBVIOUS
  <2> HIDE DEF EventInit
  <2> QED BY <2>1, <2>2 DEF Counts, Version
<1>2. Carried
  BY DEF Carried, Publication, Idle, Carries, HasNumber
<1>3. Buffered
  BY EmptySeq DEF Buffered
<1>4. Seen
  BY DEF Seen, Past, None
<1>5. EndUnderWay
  BY DEF EndUnderWay, None
<1> QED BY <1>1, <1>2, <1>3, <1>4, <1>5 DEF NothingAhead

\* What is published into a channel, and taken from it.
LEMMA Channel ==
  ASSUME NEW S, NEW c \in Seq(S), NEW e \in S
  PROVE  /\ Accepted(c, e) \in Seq(S)
         /\ \A i \in DOMAIN c : i \in DOMAIN Accepted(c, e) /\ Accepted(c, e)[i] = c[i]
         /\ Len(c) < BufferSize => \E i \in DOMAIN Accepted(c, e) : Accepted(c, e)[i] = e
<1>1. Append(c, e) \in Seq(S) /\ Len(Append(c, e)) = Len(c) + 1 /\ Len(c) \in Nat
      /\ DOMAIN c = 1 .. Len(c) /\ DOMAIN Append(c, e) = 1 .. Len(c) + 1
      /\ (\A i \in 1 .. Len(c) : Append(c, e)[i] = c[i]) /\ Append(c, e)[Len(c) + 1] = e
  OBVIOUS
<1> QED BY <1>1 DEF Accepted

LEMMA Taken ==
  ASSUME NEW S, NEW c \in Seq(S), c # << >>
  PROVE  /\ Head(c) \in S /\ Tail(c) \in Seq(S)
         /\ \A i \in DOMAIN c : c[i] = Head(c) \/ \E j \in DOMAIN Tail(c) : Tail(c)[j] = c[i]
         /\ \A j \in DOMAIN Tail(c) : j + 1 \in DOMAIN c /\ Tail(c)[j] = c[j + 1]
<1>1. Head(c) \in S /\ Tail(c) \in Seq(S) /\ Len(c) \in Nat \ {0} /\ Len(Tail(c)) = Len(c) - 1
      /\ DOMAIN c = 1 .. Len(c) /\ DOMAIN Tail(c) = 1 .. Len(c) - 1 /\ Head(c) = c[1]
      /\ \A j \in 1 .. Len(c) - 1 : Tail(c)[j] = c[j + 1]
  OBVIOUS
<1>2. ASSUME NEW i \in DOMAIN c, i # 1
      PROVE  \E j \in DOMAIN Tail(c) : Tail(c)[j] = c[i]
  <2>1. i - 1 \in DOMAIN Tail(c) /\ Tail(c)[i - 1] = c[i]
    BY <1>1, <1>2
  <2> QED BY <2>1
<1> QED BY <1>1, <1>2

\* A goroutine that goes on with what it publishes.
LEMMA GoesOn ==
  ASSUME Carried, NEW g \in Goroutine, NEW p \in Publication, pub' = [pub EXCEPT ![g] = p],
         Past \subseteq Past', Given \subseteq Given',
         p.at \in {"read", "numbered"} => p.version \in Past', p.at = "numbered" => p.seq \in Given'
  PROVE  Carried'
BY DEF Carried, Carries, HasNumber

\* What the past was it stays.
LEMMA Stays ==
  ASSUME Counts, Buffered, Seen, Past \subseteq Past', Given \subseteq Given'
  PROVE  /\ toBridge \in Seq(Past') /\ toReporter \in Seq(Past')
         /\ toBrowser \in Seq([version : Past', seq : Given'])
<1>1. [version : Past, seq : Given] \subseteq [version : Past', seq : Given']
  OBVIOUS
<1> QED BY <1>1, SeqMonotonic DEF Buffered

-----------------------------------------------------------------------------
LEMMA WriteAhead ==
  ASSUME NothingAhead, NEW g \in Goroutine, WriteRow(g) \/ PublishUnwritten(g)
  PROVE  NothingAhead'
<1> USE EventFlowAssumption DEF NothingAhead
<1>1. Counts' /\ Past \subseteq Past' /\ Given' = Given
  BY DEF WriteRow, PublishUnwritten, Counts, Version, Past, Given
<1>2. Carried'
  <2>1. [pub[g] EXCEPT !.at = "written"] \in Publication /\ [pub[g] EXCEPT !.at = "written"].at = "written"
    BY DEF Carried, Publication
  <2>2. pub' = [pub EXCEPT ![g] = [pub[g] EXCEPT !.at = "written"]]
    BY DEF WriteRow, PublishUnwritten
  <2> QED BY <1>1, <2>1, <2>2, GoesOn
<1>3. Buffered'
  BY <1>1, Stays DEF Buffered, WriteRow, PublishUnwritten
<1>4. Seen'
  <2>1. told' = told /\ (told > 0 => row' = MaxVersion)
    BY DEF WriteRow, PublishUnwritten, Seen, Counts, Version
  <2> QED BY <1>1, <2>1 DEF Seen, WriteRow, PublishUnwritten
<1> QED BY <1>1, <1>2, <1>3, <1>4

LEMMA PublishAhead ==
  ASSUME NothingAhead, NEW g \in Goroutine, PublishStep(g)
  PROVE  NothingAhead'
<1> USE EventFlowAssumption DEF NothingAhead
<1>1. Counts' /\ Past' = Past /\ Given \subseteq Given'
  <2>1. row' = row /\ bridgeUp' = bridgeUp /\ browserUp' = browserUp /\ extra' = extra /\ breaks' = breaks
    BY DEF PublishStep, ReadRow, PublishToDaemonHub, TakeNumber, Deliver
  <2>2. lost' \in BOOLEAN
    BY DEF PublishStep, ReadRow, PublishToDaemonHub, TakeNumber, Deliver, Counts, Refused
  <2>3. seq' \in {seq, seq + 1}
    BY DEF PublishStep, ReadRow, PublishToDaemonHub, TakeNumber, Deliver
  <2> QED BY <2>1, <2>2, <2>3 DEF Counts, Past, Given
<1>2. pub[g] \in Publication /\ Idle \in Publication /\ Idle.at = "idle"
  BY DEF Carried, Idle, Publication, None
<1>3. Seen'
  <2>1. seq' \in {seq, seq + 1}
    BY DEF PublishStep, ReadRow, PublishToDaemonHub, TakeNumber, Deliver
  <2>2. UNCHANGED << row, ui, lastSeq, fetch, reported, told >>
    BY DEF PublishStep, ReadRow, PublishToDaemonHub, TakeNumber, Deliver
  <2> QED BY <1>1, <2>1, <2>2 DEF Seen, Counts
<1>4. CASE ReadRow(g)
  <2>1. row \in Past /\ row \in Version
    BY DEF Counts, Past, Version
  <2>2. [at |-> "read", version |-> row, seq |-> 0] \in Publication
    BY <2>1 DEF Publication
  <2>3. Carried'
    BY <1>1, <1>4, <2>1, <2>2, GoesOn DEF ReadRow
  <2> QED BY <1>1, <1>3, <1>4, <2>3, Stays DEF ReadRow, Buffered
<1>5. CASE PublishToDaemonHub(g)
  <2>1. Carried'
    BY <1>1, <1>2, <1>5, GoesOn DEF PublishToDaemonHub
  <2>2. pub[g].version \in Past
    BY <1>5 DEF PublishToDaemonHub, Carried, Carries
  <2>3. Accepted(toBridge, pub[g].version) \in Seq(Past)
    BY <2>2, Channel DEF Buffered
  <2> QED BY <1>1, <1>3, <1>5, <2>1, <2>3, Stays DEF PublishToDaemonHub, Buffered
<1>6. CASE TakeNumber(g)
  <2> DEFINE p == [pub[g] EXCEPT !.at = "numbered", !.seq = seq + 1]
  <2>1. seq + 1 \in Nat /\ seq + 1 \in Given'
    BY <1>6 DEF TakeNumber, Counts, Given
  <2>2. p \in Publication /\ p.at = "numbered" /\ p.seq = seq + 1 /\ p.version = pub[g].version
    BY <1>2, <2>1 DEF Publication
  <2>3. p.version \in Past'
    BY <1>1, <1>6, <2>2 DEF TakeNumber, Carried, Carries
  <2>4. pub' = [pub EXCEPT ![g] = p]
    BY <1>6 DEF TakeNumber, Carried
  <2>5. Carried'
    <3> HIDE DEF p
    <3> QED BY <1>1, <2>1, <2>2, <2>3, <2>4, GoesOn
  <2> QED BY <1>1, <1>3, <1>6, <2>5, Stays DEF TakeNumber, Buffered
<1>7. CASE Deliver(g)
  <2>1. Carried'
    BY <1>1, <1>2, <1>7, GoesOn DEF Deliver
  <2>2. pub[g].version \in Past /\ pub[g].seq \in Given
    BY <1>7 DEF Deliver, Carried, Carries, HasNumber
  <2>3. [version |-> pub[g].version, seq |-> pub[g].seq] \in [version : Past, seq : Given]
    BY <2>2
  <2>4. Accepted(toBrowser, [version |-> pub[g].version, seq |-> pub[g].seq]) \in Seq([version : Past, seq : Given])
    BY <2>3, Channel DEF Buffered
  <2>5. Accepted(toReporter, pub[g].version) \in Seq(Past)
    BY <2>2, Channel DEF Buffered
  <2>6. Given' = Given
    BY <1>7 DEF Deliver, Given
  <2> QED BY <1>1, <1>3, <1>7, <2>1, <2>4, <2>5, <2>6 DEF Deliver, Buffered
<1> QED BY <1>4, <1>5, <1>6, <1>7 DEF PublishStep

LEMMA BridgeAhead ==
  ASSUME NothingAhead, BridgeForwards
  PROVE  NothingAhead'
<1> USE EventFlowAssumption DEF NothingAhead
<1>1. Counts' /\ Past' = Past /\ Given' = Given /\ Seen'
  BY DEF BridgeForwards, Counts, Past, Given, Seen
<1>2. Head(toBridge) \in Past /\ Tail(toBridge) \in Seq(Past)
  BY Taken DEF Buffered, BridgeForwards
<1>3. [at |-> "read", version |-> Head(toBridge), seq |-> 0] \in Publication
  BY <1>2 DEF Publication, Past, Counts, Version
<1>4. Bridge \in Goroutine
  BY DEF Goroutine
<1>5. Carried'
  BY <1>1, <1>2, <1>3, <1>4, GoesOn DEF BridgeForwards
<1> QED BY <1>1, <1>2, <1>5 DEF Buffered, BridgeForwards

Connections == BridgeBreaks \/ BridgeReconnects \/ BrowserBreaks \/ BrowserReconnects
Reading == BrowserHandles \/ Heartbeat \/ FetchReads \/ FetchAnswered \/ ReporterHandles

LEMMA RestAhead ==
  ASSUME NothingAhead, Connections \/ Reading
  PROVE  NothingAhead'
<1> USE EventFlowAssumption DEF NothingAhead
<1>1. pub' = pub /\ row' = row /\ seq' = seq
  BY DEF Connections, Reading, BridgeBreaks, BridgeReconnects, BrowserBreaks, BrowserReconnects, BrowserHandles,
         Heartbeat, FetchReads, FetchAnswered, ReporterHandles
<1>2. Carried' /\ Past' = Past /\ Given' = Given
  BY <1>1 DEF Carried, Carries, HasNumber, Past, Given
<1>3. CASE Connections
  <2>1. Counts'
    <3>1. lost' \in BOOLEAN
      BY <1>3 DEF Connections, BridgeBreaks, BridgeReconnects, BrowserBreaks, BrowserReconnects, Counts
    <3>2. bridgeUp' \in BOOLEAN /\ browserUp' \in BOOLEAN
      BY <1>3 DEF Connections, BridgeBreaks, BridgeReconnects, BrowserBreaks, BrowserReconnects, Counts
    <3>3. extra' = extra /\ (breaks' = breaks \/ (breaks < MaxBreaks /\ breaks' = breaks + 1))
      BY <1>3 DEF Connections, BridgeBreaks, BridgeReconnects, BrowserBreaks, BrowserReconnects
    <3> QED BY <1>1, <3>1, <3>2, <3>3 DEF Counts
  <2>2. Seen'
    <3>1. ui' = ui /\ reported' = reported /\ told' = told /\ lastSeq' \in {lastSeq, 0} /\ fetch' \in {fetch, Asked}
      BY <1>3 DEF Connections, BridgeBreaks, BridgeReconnects, BrowserBreaks, BrowserReconnects, MayResync, Resync
    <3> QED BY <1>1, <1>2, <3>1 DEF Seen, Counts
  <2>3. toBridge' \in {toBridge, << >>} /\ toReporter' = toReporter /\ toBrowser' \in {toBrowser, << >>}
    BY <1>3 DEF Connections, BridgeBreaks, BridgeReconnects, BrowserBreaks, BrowserReconnects
  <2>4. Buffered'
    BY <1>2, <2>3, EmptySeq DEF Buffered
  <2> QED BY <1>2, <2>1, <2>2, <2>4
<1>4. CASE BrowserHandles
  <2>1. Head(toBrowser) \in [version : Past, seq : Given] /\ Tail(toBrowser) \in Seq([version : Past, seq : Given])
    BY <1>4, Taken DEF Buffered, BrowserHandles
  <2>2. Buffered' /\ Counts'
    BY <1>1, <1>2, <1>4, <2>1 DEF Buffered, Counts, BrowserHandles
  <2>3. ui' = Head(toBrowser).version /\ lastSeq' = Head(toBrowser).seq /\ fetch' \in {fetch, Asked}
        /\ reported' = reported /\ told' = told
    BY <1>4 DEF BrowserHandles, MayResync, Resync
  <2>4. Seen'
    BY <1>1, <1>2, <2>1, <2>3 DEF Seen, Given, Counts
  <2> QED BY <1>2, <2>2, <2>4
<1>5. CASE Heartbeat \/ FetchReads \/ FetchAnswered
  <2>1. Buffered' /\ Counts'
    BY <1>1, <1>2, <1>5 DEF Buffered, Counts, Heartbeat, FetchReads, FetchAnswered
  <2>2. row \in Past
    BY DEF Counts, Past, Version
  <2>3. fetch' \in {fetch, Asked, None, row} /\ lastSeq' = lastSeq /\ reported' = reported /\ told' = told
    BY <1>5 DEF Heartbeat, FetchReads, FetchAnswered, Resync
  <2>4. ui' = ui \/ (ui' = fetch /\ fetch \in Version)
    BY <1>5 DEF Heartbeat, FetchReads, FetchAnswered, Resync
  <2>5. ui' \in Past
    BY <2>4 DEF Seen, Version, None, Asked
  <2>6. Seen'
    BY <1>1, <1>2, <2>2, <2>3, <2>5 DEF Seen
  <2> QED BY <1>2, <2>1, <2>6
<1>6. CASE ReporterHandles
  <2>1. Head(toReporter) \in Past /\ Tail(toReporter) \in Seq(Past)
    BY <1>6, Taken DEF Buffered, ReporterHandles
  <2>2. Buffered' /\ Counts'
    BY <1>1, <1>2, <1>6, <2>1 DEF Buffered, Counts, ReporterHandles
  <2>3. ui' = ui /\ fetch' = fetch /\ lastSeq' = lastSeq /\ reported' = Head(toReporter)
    BY <1>6 DEF ReporterHandles
  <2>4. told' \in Nat /\ (told' > 0 => row' = MaxVersion)
    BY <1>1, <1>6, <2>1 DEF ReporterHandles, Seen, Past, Counts, Version
  <2> QED BY <1>1, <1>2, <2>1, <2>2, <2>3, <2>4 DEF Seen
<1> QED BY <1>3, <1>4, <1>5, <1>6 DEF Reading

LEMMA AheadStep == NothingAhead /\ [EventNext]_eventVars => NothingAhead'
<1> SUFFICES ASSUME NothingAhead, [EventNext]_eventVars PROVE NothingAhead'
  OBVIOUS
<1>1. CASE UNCHANGED eventVars
  BY <1>1 DEF eventVars, NothingAhead, Counts, Carried, Buffered, Seen, Past, Given, Carries, HasNumber
<1>2. CASE \E g \in Publisher \cup {Direct} : WriteRow(g) \/ PublishUnwritten(g)
  BY <1>2, WriteAhead DEF Goroutine
<1>3. CASE \E g \in Goroutine : PublishStep(g)
  BY <1>3, PublishAhead
<1> QED BY <1>1, <1>2, <1>3, BridgeAhead, RestAhead DEF EventNext, Connections, Reading

-----------------------------------------------------------------------------
LEMMA UnderWayStep == NothingAhead /\ EndUnderWay /\ [EventNext]_eventVars => EndUnderWay'
<1> SUFFICES ASSUME NothingAhead, EndUnderWay, [EventNext]_eventVars PROVE EndUnderWay'
  OBVIOUS
<1> DEFINE Under == (\E g \in Goroutine : EndAt(g)) \/ Holds(toBridge) \/ Holds(toReporter)
<1> USE EventFlowAssumption DEF NothingAhead
<1>a. ASSUME UNCHANGED << row, told, reported >>, lost => lost',
             row = MaxVersion /\ told = 0 /\ ~lost' /\ Under => Under'
      PROVE  EndUnderWay'
  BY <1>a DEF EndUnderWay
<1>1. CASE UNCHANGED eventVars
  BY <1>1 DEF eventVars, EndUnderWay, Holds, EndAt, Carries
<1>2. CASE \E g \in Publisher \cup {Direct} : WriteRow(g) \/ PublishUnwritten(g)
  <2> PICK g \in Publisher \cup {Direct} : WriteRow(g) \/ PublishUnwritten(g)
    BY <1>2
  <2>1. pub' = [pub EXCEPT ![g] = [pub[g] EXCEPT !.at = "written"]] /\ g \in Goroutine
        /\ told' = told /\ reported' = reported
    BY DEF WriteRow, PublishUnwritten, Goroutine
  <2>2. pub'[g].at = "written"
    BY <2>1 DEF Carried, Publication
  <2> QED BY <2>1, <2>2 DEF EndUnderWay, EndAt
<1>3. CASE \E g \in Goroutine : PublishStep(g)
  <2> PICK g \in Goroutine : PublishStep(g)
    BY <1>3
  <2>1. UNCHANGED << row, told, reported >> /\ (lost => lost')
    <3>1. UNCHANGED << row, told, reported >>
      BY DEF PublishStep, ReadRow, PublishToDaemonHub, TakeNumber, Deliver
    <3>2. ReadRow(g) \/ TakeNumber(g) => (lost => lost')
      BY DEF ReadRow, TakeNumber
    <3>3. PublishToDaemonHub(g) => (lost => lost')
      BY Zenon DEF PublishToDaemonHub
    <3>4. Deliver(g) => (lost => lost')
      BY Zenon DEF Deliver
    <3> QED BY <3>1, <3>2, <3>3, <3>4 DEF PublishStep
  <2>2. pub' \in [Goroutine -> Publication] /\ \A h \in Goroutine \ {g} : pub'[h] = pub[h]
    <3>1. Carried'
      BY PublishAhead DEF NothingAhead
    <3> QED BY <3>1 DEF Carried, PublishStep, ReadRow, PublishToDaemonHub, TakeNumber, Deliver
  <2>3. (Holds(toBridge) => Holds(toBridge')) /\ (Holds(toReporter) => Holds(toReporter'))
    <3>1. toBridge' = toBridge \/ (Carries(g) /\ toBridge' = Accepted(toBridge, pub[g].version))
      BY DEF PublishStep, ReadRow, PublishToDaemonHub, TakeNumber, Deliver, Carries
    <3>2. toReporter' = toReporter \/ (Carries(g) /\ toReporter' = Accepted(toReporter, pub[g].version))
      BY DEF PublishStep, ReadRow, PublishToDaemonHub, TakeNumber, Deliver, Carries
    <3>3. Carries(g) => pub[g].version \in Past
      BY DEF Carried
    <3>4. ASSUME NEW c \in Seq(Past), Carries(g), Holds(c) PROVE Holds(Accepted(c, pub[g].version))
      <4> DEFINE v == pub[g].version
                 after == Accepted(c, v)
      <4>1. \A i \in DOMAIN c : i \in DOMAIN after /\ after[i] = c[i]
        <5>1. v \in Past /\ c \in Seq(Past)
          BY <3>3, <3>4
        <5> HIDE DEF v
        <5> QED BY <5>1, Channel
      <4>2. PICK i \in DOMAIN c : c[i] = MaxVersion
        BY <3>4 DEF Holds
      <4> HIDE DEF after
      <4>3. Holds(after)
        BY <4>1, <4>2 DEF Holds
      <4> QED BY <4>3 DEF after
    <3> QED BY <3>1, <3>2, <3>4 DEF Buffered
  <2>4. ASSUME row = MaxVersion, ~lost', EndAt(g) PROVE Under'
    <3>1. CASE ReadRow(g)
      BY <3>1, <2>4 DEF ReadRow, EndAt, Carries, Carried
    <3>2. CASE PublishToDaemonHub(g)
      <4>1. pub[g].version = MaxVersion /\ pub[g].version \in Past
        BY <3>2, <2>4 DEF PublishToDaemonHub, EndAt, Carries, Carried
      <4>2. bridgeUp /\ Len(toBridge) < BufferSize
        <5>1. Len(toBridge) \in Nat
          BY DEF Buffered
        <5>2. ~bridgeUp => lost'
          BY <3>2, <4>1, Zenon DEF PublishToDaemonHub
        <5>3. bridgeUp /\ Refused(toBridge, pub[g].version) => lost'
          BY <3>2, Zenon DEF PublishToDaemonHub
        <5> QED BY <2>4, <4>1, <5>1, <5>2, <5>3 DEF Refused
      <4>3. Holds(Accepted(toBridge, pub[g].version))
        BY <4>1, <4>2, Channel DEF Holds, Buffered
      <4> QED BY <3>2, <4>2, <4>3 DEF PublishToDaemonHub
    <3>3. CASE TakeNumber(g)
      <4>1. pub'[g].at = "numbered" /\ pub'[g].version = pub[g].version /\ pub[g].version = MaxVersion
        BY <3>3, <2>4 DEF TakeNumber, EndAt, Carries, Carried, Publication
      <4> QED BY <4>1 DEF EndAt, Carries
    <3>4. CASE Deliver(g)
      <4>1. pub[g].version = MaxVersion /\ pub[g].version \in Past
        BY <3>4, <2>4 DEF Deliver, EndAt, Carries, Carried
      <4>2. Len(toReporter) < BufferSize
        <5>1. Len(toReporter) \in Nat
          BY DEF Buffered
        <5>2. Refused(toReporter, pub[g].version) => lost'
          BY <3>4, Zenon DEF Deliver
        <5> QED BY <2>4, <4>1, <5>1, <5>2 DEF Refused
      <4>3. Holds(Accepted(toReporter, pub[g].version))
        BY <4>1, <4>2, Channel DEF Holds, Buffered
      <4> QED BY <3>4, <4>3 DEF Deliver
    <3> QED BY <3>1, <3>2, <3>3, <3>4 DEF PublishStep
  <2>5. ASSUME NEW h \in Goroutine, h # g, EndAt(h) PROVE Under'
    BY <2>2, <2>5 DEF EndAt, Carries
  <2> QED BY <1>a, <2>1, <2>3, <2>4, <2>5
<1>4. CASE BridgeForwards
  <2>1. pub' = [pub EXCEPT ![Bridge] = [at |-> "read", version |-> Head(toBridge), seq |-> 0]]
        /\ UNCHANGED << row, told, reported, lost, toReporter >> /\ pub[Bridge] = Idle /\ toBridge # << >>
        /\ toBridge' = Tail(toBridge)
    BY <1>4 DEF BridgeForwards
  <2>2. Bridge \in Goroutine /\ ~EndAt(Bridge)
    BY <2>1 DEF Goroutine, EndAt, Idle, Carries
  <2>3. ASSUME NEW h \in Goroutine, EndAt(h) PROVE Under'
    BY <2>1, <2>2, <2>3 DEF EndAt, Carries, Carried
  <2>4. ASSUME Holds(toBridge) PROVE Under'
    <3>1. Head(toBridge) = MaxVersion \/ Holds(Tail(toBridge))
      BY <2>1, <2>4, Taken DEF Holds, Buffered
    <3>2. CASE Head(toBridge) = MaxVersion
      BY <2>1, <2>2, <3>2 DEF EndAt, Carries, Carried
    <3> QED BY <2>1, <3>1, <3>2
  <2> QED BY <1>a, <2>1, <2>3, <2>4
<1>5. CASE Connections \/ BrowserHandles \/ Heartbeat \/ FetchReads \/ FetchAnswered
  <2>1. UNCHANGED << row, told, reported, pub, toReporter >>
    BY <1>5 DEF Connections, BridgeBreaks, BridgeReconnects, BrowserBreaks, BrowserReconnects, BrowserHandles,
           Heartbeat, FetchReads, FetchAnswered
  <2>2. (lost => lost') /\ (Holds(toBridge) => lost' \/ Holds(toBridge'))
    <3>1. BridgeBreaks => (lost => lost') /\ (Holds(toBridge) => lost')
      BY Zenon DEF BridgeBreaks, Holds
    <3>2. ~BridgeBreaks => lost' = lost /\ toBridge' = toBridge
      BY <1>5 DEF Connections, BridgeReconnects, BrowserBreaks, BrowserReconnects, BrowserHandles,
                  Heartbeat, FetchReads, FetchAnswered
    <3> QED BY <3>1, <3>2
  <2>3. (\E g \in Goroutine : EndAt(g)) => (\E g \in Goroutine : EndAt(g)')
    BY <2>1 DEF EndAt, Carries
  <2> QED BY <1>a, <2>1, <2>2, <2>3
<1>6. CASE ReporterHandles
  <2>1. toReporter # << >> /\ reported' = Head(toReporter) /\ toReporter' = Tail(toReporter)
        /\ UNCHANGED << row, pub, toBridge, lost >>
    BY <1>6 DEF ReporterHandles
  <2>2. Head(toReporter) \in Past /\ told \in Nat
        /\ (Holds(toReporter) => Head(toReporter) = MaxVersion \/ Holds(Tail(toReporter)))
    BY <2>1, Taken DEF Holds, Buffered, Seen
  <2>3. CASE Head(toReporter) = MaxVersion
    <3>1. told' > 0
      BY <1>6, <2>2, <2>3 DEF ReporterHandles, EndUnderWay
    <3> QED BY <3>1 DEF EndUnderWay
  <2>4. CASE Head(toReporter) # MaxVersion
    <3>1. told' = told /\ reported' # MaxVersion
      BY <1>6, <2>1, <2>4 DEF ReporterHandles
    <3>2. (\E g \in Goroutine : EndAt(g)) => (\E g \in Goroutine : EndAt(g)')
      BY <2>1 DEF EndAt, Carries
    <3>3. Holds(toReporter) => Holds(toReporter')
      BY <2>1, <2>2, <2>4
    <3> QED BY <2>1, <3>1, <3>2, <3>3 DEF EndUnderWay
  <2> QED BY <2>3, <2>4
<1> QED BY <1>1, <1>2, <1>3, <1>4, <1>5, <1>6 DEF EventNext, Connections

-----------------------------------------------------------------------------
\* A number of the server's hub is with one goroutine, in one place of the
\* browser's channel, or the last that was handled.
NumberedOnce ==
  /\ \A g, h \in Goroutine : HasNumber(g) /\ HasNumber(h) /\ g # h => pub[g].seq # pub[h].seq
  /\ \A g \in Goroutine : HasNumber(g) => pub[g].seq # lastSeq
  /\ \A g \in Goroutine : \A i \in DOMAIN toBrowser : HasNumber(g) => pub[g].seq # toBrowser[i].seq
  /\ \A i, j \in DOMAIN toBrowser : i # j => toBrowser[i].seq # toBrowser[j].seq
  /\ \A i \in DOMAIN toBrowser : toBrowser[i].seq # lastSeq

\* What is in the browser's channel has been numbered.
LEMMA GivenOut == ASSUME NothingAhead, NEW i \in DOMAIN toBrowser
                  PROVE  toBrowser[i].seq \in 1 .. seq
<1> DEFINE Item == [version : Past, seq : Given]
<1>1. toBrowser \in Seq(Item)
  BY DEF NothingAhead, Buffered
<1>2. i \in 1 .. Len(toBrowser)
  BY <1>1
<1>3. toBrowser[i] \in Item
  <2> HIDE DEF Item
  <2> QED BY <1>1, <1>2, ElementOfSeq
<1> QED BY <1>3 DEF Given

\* A goroutine that has no number it had not before.
LEMMA KeepsNumbers ==
  ASSUME NumberedOnce, UNCHANGED << toBrowser, lastSeq >>,
         \A g \in Goroutine : HasNumber(g)' => HasNumber(g) /\ pub'[g].seq = pub[g].seq
  PROVE  NumberedOnce'
BY DEF NumberedOnce

LEMMA NumberedStep == NothingAhead /\ NumberedOnce /\ [EventNext]_eventVars => NumberedOnce'
<1> SUFFICES ASSUME NothingAhead, NumberedOnce, [EventNext]_eventVars PROVE NumberedOnce'
  OBVIOUS
<1> USE DEF NothingAhead
<1>1. CASE UNCHANGED eventVars
  BY <1>1, KeepsNumbers DEF eventVars, HasNumber
<1>2. CASE \E g \in Publisher \cup {Direct} : WriteRow(g) \/ PublishUnwritten(g)
  <2> PICK g \in Publisher \cup {Direct} : WriteRow(g) \/ PublishUnwritten(g)
    BY <1>2
  <2>1. pub' = [pub EXCEPT ![g] = [pub[g] EXCEPT !.at = "written"]] /\ g \in Goroutine
        /\ UNCHANGED << toBrowser, lastSeq >>
    BY DEF WriteRow, PublishUnwritten, Goroutine
  <2>2. pub'[g].at = "written"
    BY <2>1 DEF Carried, Publication
  <2> QED BY <2>1, <2>2, KeepsNumbers DEF HasNumber, Carried
<1>3. CASE \E g \in Goroutine : PublishStep(g)
  <2> PICK g \in Goroutine : PublishStep(g)
    BY <1>3
  <2>1. CASE ReadRow(g) \/ PublishToDaemonHub(g)
    <3>1. UNCHANGED << toBrowser, lastSeq >> /\ \A h \in Goroutine \ {g} : pub'[h] = pub[h]
      BY <2>1 DEF ReadRow, PublishToDaemonHub, Carried
    <3>2. ~HasNumber(g)'
      BY <2>1 DEF ReadRow, PublishToDaemonHub, Carried, HasNumber, Idle
    <3> QED BY <3>1, <3>2, KeepsNumbers DEF HasNumber
  <2>2. CASE TakeNumber(g)
    <3>1. UNCHANGED << toBrowser, lastSeq >> /\ \A h \in Goroutine \ {g} : pub'[h] = pub[h]
      BY <2>2 DEF TakeNumber, Carried
    <3>2. pub'[g].seq = seq + 1
      BY <2>2 DEF TakeNumber, Carried, Publication
    <3>3. seq \in Nat /\ lastSeq \in 0 .. seq
      BY DEF Counts, Seen
    <3>4. \A h \in Goroutine : HasNumber(h) => pub[h].seq \in 1 .. seq
      BY DEF Carried, Given
    <3>5. \A i \in DOMAIN toBrowser : toBrowser[i].seq \in 1 .. seq
      BY GivenOut
    <3> QED BY <3>1, <3>2, <3>3, <3>4, <3>5 DEF NumberedOnce, HasNumber
  <2>3. CASE Deliver(g)
    <3> DEFINE e == [version |-> pub[g].version, seq |-> pub[g].seq]
    <3>1. lastSeq' = lastSeq /\ HasNumber(g) /\ toBrowser' \in {toBrowser, Append(toBrowser, e)}
          /\ (\A h \in Goroutine \ {g} : pub'[h] = pub[h]) /\ ~HasNumber(g)'
      BY <2>3 DEF Deliver, Carried, HasNumber, Idle, Accepted
    <3>2. CASE toBrowser' = toBrowser
      BY <3>1, <3>2, KeepsNumbers DEF HasNumber
    <3>3. CASE toBrowser' = Append(toBrowser, e)
      <4>1. Len(toBrowser) \in Nat /\ DOMAIN toBrowser = 1 .. Len(toBrowser)
            /\ DOMAIN Append(toBrowser, e) = 1 .. Len(toBrowser) + 1
            /\ (\A i \in 1 .. Len(toBrowser) : Append(toBrowser, e)[i] = toBrowser[i])
            /\ Append(toBrowser, e)[Len(toBrowser) + 1] = e
        BY DEF Buffered
      <4>2. \A i \in DOMAIN toBrowser' : toBrowser'[i] = e \/ (i \in DOMAIN toBrowser /\ toBrowser'[i] = toBrowser[i])
        BY <3>3, <4>1
      <4>3. \A i, j \in DOMAIN toBrowser' : i # j =>
               \/ i \in DOMAIN toBrowser /\ toBrowser'[i] = toBrowser[i] /\ j \in DOMAIN toBrowser /\ toBrowser'[j] = toBrowser[j]
               \/ i \in DOMAIN toBrowser /\ toBrowser'[i] = toBrowser[i] /\ toBrowser'[j] = e
               \/ j \in DOMAIN toBrowser /\ toBrowser'[j] = toBrowser[j] /\ toBrowser'[i] = e
        BY <3>3, <4>1
      <4>4. e.seq = pub[g].seq
        OBVIOUS
      <4> HIDE DEF e
      <4>5. \A h, k \in Goroutine : HasNumber(h)' /\ HasNumber(k)' /\ h # k => pub'[h].seq # pub'[k].seq
        BY <3>1 DEF NumberedOnce, HasNumber
      <4>6. \A h \in Goroutine : HasNumber(h)' => pub'[h].seq # lastSeq'
        BY <3>1 DEF NumberedOnce, HasNumber
      <4>7. \A h \in Goroutine : HasNumber(h)' => pub'[h].seq # e.seq
        BY <3>1, <4>4 DEF NumberedOnce, HasNumber
      <4>8. \A h \in Goroutine : \A i \in DOMAIN toBrowser' : HasNumber(h)' => pub'[h].seq # toBrowser'[i].seq
        BY <3>1, <4>2, <4>7 DEF NumberedOnce, HasNumber
      <4>9. \A i, j \in DOMAIN toBrowser' : i # j => toBrowser'[i].seq # toBrowser'[j].seq
        <5>1. \A i \in DOMAIN toBrowser : toBrowser[i].seq # e.seq
          BY <3>1, <4>4 DEF NumberedOnce
        <5>2. \A i, j \in DOMAIN toBrowser : i # j => toBrowser[i].seq # toBrowser[j].seq
          BY DEF NumberedOnce
        <5> QED BY <4>3, <5>1, <5>2
      <4>10. \A i \in DOMAIN toBrowser' : toBrowser'[i].seq # lastSeq'
        BY <3>1, <4>2, <4>4 DEF NumberedOnce
      <4> QED BY <4>5, <4>6, <4>8, <4>9, <4>10 DEF NumberedOnce
    <3> QED BY <3>1, <3>2, <3>3
  <2> QED BY <2>1, <2>2, <2>3 DEF PublishStep
<1>4. CASE BridgeForwards
  <2>1. UNCHANGED << toBrowser, lastSeq >> /\ ~HasNumber(Bridge)' /\ \A h \in Goroutine \ {Bridge} : pub'[h] = pub[h]
    BY <1>4 DEF BridgeForwards, Goroutine, HasNumber, Carried
  <2> QED BY <2>1, KeepsNumbers DEF HasNumber
<1>5. CASE BrowserBreaks \/ BrowserReconnects
  <2>1. pub' = pub /\ toBrowser' \in {toBrowser, << >>} /\ lastSeq' \in {lastSeq, 0}
    BY <1>5 DEF BrowserBreaks, BrowserReconnects
  <2>2. \A h \in Goroutine : HasNumber(h) => pub[h].seq \in 1 .. seq
    BY DEF Carried, Given
  <2>3. \A i \in DOMAIN toBrowser : toBrowser[i].seq \in 1 .. seq
    BY GivenOut
  <2>4. seq \in Nat
    BY DEF Counts
  <2> QED BY <2>1, <2>2, <2>3, <2>4 DEF NumberedOnce, HasNumber
<1>6. CASE BrowserHandles
  <2>1. toBrowser # << >> /\ pub' = pub /\ lastSeq' = Head(toBrowser).seq /\ toBrowser' = Tail(toBrowser)
    BY <1>6 DEF BrowserHandles
  <2>2. DOMAIN toBrowser = 1 .. Len(toBrowser) /\ Len(toBrowser) \in Nat \ {0} /\ Head(toBrowser) = toBrowser[1]
        /\ DOMAIN Tail(toBrowser) = 1 .. Len(toBrowser) - 1
        /\ \A i \in 1 .. Len(toBrowser) - 1 : Tail(toBrowser)[i] = toBrowser[i + 1]
    BY <2>1 DEF Buffered
  <2>3. \A i \in DOMAIN toBrowser' : i + 1 \in DOMAIN toBrowser /\ i + 1 # 1 /\ toBrowser'[i] = toBrowser[i + 1]
    BY <2>1, <2>2
  <2>4. \A i, j \in DOMAIN toBrowser' : i # j => i + 1 # j + 1
    BY <2>1, <2>2
  <2>5. 1 \in DOMAIN toBrowser /\ lastSeq' = toBrowser[1].seq
    BY <2>1, <2>2
  <2>6. \A i, j \in DOMAIN toBrowser' : i # j => toBrowser'[i].seq # toBrowser'[j].seq
    BY <2>3, <2>4 DEF NumberedOnce
  <2>7. \A i \in DOMAIN toBrowser' : toBrowser'[i].seq # lastSeq'
    BY <2>3, <2>5 DEF NumberedOnce
  <2>8. \A g \in Goroutine : HasNumber(g)' => pub'[g].seq # lastSeq' /\ \A i \in DOMAIN toBrowser' : pub'[g].seq # toBrowser'[i].seq
    BY <2>1, <2>3, <2>5 DEF NumberedOnce, HasNumber
  <2>9. \A g, h \in Goroutine : HasNumber(g)' /\ HasNumber(h)' /\ g # h => pub'[g].seq # pub'[h].seq
    BY <2>1 DEF NumberedOnce, HasNumber
  <2> QED BY <2>6, <2>7, <2>8, <2>9 DEF NumberedOnce
<1>7. CASE BridgeBreaks \/ BridgeReconnects \/ Heartbeat \/ FetchReads \/ FetchAnswered \/ ReporterHandles
  <2>1. UNCHANGED << pub, toBrowser, lastSeq >>
    BY <1>7 DEF BridgeBreaks, BridgeReconnects, Heartbeat, FetchReads, FetchAnswered, ReporterHandles
  <2> QED BY <2>1, KeepsNumbers DEF HasNumber
<1> QED BY <1>1, <1>2, <1>3, <1>4, <1>5, <1>6, <1>7 DEF EventNext

-----------------------------------------------------------------------------
\* Types.
THEOREM FlowTyped == EventSpec => []EventTypeOK
<1>1. NothingAhead => EventTypeOK
  <2> SUFFICES ASSUME NothingAhead PROVE EventTypeOK
    OBVIOUS
  <2> USE EventFlowAssumption DEF NothingAhead
  <2>1. Past \subseteq Version /\ [version : Past, seq : Given] \subseteq Event
    BY DEF Counts, Past, Given, Version, Event
  <2>2. toBridge \in Seq(Version) /\ toReporter \in Seq(Version) /\ toBrowser \in Seq(Event)
    BY <2>1, SeqMonotonic DEF Buffered
  <2>3. ui \in Version /\ fetch \in Version \cup {None, Asked} /\ reported \in Version \cup {None}
        /\ lastSeq \in Nat /\ told \in Nat
    BY <2>1 DEF Seen, Counts
  <2> QED BY <2>2, <2>3 DEF EventTypeOK, Counts, Carried, Publication
<1> QED BY <1>1, FlowInit, AheadStep, PTL DEF EventSpec

\* Whatever is dropped, reordered, fetched or republished, nobody is shown or
\* told what the row has not been, and the secretary is told of an end only when
\* the row has ended (Hub.Publish, BridgeSSEToHub, StartTaskStatusReporter).
THEOREM NothingIsAhead == EventSpec => []NothingAhead
BY FlowInit, AheadStep, PTL DEF EventSpec

\* While the secretary has not been told of the end of the row and no event of
\* it was dropped, the end is still on its way: a goroutine is about to publish
\* it, or the bridge or the reporter is about to read it.  The reporter never
\* takes the end for one it has told (StartTaskStatusReporter).
THEOREM EndIsUnderWay == EventSpec => []EndUnderWay
BY FlowInit, AheadStep, UnderWayStep, PTL DEF EventSpec

\* The hub gives a number to one event, and the browser handles none twice in a
\* row: two events with one number would look like no gap (Hub.Publish,
\* handleServerEvent).
THEOREM NumbersApart == EventSpec => []NumberedOnce
<1>1. EventInit => NumberedOnce
  BY DEF EventInit, NumberedOnce, HasNumber, Idle
<1> QED BY <1>1, FlowInit, AheadStep, NumberedStep, PTL DEF EventSpec
=============================================================================
