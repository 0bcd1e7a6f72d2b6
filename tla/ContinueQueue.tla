--------------------------- MODULE ContinueQueue ---------------------------
(***************************************************************************)
(* The queue of prompts that users send to a session while it is busy.     *)
(* Every two seconds, and once more after each preempting prompt, the      *)
(* server drains the queue: for each conversation with pending prompts it  *)
(* claims one, creates the run that continues the conversation, asks the   *)
(* daemon to start it, and marks the prompt.  Drains, users and runs       *)
(* interleave; the server may die between any two steps of a drain.        *)
(*                                                                         *)
(* Prompts are named by the order they come in (created_at).  Of the runs  *)
(* of a conversation only the latest matters: an earlier one in flight     *)
(* would hold the workdir and no other could have been created.            *)
(***************************************************************************)
EXTENDS Integers, Sequences, FiniteSets

CONSTANTS
  NItems,      \* bound on the prompts ever queued
  Conv,        \* the conversations
  DirOf,       \* the workdir of each conversation's runs
  ProjectOf,   \* the base workdir its first run was created in (worktrees)
  Loop,        \* the drain of the ticker
  Kicked,      \* drains of preempting requests that may run at a time
  User,        \* users' requests that may be under way at a time
  MaxRuns,     \* bound on the runs users create, or cancel unstarted, in a conversation
  MaxFaults    \* bound on the crashes and failed starts

Item  == 1 .. NItems
Drain == {Loop} \cup Kicked
Scope == {DirOf[c] : c \in Conv} \cup {ProjectOf[c] : c \in Conv}

ASSUME ContinueQueueAssumption ==
  /\ NItems \in Nat /\ MaxRuns \in Nat /\ MaxFaults \in Nat
  /\ Loop \notin Kicked

VARIABLES
  state,      \* session_continue_queue.state of each prompt
  conv,       \* its conversation
  prio,       \* its priority
  latest,     \* status of the latest run of each conversation
  session,    \* what is known of that run's session_id
  runs,       \* how many runs each conversation has had
  scoped,     \* conversations whose latest run has a base_workdir
  deleted,    \* deleted conversations
  dpc, todo, seen, item, scope, made, verdict,   \* the local state of each drain
  call,       \* where each user's request is: idle, create, cancel, enqueue, enqueue_first
  kicks,      \* drains that preempting requests have yet to start
  faults,     \* number of faults so far
  executed,   \* history: how often the run of each prompt was started
  ahead       \* history: prompts queued ahead of an item when it was claimed

queue     == <<state, conv, prio>>
rows      == <<latest, session, runs, scoped, deleted>>
drains    == <<dpc, todo, seen, item, scope, made, verdict>>
vars      == <<queue, rows, drains, call, kicks, faults, executed, ahead>>

ItemState == {"absent", "pending", "dispatching", "done", "failed"}
DrainPc   == {"idle", "scanning", "claiming", "reading", "creating", "starting", "marking"}
Verdict   == {"none", "pending", "done", "failed"}
NoConv    == [pc |-> "idle"]

Nothing == [s \in Scope |-> "unknown"]

(* Each conversation starts with one run, in flight or ended. *)
Init ==
  /\ state = [i \in Item |-> "absent"]
  /\ conv = [i \in Item |-> "none"]
  /\ prio = [i \in Item |-> 0]
  /\ latest \in [Conv -> {"inflight", "ended"}]
  /\ \A b, c \in Conv : b # c /\ DirOf[b] = DirOf[c] => latest[b] = "ended" \/ latest[c] = "ended"
  /\ session = [c \in Conv |-> IF latest[c] = "ended" THEN "known" ELSE "unknown"]
  /\ runs = [c \in Conv |-> 1]
  /\ scoped = Conv /\ deleted = {}
  /\ dpc = [d \in Drain |-> "idle"]
  /\ todo = [d \in Drain |-> <<>>]
  /\ seen = [d \in Drain |-> Nothing]
  /\ item = [d \in Drain |-> 0]
  /\ scope = [d \in Drain |-> "none"]
  /\ made = [d \in Drain |-> 0]
  /\ verdict = [d \in Drain |-> "none"]
  /\ call = [u \in User |-> NoConv]
  /\ kicks = 0 /\ faults = 0
  /\ executed = [i \in Item |-> 0]
  /\ ahead = [d \in Drain |-> {}]

-----------------------------------------------------------------------------
(* The rows of the tasks table. *)

ScopeOf(c)    == IF c \in scoped THEN ProjectOf[c] ELSE DirOf[c]
InFlightInOrBlocked(s) == {c \in Conv : latest[c] # "ended" /\ ScopeOf(c) = s}
InFlightIn(s) == {c \in Conv : latest[c] = "inflight" /\ ScopeOf(c) = s}
DirBusy(c)    == \E b \in Conv : DirOf[b] = DirOf[c] /\ latest[b] = "inflight"

(* createContinueTask: the new run resumes the session of the latest one    *)
(* (or, when claude has lost it, starts afresh from the history), in the    *)
(* same workdir, and carries no base_workdir.                               *)
CanContinue(c) == session[c] # "unknown"

CreateRun(c) ==
  /\ ~DirBusy(c)
  /\ latest' = [latest EXCEPT ![c] = "inflight"]
  /\ session' = [session EXCEPT ![c] = IF @ = "lost" THEN "unknown" ELSE @]
  /\ runs' = [runs EXCEPT ![c] = @ + 1]
  /\ scoped' = scoped \ {c}
  /\ UNCHANGED deleted

(* The row a request or a drain has in hand is final from now on. *)
EndRun(c, run) ==
  /\ latest' = IF runs[c] = run THEN [latest EXCEPT ![c] = "ended"] ELSE latest
  /\ UNCHANGED <<session, runs, scoped, deleted>>

(* What the runs do (RunLifecycle); one that was not started yet can only   *)
(* be canceled.                                                             *)
Unstarted(c) == \E d \in Drain : made[d] = runs[c] /\ todo[d] # <<>> /\ Head(todo[d]) = c

RunGetsSession(c) ==
  /\ latest[c] = "inflight" /\ ~Unstarted(c)
  /\ session[c] = "unknown"
  /\ session' = [session EXCEPT ![c] = "known"]
  /\ UNCHANGED <<queue, latest, runs, scoped, deleted, drains, call, kicks, faults, executed, ahead>>

RunEnds(c) ==
  /\ latest[c] = "inflight"
  /\ \/ /\ Unstarted(c) => runs[c] < MaxRuns
        /\ latest' = [latest EXCEPT ![c] = "ended"] /\ UNCHANGED session
     \/ ~Unstarted(c) /\ latest' = [latest EXCEPT ![c] = "blocked"] /\ UNCHANGED session
     \/ /\ ~Unstarted(c) /\ runs[c] > 1 /\ session[c] = "known"
        /\ latest' = [latest EXCEPT ![c] = "ended"]
        /\ session' = [session EXCEPT ![c] = "lost"]
  /\ UNCHANGED <<queue, runs, scoped, deleted, drains, call, kicks, faults, executed, ahead>>

-----------------------------------------------------------------------------
(* Users. *)

CallGoes(u, pc, c) == call' = [call EXCEPT ![u] = [pc |-> pc, conv |-> c, run |-> runs[c]]]
CallEnds(u)        == call' = [call EXCEPT ![u] = NoConv]
At(u, pc)          == call[u].pc = pc
MayCall(u, c)      == At(u, "idle") /\ c \notin deleted /\ latest[c] # "blocked"

(* ContinueSession reads the runs; it queues the prompt if one is in flight *)
(* and creates a run otherwise.                                             *)
Continue(u, c) ==
  /\ MayCall(u, c)
  /\ \/ latest[c] = "inflight" /\ CallGoes(u, "enqueue", c)
     \/ latest[c] # "inflight" /\ CanContinue(c) /\ runs[c] < MaxRuns /\ CallGoes(u, "create", c)
  /\ UNCHANGED <<queue, rows, drains, kicks, faults, executed, ahead>>

(* ResumeTask does not mind a blocked run. *)
Resume(u, c) ==
  /\ At(u, "idle") /\ c \notin deleted
  /\ session[c] = "known" /\ runs[c] < MaxRuns
  /\ CallGoes(u, "create", c)
  /\ UNCHANGED <<queue, rows, drains, kicks, faults, executed, ahead>>

(* A busy workdir makes the request an error. *)
UserCreates(u) ==
  LET c == call[u].conv IN
  /\ At(u, "create")
  /\ IF DirBusy(c) THEN UNCHANGED rows ELSE CreateRun(c)
  /\ CallEnds(u)
  /\ UNCHANGED <<queue, drains, kicks, faults, executed, ahead>>

(* PreemptContinueSession cancels the run in flight before it queues. *)
Preempt(u, c) ==
  /\ MayCall(u, c)
  /\ CallGoes(u, IF latest[c] = "inflight" THEN "cancel" ELSE "enqueue_first", c)
  /\ UNCHANGED <<queue, rows, drains, kicks, faults, executed, ahead>>

(* The daemon cancels the run, which then ends by itself; or knows no such  *)
(* run, and the row is set canceled; or cannot be reached.                  *)
PreemptCancels(u) ==
  /\ At(u, "cancel")
  /\ \/ CallGoes(u, "enqueue_first", call[u].conv) /\ UNCHANGED rows
     \/ CallGoes(u, "enqueue_first", call[u].conv) /\ EndRun(call[u].conv, call[u].run)
     \/ CallEnds(u) /\ UNCHANGED rows
  /\ UNCHANGED <<queue, drains, kicks, faults, executed, ahead>>

Enqueue(u) ==
  /\ At(u, "enqueue") \/ At(u, "enqueue_first")
  /\ \E i \in Item :
       /\ state[i] = "absent" /\ \A j \in Item : j < i => state[j] # "absent"
       /\ state' = [state EXCEPT ![i] = "pending"]
       /\ conv' = [conv EXCEPT ![i] = call[u].conv]
       /\ prio' = [prio EXCEPT ![i] = IF At(u, "enqueue_first") THEN 100 ELSE 0]
  /\ kicks' = IF At(u, "enqueue_first") THEN kicks + 1 ELSE kicks
  /\ CallEnds(u)
  /\ UNCHANGED <<rows, drains, faults, executed, ahead>>

DeleteSession(c) ==
  /\ c \notin deleted
  /\ deleted' = deleted \cup {c}
  /\ UNCHANGED <<queue, latest, session, runs, scoped, drains, call, kicks, faults, executed, ahead>>

-----------------------------------------------------------------------------
(* A drain. *)

PendingOfAny(c) == {i \in Item : conv[i] = c /\ state[i] \in {"pending", "dispatching"}}
PendingOf(c) == {i \in Item : conv[i] = c /\ state[i] = "pending"}

(* The order of a claim: priority first, then age. *)
Preferred(i, j)  == prio[i] > prio[j] \/ (prio[i] = prio[j] /\ i < j)
FirstOfByAge(P, i) == \A j \in P : i <= j
FirstOf(P, i)    == \A j \in P : i = j \/ Preferred(i, j)

(* The conversations with pending prompts, by their oldest one, but one of  *)
(* each scope before the second of any.                                     *)
Oldest(c)     == CHOOSE i \in PendingOf(c) : \A j \in PendingOf(c) : i <= j
Waiting       == {c \in Conv : PendingOf(c) # {}}
Peers(c)      == {b \in Waiting : ScopeOf(b) = ScopeOf(c)}
Round(c)      == Cardinality({b \in Peers(c) : Oldest(b) < Oldest(c)})
Lead(c)       == CHOOSE i \in {Oldest(b) : b \in Peers(c)} : \A b \in Peers(c) : i <= Oldest(b)
Before(b, c)  == Round(b) < Round(c) \/ (Round(b) = Round(c) /\ Lead(b) < Lead(c))
Conversations == [k \in 1 .. Cardinality(Waiting) |->
                    CHOOSE c \in Waiting : Cardinality({b \in Waiting : Before(b, c)}) = k - 1]

DrainAt(d, pc)   == dpc[d] = pc
DrainGoes(d, pc) == dpc' = [dpc EXCEPT ![d] = pc]

(* The ticker's drain starts by itself, any other for a preempting request. *)
DrainLists(d) ==
  /\ DrainAt(d, "idle")
  /\ IF d = Loop THEN Waiting # {} /\ UNCHANGED kicks ELSE kicks > 0 /\ kicks' = kicks - 1
  /\ todo' = [todo EXCEPT ![d] = Conversations]
  /\ DrainGoes(d, "scanning")
  /\ UNCHANGED <<queue, rows, seen, item, scope, made, verdict, call, faults, executed, ahead>>

DrainReturns(d) ==
  /\ DrainAt(d, "scanning") /\ todo[d] = <<>>
  /\ seen' = [seen EXCEPT ![d] = Nothing]
  /\ scope' = [scope EXCEPT ![d] = "none"]
  /\ DrainGoes(d, "idle")
  /\ UNCHANGED <<queue, rows, todo, item, made, verdict, call, kicks, faults, executed, ahead>>

(* The budget of a scope is one run in flight.  It is counted once.         *)
DrainScans(d) ==
  LET s == ScopeOf(Head(todo[d]))
      b == IF seen[d][s] # "unknown" THEN seen[d][s]
           ELSE IF InFlightIn(s) = {} THEN "free" ELSE "busy"
  IN
  /\ DrainAt(d, "scanning") /\ todo[d] # <<>>
  /\ seen' = [seen EXCEPT ![d][s] = b]
  /\ \/ b = "busy" /\ todo' = [todo EXCEPT ![d] = Tail(@)] /\ UNCHANGED <<dpc, scope>>
     \/ b = "free" /\ DrainGoes(d, "claiming") /\ scope' = [scope EXCEPT ![d] = s] /\ UNCHANGED todo
  /\ UNCHANGED <<queue, rows, item, made, verdict, call, kicks, faults, executed, ahead>>

(* ClaimNextSessionContinue, one transaction. *)
DrainClaims(d) ==
  LET P == PendingOf(Head(todo[d])) IN
  /\ DrainAt(d, "claiming")
  /\ \/ /\ P = {}
        /\ todo' = [todo EXCEPT ![d] = Tail(@)]
        /\ DrainGoes(d, "scanning")
        /\ UNCHANGED <<state, item, ahead>>
     \/ /\ \E i \in P :
             /\ FirstOf(P, i)
             /\ state' = [state EXCEPT ![i] = "dispatching"]
             /\ item' = [item EXCEPT ![d] = i]
             /\ ahead' = [ahead EXCEPT ![d] =
                  {j \in Item : conv[j] = conv[i] /\ state[j] \in {"pending", "dispatching"}
                                /\ Preferred(j, i)}]
        /\ DrainGoes(d, "reading")
        /\ UNCHANGED todo
  /\ UNCHANGED <<conv, prio, rows, seen, scope, made, verdict, call, kicks, faults, executed>>

DrainDecides(d, v) == verdict' = [verdict EXCEPT ![d] = v] /\ DrainGoes(d, "marking")

(* CreateContinueTaskForConversation looks at the conversation's runs: a    *)
(* blocked or in-flight one keeps the prompt pending, a deleted             *)
(* conversation or one without a session fails it.                          *)
DrainReads(d) ==
  LET c == Head(todo[d]) IN
  /\ DrainAt(d, "reading")
  /\ \/ c \in deleted /\ DrainDecides(d, "failed")
     \/ c \notin deleted /\ latest[c] # "ended" /\ DrainDecides(d, "pending")
     \/ c \notin deleted /\ latest[c] = "ended" /\ ~CanContinue(c) /\ DrainDecides(d, "failed")
     \/ c \notin deleted /\ latest[c] = "ended" /\ CanContinue(c)
        /\ DrainGoes(d, "creating") /\ UNCHANGED verdict
  /\ UNCHANGED <<queue, rows, todo, seen, item, scope, made, call, kicks, faults, executed, ahead>>

(* A busy workdir keeps the prompt pending too. *)
DrainCreates(d) ==
  LET c == Head(todo[d]) IN
  /\ DrainAt(d, "creating")
  /\ \/ /\ CreateRun(c)
        /\ made' = [made EXCEPT ![d] = runs'[c]]
        /\ DrainGoes(d, "starting")
        /\ UNCHANGED verdict
     \/ /\ DirBusy(c)
        /\ DrainDecides(d, "pending")
        /\ UNCHANGED <<rows, made>>
  /\ UNCHANGED <<queue, todo, seen, item, scope, call, kicks, faults, executed, ahead>>

Fault == faults < MaxFaults /\ faults' = faults + 1

(* The daemon starts the run; or it does not, or its answer is lost: then   *)
(* the row fails, unless it is final, and the prompt is queued again.  The  *)
(* daemon refuses a row that was canceled meanwhile.                        *)
DrainStarts(d) ==
  LET c      == Head(todo[d])
      queued == latest[c] = "inflight" /\ runs[c] = made[d]
      began  == executed' = [executed EXCEPT ![item[d]] = @ + 1]
  IN
  /\ DrainAt(d, "starting")
  /\ \/ queued /\ began /\ DrainDecides(d, "done") /\ UNCHANGED <<latest, faults>>
     \/ /\ queued /\ Fault
        /\ began \/ UNCHANGED executed
        /\ latest' = [latest EXCEPT ![c] = "ended"]
        /\ DrainDecides(d, "pending")
     \/ ~queued /\ DrainDecides(d, "pending") /\ UNCHANGED <<latest, executed, faults>>
  /\ made' = [made EXCEPT ![d] = 0]
  /\ UNCHANGED <<queue, session, runs, scoped, deleted, todo, seen, item, scope, call, kicks, ahead>>

(* Back in drainContinueQueuesOnce a dispatched prompt uses up the budget   *)
(* of the scope its conversation was counted in.                            *)
DrainMarks(d) ==
  /\ DrainAt(d, "marking")
  /\ state' = [state EXCEPT ![item[d]] = verdict[d]]
  /\ seen' = IF verdict[d] = "done" THEN [seen EXCEPT ![d][scope[d]] = "busy"] ELSE seen
  /\ item' = [item EXCEPT ![d] = 0]
  /\ verdict' = [verdict EXCEPT ![d] = "none"]
  /\ ahead' = [ahead EXCEPT ![d] = {}]
  /\ todo' = [todo EXCEPT ![d] = Tail(@)]
  /\ DrainGoes(d, "scanning")
  /\ UNCHANGED <<conv, prio, rows, scope, made, call, kicks, faults, executed>>

(* The server dies; StartBackgroundLoops of the next one puts the prompts   *)
(* that were being dispatched back.                                         *)
ServerForgets ==
  /\ dpc' = [d \in Drain |-> "idle"]
  /\ todo' = [d \in Drain |-> <<>>]
  /\ seen' = [d \in Drain |-> Nothing]
  /\ item' = [d \in Drain |-> 0]
  /\ scope' = [d \in Drain |-> "none"]
  /\ made' = [d \in Drain |-> 0]
  /\ verdict' = [d \in Drain |-> "none"]
  /\ ahead' = [d \in Drain |-> {}]
  /\ call' = [u \in User |-> NoConv]
  /\ kicks' = 0

ServerRestartsWithoutReset ==
  /\ Fault
  /\ ServerForgets
  /\ UNCHANGED <<queue, rows, executed>>

ServerRestarts ==
  /\ Fault
  /\ state' = [i \in Item |-> IF state[i] = "dispatching" THEN "pending" ELSE state[i]]
  /\ ServerForgets
  /\ UNCHANGED <<conv, prio, rows, executed>>

-----------------------------------------------------------------------------
DrainStep(d) ==
  \/ DrainReturns(d) \/ DrainScans(d) \/ DrainClaims(d) \/ DrainReads(d)
  \/ DrainCreates(d) \/ DrainStarts(d) \/ DrainMarks(d)

CallStep(u) == UserCreates(u) \/ PreemptCancels(u) \/ Enqueue(u)

Next ==
  \/ \E c \in Conv : RunGetsSession(c) \/ RunEnds(c) \/ DeleteSession(c)
  \/ \E u \in User : CallStep(u) \/ \E c \in Conv : Continue(u, c) \/ Resume(u, c) \/ Preempt(u, c)
  \/ \E d \in Drain : DrainLists(d) \/ DrainStep(d)
  \/ ServerRestarts

Spec == Init /\ [][Next]_vars

(* The ticker ticks, drains go on, and every run ends (RunLifecycle).       *)
Fairness ==
  /\ \A d \in Drain : WF_vars(DrainLists(d)) /\ WF_vars(DrainStep(d))
  /\ \A c \in Conv : WF_vars(RunEnds(c))

LiveSpec == Spec /\ Fairness

-----------------------------------------------------------------------------
(* A prompt being dispatched is in the hands of exactly one drain, so none  *)
(* is claimed twice and none is stuck, whatever drains and restarts do.     *)
DispatchingIsHeld ==
  \A i \in Item :
    /\ state[i] = "dispatching" => \E d \in Drain : item[d] = i
    /\ \A d \in Drain : item[d] = i =>
         state[i] = "dispatching" /\ \A e \in Drain : item[e] = i => e = d

(* The mark tells what became of the prompt: a prompt marked done was run,  *)
(* and without crashes and failed starts each prompt is run at most once    *)
(* and one that was run is marked done.                                     *)
MarkIsTrue ==
  \A i \in Item :
    /\ state[i] = "done" => executed[i] > 0
    /\ faults = 0 => /\ executed[i] <= 1
                     /\ executed[i] = 1 => state[i] \in {"dispatching", "done"}

(* A run is created for a prompt only when the prompts queued ahead of it   *)
(* when it was claimed are out of the way.  True of one drain at a time;    *)
(* the drain of a preempting request may overtake the ticker's.             *)
InOrder ==
  [][\A d \in Drain : DrainAt(d, "creating") /\ dpc'[d] = "starting"
       => \A j \in ahead[d] : state[j] \in {"done", "failed"}]_vars

(* "Project A should be held by budget (already has one in-flight run)"     *)
(* (the test of the budget): a drain creates no run in a project that has   *)
(* one in flight.  A continued run forgets the base workdir of its project. *)
BudgetHolds ==
  [][\A d \in Drain : DrainAt(d, "creating") /\ dpc'[d] = "starting"
       => \A b \in Conv : ProjectOf[b] = ProjectOf[Head(todo[d])] => latest[b] # "inflight"]_vars

(* Every queued prompt is run or failed in the end, unless its conversation *)
(* is blocked, which only users can change.                                 *)
PromptServed ==
  \A i \in Item :
    state[i] = "pending" ~> state[i] \in {"done", "failed"} \/ \E c \in Conv : c = conv[i] /\ latest[c] = "blocked"
=============================================================================
