----------------------------- MODULE Approvals -----------------------------
(***************************************************************************)
(* How one run and its users agree on approval requests.  In the runner    *)
(* daemon a handler stores the request, waits for a decision, a timer or   *)
(* the end of the run, and answers the CLI.  Users decide through the      *)
(* server, which asks the daemon to record and deliver the decision and    *)
(* then records it once more itself.  The request's row is the only state  *)
(* both processes see; the channel of a waiting handler lives in the       *)
(* daemon's memory.                                                        *)
(***************************************************************************)
EXTENDS Integers, FiniteSets

CONSTANTS
  Request,      \* the approval requests of one run
  Decider,      \* users' calls of DecideApproval, each for one decision
  MaxLost,      \* bound on the answers of the daemon that get lost
  MaxCrashes    \* bound on the crashes of the daemon

ASSUME ApprovalsAssumption ==
  /\ MaxLost \in Nat
  /\ MaxCrashes \in Nat

Decision == {"approved", "denied"}
RowState == {"absent", "pending", "expired"} \cup Decision

VARIABLES
  concurrent, \* codex: a handler per request; claude: one at a time
  row,        \* approval_requests.status of each request
  taskStatus, \* tasks.status of the run's row, as far as approvals write it
  handler,    \* where the handler of each request is
  outcome,    \* what ended the handler's wait
  waiters,    \* requests with an entry in Manager.approvalWaiters
  channel,    \* the one-place channel of each entry
  told,       \* what the CLI was answered
  ended,      \* is the run's context canceled
  call,       \* where each DecideApproval is
  lost,       \* number of lost answers
  crashes     \* number of crashes

run     == <<concurrent, taskStatus, handler, outcome, waiters, channel, told, ended>>
callers == <<call, lost>>
vars    == <<row, run, callers, crashes>>

HandlerPc == {"none", "created", "awaiting", "waiting", "woken", "closing", "resuming", "done"}
CallPc    == {"idle", "forwarding", "delivering", "recording", "checking", "ok", "error"}
Outcome   == {"none", "timeout", "canceled"} \cup Decision

NoCall == [pc |-> "idle"]
Call   == {NoCall} \cup [pc : CallPc \ {"idle"}, req : Request, as : Decision]

TypeOK ==
  /\ concurrent \in BOOLEAN
  /\ row \in [Request -> RowState]
  /\ taskStatus \in {"running", "awaiting_approval"}
  /\ handler \in [Request -> HandlerPc]
  /\ outcome \in [Request -> Outcome]
  /\ waiters \subseteq Request
  /\ channel \in [Request -> Decision \cup {"empty"}]
  /\ told \in [Request -> {"nothing", "approve", "deny"}]
  /\ ended \in BOOLEAN
  /\ call \in [Decider -> Call]
  /\ lost \in Nat /\ crashes \in Nat

Init ==
  /\ concurrent \in BOOLEAN
  /\ row = [r \in Request |-> "absent"]
  /\ taskStatus = "running"
  /\ handler = [r \in Request |-> "none"]
  /\ outcome = [r \in Request |-> "none"]
  /\ waiters = {}
  /\ channel = [r \in Request |-> "empty"]
  /\ told = [r \in Request |-> "nothing"]
  /\ ended = FALSE
  /\ call = [d \in Decider |-> NoCall]
  /\ lost = 0 /\ crashes = 0

(* UpdateApprovalRequestDecision writes pending rows only. *)
CanUpdateTwice(r) == row[r] # "absent"
CanUpdate(r)    == row[r] = "pending"
Update(r, s)    == CanUpdate(r) /\ row' = [row EXCEPT ![r] = s]

-----------------------------------------------------------------------------
(* The handler of a request: onClaudeCanUseTool, handleCodexServerRequest. *)

HandlerGoes(r, from, to) == handler[r] = from /\ handler' = [handler EXCEPT ![r] = to]

Active(r) == handler[r] \notin {"none", "done"}

(* The CLI asks; the handler stores the request. *)
MayAskAlways(r) == ~ended
MayAsk(r)       == ~ended /\ (concurrent \/ \A q \in Request : ~Active(q))

Ask(r) ==
  /\ MayAsk(r)
  /\ HandlerGoes(r, "none", "created")
  /\ row' = [row EXCEPT ![r] = "pending"]
  /\ UNCHANGED <<concurrent, taskStatus, outcome, waiters, channel, told, ended, callers, crashes>>

SetAwaiting(r) ==
  /\ HandlerGoes(r, "created", "awaiting")
  /\ taskStatus' = "awaiting_approval"
  /\ UNCHANGED <<concurrent, row, outcome, waiters, channel, told, ended, callers, crashes>>

(* waitForApprovalDecision registers a fresh channel, ... *)
Register(r) ==
  /\ HandlerGoes(r, "awaiting", "waiting")
  /\ waiters' = waiters \cup {r}
  /\ channel' = [channel EXCEPT ![r] = "empty"]
  /\ UNCHANGED <<concurrent, row, taskStatus, outcome, told, ended, callers, crashes>>

(* ... selects between the decision, the timer and the context, in any      *)
(* order when several are ready, ...                                        *)
WakeDecided(r) ==
  /\ HandlerGoes(r, "waiting", "woken")
  /\ \/ channel[r] # "empty" /\ outcome' = [outcome EXCEPT ![r] = channel[r]]
     \/ ended /\ outcome' = [outcome EXCEPT ![r] = "canceled"]
  /\ UNCHANGED <<concurrent, row, taskStatus, waiters, channel, told, ended, callers, crashes>>

Wake(r) ==
  /\ HandlerGoes(r, "waiting", "woken")
  /\ \/ channel[r] # "empty" /\ outcome' = [outcome EXCEPT ![r] = channel[r]]
     \/ outcome' = [outcome EXCEPT ![r] = "timeout"]
     \/ ended /\ outcome' = [outcome EXCEPT ![r] = "canceled"]
  /\ UNCHANGED <<concurrent, row, taskStatus, waiters, channel, told, ended, callers, crashes>>

(* ... and removes its entry. *)
Unregister(r) ==
  /\ HandlerGoes(r, "woken", "closing")
  /\ waiters' = waiters \ {r}
  /\ channel' = [channel EXCEPT ![r] = "empty"]
  /\ UNCHANGED <<concurrent, row, taskStatus, outcome, told, ended, callers, crashes>>

(* Without a decision the request expires, unless it is decided by now. *)
UndecidedInTime(r) == outcome[r] = "timeout"
Undecided(r)       == outcome[r] \in {"timeout", "canceled"}

ExpireWithReason(r) ==
  /\ HandlerGoes(r, "closing", "resuming")
  /\ IF Undecided(r) /\ CanUpdate(r) THEN Update(r, outcome[r]) ELSE UNCHANGED row
  /\ UNCHANGED <<concurrent, taskStatus, outcome, waiters, channel, told, ended, callers, crashes>>

Expire(r) ==
  /\ HandlerGoes(r, "closing", "resuming")
  /\ IF Undecided(r) /\ CanUpdate(r) THEN Update(r, "expired") ELSE UNCHANGED row
  /\ UNCHANGED <<concurrent, taskStatus, outcome, waiters, channel, told, ended, callers, crashes>>

(* SetRunningStatus and the answer to the CLI. *)
Resume(r) ==
  /\ HandlerGoes(r, "resuming", "done")
  /\ taskStatus' = "running"
  /\ told' = [told EXCEPT ![r] = IF outcome[r] = "approved" THEN "approve" ELSE "deny"]
  /\ UNCHANGED <<concurrent, row, outcome, waiters, channel, ended, callers, crashes>>

(* The run is canceled, or its CLI exits. *)
RunEnds ==
  /\ ~ended
  /\ ended' = TRUE
  /\ UNCHANGED <<concurrent, row, taskStatus, handler, outcome, waiters, channel, told, callers, crashes>>

-----------------------------------------------------------------------------
(* DecideApproval in the server, and the daemon's decision endpoint. *)

CallGoes(d, from, to) == /\ call[d].pc = from
                         /\ call' = [call EXCEPT ![d].pc = to]

(* The server finds the request pending and forwards the decision. *)
Decide(d, r, as) ==
  /\ call[d].pc = "idle"
  /\ row[r] = "pending"
  /\ call' = [call EXCEPT ![d] = [pc |-> "forwarding", req |-> r, as |-> as]]
  /\ UNCHANGED <<row, run, lost, crashes>>

(* The daemon records the decision, or refuses it (409). *)
DaemonRecordsAnyway(d) ==
  /\ CallGoes(d, "forwarding", "delivering")
  /\ Update(call[d].req, call[d].as) \/ UNCHANGED row
  /\ UNCHANGED <<run, lost, crashes>>

DaemonRecords(d) ==
  /\ \/ /\ CallGoes(d, "forwarding", "delivering")
        /\ Update(call[d].req, call[d].as)
     \/ /\ CallGoes(d, "forwarding", "error")
        /\ ~CanUpdate(call[d].req)
        /\ UNCHANGED row
  /\ UNCHANGED <<run, lost, crashes>>

(* SubmitApprovalDecision: no entry, no delivery; a full channel drops it. *)
DaemonDelivers(d) ==
  LET r == call[d].req IN
  /\ CallGoes(d, "delivering", "recording")
  /\ IF r \in waiters /\ channel[r] = "empty"
     THEN channel' = [channel EXCEPT ![r] = call[d].as] ELSE UNCHANGED channel
  /\ UNCHANGED <<concurrent, row, taskStatus, handler, outcome, waiters, told, ended, lost, crashes>>

(* The request or its answer is lost: the user is told of an error. *)
AnswerLost(d) ==
  /\ lost < MaxLost
  /\ lost' = lost + 1
  /\ CallGoes(d, "forwarding", "error") \/ CallGoes(d, "recording", "error")
  /\ UNCHANGED <<row, run, crashes>>

(* The server records the decision itself; a row that is decided already    *)
(* (and after the daemon's answer it always is) is fine if it says the same.*)
ServerRecords(d) ==
  LET r == call[d].req IN
  /\ \/ /\ CallGoes(d, "recording", "ok")
        /\ Update(r, call[d].as)
     \/ /\ CallGoes(d, "recording", "checking")
        /\ ~CanUpdate(r)
        /\ UNCHANGED row
  /\ UNCHANGED <<run, lost, crashes>>

ServerChecks(d) ==
  /\ CallGoes(d, "checking", IF row[call[d].req] = call[d].as THEN "ok" ELSE "error")
  /\ UNCHANGED <<row, run, lost, crashes>>

(* The daemon dies with its handlers, and with the calls it was serving. *)
DaemonCrash ==
  /\ crashes < MaxCrashes
  /\ crashes' = crashes + 1
  /\ handler' = [r \in Request |-> IF Active(r) THEN "done" ELSE handler[r]]
  /\ waiters' = {}
  /\ channel' = [r \in Request |-> "empty"]
  /\ ended' = TRUE
  /\ call' = [d \in Decider |-> IF call[d].pc \in {"forwarding", "delivering"}
                                THEN [call[d] EXCEPT !.pc = "error"] ELSE call[d]]
  /\ UNCHANGED <<concurrent, row, taskStatus, outcome, told, lost>>

-----------------------------------------------------------------------------
HandlerStep(r) ==
  SetAwaiting(r) \/ Register(r) \/ Wake(r) \/ Unregister(r) \/ Expire(r) \/ Resume(r)

CallStep(d) ==
  DaemonRecords(d) \/ DaemonDelivers(d) \/ AnswerLost(d) \/ ServerRecords(d) \/ ServerChecks(d)

Next ==
  \/ \E r \in Request : Ask(r) \/ HandlerStep(r)
  \/ \E d \in Decider : CallStep(d) \/ \E r \in Request, as \in Decision : Decide(d, r, as)
  \/ RunEnds \/ DaemonCrash

Spec == Init /\ [][Next]_vars

(* Handlers are never blocked for good: their wait has a timer.  Users need *)
(* not decide anything, nor their calls end.                                *)
Fairness == \A r \in Request : WF_vars(HandlerStep(r))

LiveSpec == Spec /\ Fairness

-----------------------------------------------------------------------------
(* The CLI is told to go ahead only with a request recorded as approved,    *)
(* whoever decides, times out, cancels, loses answers or crashes.           *)
ToldOnlyIfApproved == \A r \in Request : told[r] = "approve" => row[r] = "approved"

(* A user whose call succeeds sees the decision in the row: of two users    *)
(* who decide differently, and against the timer, at most one succeeds.     *)
OkIsRecorded == \A d \in Decider : call[d].pc = "ok" => row[call[d].req] = call[d].as

(* SubmitApprovalDecision never drops a decision for a full channel: only   *)
(* one decision per request gets as far as the channel.                     *)
ChannelNeverFull ==
  \A d \in Decider :
    call[d].pc = "delivering" => call[d].req \notin waiters \/ channel[call[d].req] = "empty"

(* No request stays pending once its handler has returned, unless the       *)
(* daemon died.                                                             *)
NoneLeftPending ==
  crashes = 0 => \A r \in Request : handler[r] = "done" => row[r] # "pending"

(* While a request of a claude run waits for a decision, the row of the     *)
(* task shows it.  Concurrent codex handlers overwrite each other's status. *)
WaitIsShown ==
  \A r \in Request :
    ~concurrent /\ handler[r] = "waiting" => taskStatus = "awaiting_approval"

(* Every request gets decided or expires, and its CLI an answer. *)
EveryAskAnswered ==
  \A r \in Request : Active(r) ~> handler[r] = "done" /\ (crashes > 0 \/ told[r] # "nothing")

(* A request whose wait timed out is expired (the test of the timeout), and *)
(* so never shows approved while the CLI is denied.  A decision recorded    *)
(* before the handler registers, or after it has woken, breaks this.        *)
TimedOutIsExpired ==
  \A r \in Request : handler[r] = "done" /\ outcome[r] = "timeout" => row[r] = "expired"
=============================================================================
