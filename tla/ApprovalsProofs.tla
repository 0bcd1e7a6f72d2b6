-------------------------- MODULE ApprovalsProofs --------------------------
(***************************************************************************)
(* Proofs about Approvals, for any number of requests and of users' calls, *)
(* lost answers and crashes of the daemon, of claude and codex alike.      *)
(***************************************************************************)
EXTENDS Approvals, TLAPS

(* The row of a request exists once its handler has stored it.             *)
RowsAsked ==
  \A r \in Request :
    /\ handler[r] = "none" => row[r] = "absent" /\ told[r] = "nothing" /\ outcome[r] = "none"
    /\ handler[r] # "none" => row[r] # "absent"

(* A decision is in the row before it is anywhere else: in the channel, in *)
(* the handler's hands, with the CLI, or past the daemon on its way back.  *)
Recorded == {"delivering", "recording", "checking", "ok"}

DecisionsRecorded ==
  /\ \A r \in Request :
       /\ channel[r] # "empty" => row[r] = channel[r]
       /\ outcome[r] \in Decision => row[r] = outcome[r]
       /\ told[r] = "approve" => row[r] = "approved"
  /\ \A d \in Decider :
       /\ call[d].pc \in Recorded => row[call[d].req] = call[d].as
       /\ call[d].pc = "forwarding" => row[call[d].req] # "absent"

(* One call per request gets as far as the channel, and finds it empty.    *)
OneDelivery ==
  \A d \in Decider : call[d].pc = "delivering" =>
    /\ channel[call[d].req] = "empty"
    /\ \A e \in Decider : call[e].pc = "delivering" /\ call[e].req = call[d].req => e = d

(* While the daemon lives, a handler that has given up waiting knows why,  *)
(* and past Expire its request is not pending.                             *)
Settled ==
  \A r \in Request :
    /\ handler[r] \in {"woken", "closing"} => outcome[r] # "none"
    /\ crashes = 0 /\ handler[r] \in {"resuming", "done"} => row[r] # "pending"

(* claude's requests are handled one at a time.                            *)
OneAtATime ==
  ~concurrent =>
    /\ \A q, r \in Request : Active(q) /\ Active(r) => q = r
    /\ \A r \in Request : handler[r] \in {"awaiting", "waiting"} => taskStatus = "awaiting_approval"

IInv == TypeOK /\ RowsAsked /\ DecisionsRecorded /\ OneDelivery /\ Settled /\ OneAtATime

-----------------------------------------------------------------------------
(* A call that is not idle has a request and a decision. *)
LEMMA Calls ==
  ASSUME TypeOK, NEW d \in Decider, call[d].pc # "idle"
  PROVE  /\ call[d].pc \in CallPc \ {"idle"} /\ call[d].req \in Request /\ call[d].as \in Decision
         /\ \A to \in CallPc \ {"idle"} :
              [call[d] EXCEPT !.pc = to] = [pc |-> to, req |-> call[d].req, as |-> call[d].as]
<1>1. call[d] \in [pc : CallPc \ {"idle"}, req : Request, as : Decision]
  BY DEF TypeOK, Call, NoCall
<1> QED BY <1>1

(* A call that goes on keeps its request and its decision. *)
LEMMA Goes ==
  ASSUME TypeOK, NEW d \in Decider, NEW from \in CallPc \ {"idle"}, NEW to \in CallPc \ {"idle"},
         CallGoes(d, from, to)
  PROVE  /\ call' \in [Decider -> Call]
         /\ call[d].pc = from /\ call[d].req \in Request /\ call[d].as \in Decision
         /\ call'[d] = [pc |-> to, req |-> call[d].req, as |-> call[d].as]
         /\ \A e \in Decider : e # d => call'[e] = call[e]
<1>1. call[d].pc = from /\ call' = [call EXCEPT ![d] = [call[d] EXCEPT !.pc = to]]
  BY DEF CallGoes
<1>2. /\ call[d].req \in Request /\ call[d].as \in Decision
      /\ [call[d] EXCEPT !.pc = to] = [pc |-> to, req |-> call[d].req, as |-> call[d].as]
  BY <1>1, Calls
<1>3. [pc |-> to, req |-> call[d].req, as |-> call[d].as] \in Call
  BY <1>2 DEF Call
<1> QED BY <1>1, <1>2, <1>3 DEF TypeOK

(* Every variable keeps its type. *)
LEMMA TypeStep == TypeOK /\ [Next]_vars => TypeOK'
<1> SUFFICES ASSUME TypeOK, [Next]_vars PROVE TypeOK'
  OBVIOUS
<1>1. ASSUME NEW r \in Request,
             \/ Ask(r) \/ SetAwaiting(r) \/ Register(r) \/ Unregister(r) \/ Expire(r) \/ Resume(r)
      PROVE  TypeOK'
  BY <1>1 DEF TypeOK, Ask, SetAwaiting, Register, Unregister, Expire, Resume, HandlerGoes, HandlerPc,
     Update, RowState, callers
<1>2. ASSUME NEW r \in Request, Wake(r) PROVE TypeOK'
  <2>1. outcome' \in [Request -> Outcome]
    BY <1>2 DEF Wake, TypeOK, Outcome
  <2> QED BY <1>2, <2>1 DEF TypeOK, Wake, HandlerGoes, HandlerPc, callers
<1>3. ASSUME NEW d \in Decider, NEW r \in Request, NEW as \in Decision, Decide(d, r, as) PROVE TypeOK'
  <2>1. [pc |-> "forwarding", req |-> r, as |-> as] \in Call
    BY DEF Call, CallPc
  <2> QED BY <1>3, <2>1 DEF TypeOK, Decide, run
<1>4. ASSUME NEW d \in Decider, DaemonRecords(d) PROVE TypeOK'
  <2>1. call' \in [Decider -> Call] /\ call[d].as \in Decision
    BY <1>4, Goes DEF DaemonRecords, CallPc
  <2> QED BY <1>4, <2>1 DEF TypeOK, DaemonRecords, Update, RowState, run
<1>5. ASSUME NEW d \in Decider, DaemonDelivers(d) PROVE TypeOK'
  <2>1. call' \in [Decider -> Call] /\ call[d].as \in Decision
    BY <1>5, Goes DEF DaemonDelivers, CallPc
  <2> QED BY <1>5, <2>1 DEF TypeOK, DaemonDelivers
<1>6. ASSUME NEW d \in Decider, AnswerLost(d) PROVE TypeOK'
  <2>1. call' \in [Decider -> Call]
    BY <1>6, Goes DEF AnswerLost, CallPc
  <2> QED BY <1>6, <2>1 DEF TypeOK, AnswerLost, run
<1>7. ASSUME NEW d \in Decider, ServerRecords(d) PROVE TypeOK'
  <2>1. call' \in [Decider -> Call] /\ call[d].as \in Decision
    BY <1>7, Goes DEF ServerRecords, CallPc
  <2> QED BY <1>7, <2>1 DEF TypeOK, ServerRecords, Update, RowState, run
<1>8. ASSUME NEW d \in Decider, ServerChecks(d) PROVE TypeOK'
  <2>1. call' \in [Decider -> Call]
    <3>1. CASE row[call[d].req] = call[d].as
      BY <1>8, <3>1, Goes DEF ServerChecks, CallPc
    <3>2. CASE row[call[d].req] # call[d].as
      BY <1>8, <3>2, Goes DEF ServerChecks, CallPc
    <3> QED BY <3>1, <3>2
  <2> QED BY <1>8, <2>1 DEF TypeOK, ServerChecks, run
<1>9. CASE RunEnds
  BY <1>9 DEF TypeOK, RunEnds, callers
<1>10. CASE DaemonCrash
  <2>1. call' \in [Decider -> Call]
    <3> SUFFICES ASSUME NEW d \in Decider, call[d].pc \in {"forwarding", "delivering"}
                 PROVE  [call[d] EXCEPT !.pc = "error"] \in Call
      BY <1>10 DEF DaemonCrash, TypeOK
    <3>1. [call[d] EXCEPT !.pc = "error"] = [pc |-> "error", req |-> call[d].req, as |-> call[d].as]
      BY Calls DEF CallPc
    <3>2. call[d].req \in Request /\ call[d].as \in Decision
      BY Calls
    <3> QED BY <3>1, <3>2 DEF CallPc, Call
  <2>2. handler' \in [Request -> HandlerPc]
    BY <1>10 DEF DaemonCrash, TypeOK, HandlerPc
  <2> QED BY <1>10, <2>1, <2>2 DEF TypeOK, DaemonCrash
<1>11. CASE UNCHANGED vars
  BY <1>11 DEF TypeOK, vars, run, callers
<1> QED
  BY <1>1, <1>2, <1>3, <1>4, <1>5, <1>6, <1>7, <1>8, <1>9, <1>10, <1>11
     DEF Next, HandlerStep, CallStep

(* What the inductive invariant adds to the types. *)
Parts == RowsAsked /\ DecisionsRecorded /\ OneDelivery /\ Settled /\ OneAtATime

LEMMA HandlerInv ==
  ASSUME IInv, NEW q \in Request, Ask(q) \/ HandlerStep(q)
  PROVE  Parts'
<1>0. \A d \in Decider : call[d].pc # "idle" => call[d].req \in Request /\ call[d].as \in Decision
  BY Calls DEF IInv
<1> USE DEF IInv, TypeOK, HandlerGoes, callers
<1>1. CASE Ask(q)
  <2>1. RowsAsked'
    BY <1>1 DEF Ask, MayAsk, RowsAsked
  <2>2. DecisionsRecorded'
    BY <1>0, <1>1 DEF Ask, MayAsk, RowsAsked, DecisionsRecorded, Recorded, Decision
  <2>3. OneDelivery'
    BY <1>1 DEF Ask, MayAsk, OneDelivery
  <2>4. Settled'
    BY <1>1 DEF Ask, MayAsk, Settled, Outcome, Decision, DecisionsRecorded
  <2>5. OneAtATime'
    BY <1>1 DEF Ask, MayAsk, OneAtATime, Active
  <2> QED BY <2>1, <2>2, <2>3, <2>4, <2>5 DEF Parts
<1>2. CASE SetAwaiting(q)
  <2>1. RowsAsked'
    BY <1>2 DEF SetAwaiting, RowsAsked
  <2>2. DecisionsRecorded'
    BY <1>2 DEF SetAwaiting, RowsAsked, DecisionsRecorded, Recorded, Decision
  <2>3. OneDelivery'
    BY <1>2 DEF SetAwaiting, OneDelivery
  <2>4. Settled'
    BY <1>2 DEF SetAwaiting, Settled, Outcome, Decision, DecisionsRecorded
  <2>5. OneAtATime'
    BY <1>2 DEF SetAwaiting, OneAtATime, Active
  <2> QED BY <2>1, <2>2, <2>3, <2>4, <2>5 DEF Parts
<1>3. CASE Register(q)
  <2>1. RowsAsked'
    BY <1>3 DEF Register, RowsAsked
  <2>2. DecisionsRecorded'
    BY <1>3 DEF Register, RowsAsked, DecisionsRecorded, Recorded, Decision
  <2>3. OneDelivery'
    BY <1>3 DEF Register, OneDelivery
  <2>4. Settled'
    BY <1>3 DEF Register, Settled, Outcome, Decision, DecisionsRecorded
  <2>5. OneAtATime'
    BY <1>3 DEF Register, OneAtATime, Active
  <2> QED BY <2>1, <2>2, <2>3, <2>4, <2>5 DEF Parts
<1>4. CASE Wake(q)
  <2>1. RowsAsked'
    BY <1>4 DEF Wake, RowsAsked
  <2>2. DecisionsRecorded'
    BY <1>4 DEF Wake, RowsAsked, DecisionsRecorded, Recorded, Decision
  <2>3. OneDelivery'
    BY <1>4 DEF Wake, OneDelivery
  <2>4. Settled'
    BY <1>4 DEF Wake, Settled, Outcome, Decision, DecisionsRecorded
  <2>5. OneAtATime'
    BY <1>4 DEF Wake, OneAtATime, Active
  <2> QED BY <2>1, <2>2, <2>3, <2>4, <2>5 DEF Parts
<1>5. CASE Unregister(q)
  <2>1. RowsAsked'
    BY <1>5 DEF Unregister, RowsAsked
  <2>2. DecisionsRecorded'
    BY <1>5 DEF Unregister, RowsAsked, DecisionsRecorded, Recorded, Decision
  <2>3. OneDelivery'
    BY <1>5 DEF Unregister, OneDelivery
  <2>4. Settled'
    BY <1>5 DEF Unregister, Settled, Outcome, Decision, DecisionsRecorded
  <2>5. OneAtATime'
    BY <1>5 DEF Unregister, OneAtATime, Active
  <2> QED BY <2>1, <2>2, <2>3, <2>4, <2>5 DEF Parts
<1>6. CASE Expire(q)
  <2>1. RowsAsked'
    BY <1>6 DEF Expire, Undecided, Update, CanUpdate, RowsAsked
  <2>2. DecisionsRecorded'
    BY <1>0, <1>6 DEF Expire, Undecided, Update, CanUpdate, RowsAsked, DecisionsRecorded, Recorded, Decision
  <2>3. OneDelivery'
    BY <1>6 DEF Expire, Undecided, Update, CanUpdate, OneDelivery
  <2>4. Settled'
    BY <1>6 DEF Expire, Undecided, Update, CanUpdate, Settled, Outcome, Decision, DecisionsRecorded
  <2>5. OneAtATime'
    BY <1>6 DEF Expire, Undecided, Update, CanUpdate, OneAtATime, Active
  <2> QED BY <2>1, <2>2, <2>3, <2>4, <2>5 DEF Parts
<1>7. CASE Resume(q)
  <2>1. RowsAsked'
    BY <1>7 DEF Resume, RowsAsked
  <2>2. DecisionsRecorded'
    BY <1>7 DEF Resume, RowsAsked, DecisionsRecorded, Recorded, Decision
  <2>3. OneDelivery'
    BY <1>7 DEF Resume, OneDelivery
  <2>4. Settled'
    BY <1>7 DEF Resume, Settled, Outcome, Decision, DecisionsRecorded
  <2>5. OneAtATime'
    BY <1>7 DEF Resume, OneAtATime, Active
  <2> QED BY <2>1, <2>2, <2>3, <2>4, <2>5 DEF Parts
<1> QED BY <1>1, <1>2, <1>3, <1>4, <1>5, <1>6, <1>7 DEF HandlerStep

LEMMA CallInv ==
  ASSUME IInv, NEW d \in Decider,
         CallStep(d) \/ \E r \in Request, as \in Decision : Decide(d, r, as)
  PROVE  Parts'
<1>0. \A e \in Decider : call[e].pc # "idle" => call[e].req \in Request /\ call[e].as \in Decision
  BY Calls DEF IInv
<1> USE DEF IInv, TypeOK
<1>1. ASSUME NEW r \in Request, NEW as \in Decision, Decide(d, r, as) PROVE Parts'
  <2>1. /\ row[r] = "pending" /\ UNCHANGED <<row, run, crashes>>
        /\ \A e \in Decider : e # d => call'[e] = call[e]
        /\ call'[d].pc = "forwarding" /\ call'[d].req = r
    BY <1>1 DEF Decide
  <2>2. DecisionsRecorded'
    BY <2>1 DEF DecisionsRecorded, Recorded, run
  <2>3. OneDelivery'
    BY <2>1 DEF OneDelivery, run
  <2> QED BY <2>1, <2>2, <2>3 DEF Parts, RowsAsked, Settled, OneAtATime, Active, run
<1>2. ASSUME DaemonRecords(d), CallGoes(d, "forwarding", "delivering"), Update(call[d].req, call[d].as)
      PROVE  Parts'
  <2> DEFINE r == call[d].req
  <2>1. /\ call[d].pc = "forwarding" /\ r \in Request /\ call[d].as \in Decision
        /\ call'[d] = [pc |-> "delivering", req |-> r, as |-> call[d].as]
        /\ \A e \in Decider : e # d => call'[e] = call[e]
    BY <1>2, Goes DEF CallPc
  <2>2. /\ row[r] = "pending" /\ row' = [row EXCEPT ![r] = call[d].as]
        /\ UNCHANGED <<run, crashes>>
    BY <1>2 DEF Update, CanUpdate, DaemonRecords
  <2>3. RowsAsked'
    BY <2>1, <2>2 DEF RowsAsked, Decision, run
  <2>4. DecisionsRecorded'
    BY <1>0, <2>1, <2>2 DEF DecisionsRecorded, Recorded, Decision, run
  <2>5. OneDelivery'
    BY <1>0, <2>1, <2>2 DEF OneDelivery, DecisionsRecorded, Recorded, Decision, run
  <2>6. Settled'
    BY <2>1, <2>2 DEF Settled, Decision, run
  <2> QED BY <2>2, <2>3, <2>4, <2>5, <2>6 DEF Parts, OneAtATime, Active, run
<1>3. ASSUME DaemonDelivers(d) PROVE Parts'
  <2> DEFINE r == call[d].req
  <2>1. /\ call[d].pc = "delivering" /\ r \in Request /\ call[d].as \in Decision
        /\ call'[d] = [pc |-> "recording", req |-> r, as |-> call[d].as]
        /\ \A e \in Decider : e # d => call'[e] = call[e]
    BY <1>3, Goes DEF DaemonDelivers, CallPc
  <2>2. row[r] = call[d].as
    BY <2>1 DEF DecisionsRecorded, Recorded
  <2>3. /\ channel' \in {channel, [channel EXCEPT ![r] = call[d].as]}
        /\ UNCHANGED <<concurrent, row, taskStatus, handler, outcome, told, crashes>>
    BY <1>3 DEF DaemonDelivers
  <2>4. DecisionsRecorded'
    BY <1>0, <2>1, <2>2, <2>3 DEF DecisionsRecorded, Recorded
  <2>5. OneDelivery'
    BY <1>0, <2>1, <2>3 DEF OneDelivery
  <2> QED BY <2>3, <2>4, <2>5 DEF Parts, RowsAsked, Settled, OneAtATime, Active
<1>4. ASSUME NEW from \in {"forwarding", "recording", "checking"}, NEW to \in {"error", "checking", "ok"},
             CallGoes(d, from, to), to = "ok" => row[call[d].req] = call[d].as,
             to = "checking" => from = "recording", UNCHANGED <<row, run, crashes>>
      PROVE  Parts'
  <2>1. /\ call[d].pc = from /\ call[d].req \in Request
        /\ call'[d] = [pc |-> to, req |-> call[d].req, as |-> call[d].as]
        /\ \A e \in Decider : e # d => call'[e] = call[e]
    BY <1>4, Goes DEF CallPc
  <2>2. DecisionsRecorded'
    BY <1>4, <2>1 DEF DecisionsRecorded, Recorded, run
  <2>3. OneDelivery'
    BY <1>4, <2>1 DEF OneDelivery, run
  <2> QED BY <1>4, <2>2, <2>3 DEF Parts, RowsAsked, Settled, OneAtATime, Active, run
<1>5. CASE DaemonRecords(d)
  <2>1. CASE CallGoes(d, "forwarding", "delivering") /\ Update(call[d].req, call[d].as)
    BY <1>2, <1>5, <2>1
  <2>2. CASE CallGoes(d, "forwarding", "error") /\ UNCHANGED row
    BY <1>4, <1>5, <2>2 DEF DaemonRecords
  <2> QED BY <1>5, <2>1, <2>2 DEF DaemonRecords
<1>6. CASE AnswerLost(d)
  BY <1>4, <1>6 DEF AnswerLost
<1>7. CASE ServerRecords(d)
  <2>1. call[d].pc = "recording"
    BY <1>7 DEF ServerRecords, CallGoes
  <2>2. row[call[d].req] = call[d].as /\ call[d].as # "pending"
    BY <1>0, <2>1 DEF DecisionsRecorded, Recorded, Decision
  <2>3. CallGoes(d, "recording", "checking") /\ UNCHANGED <<row, run, crashes>>
    BY <1>7, <2>2 DEF ServerRecords, Update, CanUpdate
  <2> QED BY <1>4, <2>3
<1>8. CASE ServerChecks(d)
  <2>1. CASE row[call[d].req] = call[d].as
    BY <1>4, <1>8, <2>1 DEF ServerChecks
  <2>2. CASE row[call[d].req] # call[d].as
    BY <1>4, <1>8, <2>2 DEF ServerChecks
  <2> QED BY <2>1, <2>2
<1> QED BY <1>1, <1>3, <1>5, <1>6, <1>7, <1>8 DEF CallStep

LEMMA CrashInv ==
  ASSUME IInv, DaemonCrash
  PROVE  Parts'
<1> USE DEF IInv, TypeOK, DaemonCrash
<1>1. \A d \in Decider : \/ call'[d] = call[d] /\ call[d].pc # "delivering"
                         \/ call'[d].pc = "error"
  <2> SUFFICES ASSUME NEW d \in Decider, call'[d] # call[d] \/ call[d].pc = "delivering"
               PROVE  call'[d].pc = "error"
    OBVIOUS
  <2>1. call[d].pc \in {"forwarding", "delivering"} /\ call'[d] = [call[d] EXCEPT !.pc = "error"]
    OBVIOUS
  <2>2. [call[d] EXCEPT !.pc = "error"] = [pc |-> "error", req |-> call[d].req, as |-> call[d].as]
    BY <2>1, Calls DEF CallPc
  <2> QED BY <2>1, <2>2
<1>2. RowsAsked'
  BY DEF RowsAsked, Active
<1>3. DecisionsRecorded'
  BY <1>1 DEF DecisionsRecorded, Recorded
<1>4. OneDelivery'
  BY <1>1 DEF OneDelivery
<1>5. Settled'
  BY DEF Settled, Active
<1>6. OneAtATime'
  BY DEF OneAtATime, Active
<1> QED BY <1>2, <1>3, <1>4, <1>5, <1>6 DEF Parts

-----------------------------------------------------------------------------
LEMMA Invariance == Spec => []IInv
<1>1. Init => IInv
  <2> SUFFICES ASSUME Init PROVE IInv
    OBVIOUS
  <2> USE DEF Init, NoCall
  <2>1. TypeOK
    BY DEF TypeOK, RowState, HandlerPc, Outcome, Decision, Call
  <2>2. RowsAsked /\ DecisionsRecorded /\ OneDelivery /\ Settled /\ OneAtATime
    BY DEF RowsAsked, DecisionsRecorded, Recorded, Decision, OneDelivery, Settled, OneAtATime, Active
  <2> QED BY <2>1, <2>2 DEF IInv
<1>2. IInv /\ [Next]_vars => IInv'
  <2> SUFFICES ASSUME IInv, [Next]_vars PROVE Parts'
    BY TypeStep DEF IInv, Parts
  <2>1. CASE RunEnds
    BY <2>1 DEF IInv, Parts, RunEnds, RowsAsked, DecisionsRecorded, OneDelivery, Settled, OneAtATime,
       Active, callers
  <2>2. CASE UNCHANGED vars
    BY <2>2 DEF IInv, Parts, RowsAsked, DecisionsRecorded, OneDelivery, Settled, OneAtATime,
       Active, vars, run, callers
  <2> QED BY HandlerInv, CallInv, CrashInv, <2>1, <2>2 DEF Next
<1> QED BY <1>1, <1>2, PTL DEF Spec

(* Every variable keeps its type. *)
THEOREM TypeCorrect == Spec => []TypeOK
BY Invariance, PTL DEF IInv

(* The CLI goes ahead only with a request recorded as approved.             *)
THEOREM ToldTruly == Spec => []ToldOnlyIfApproved
<1>1. IInv => ToldOnlyIfApproved
  BY DEF IInv, DecisionsRecorded, ToldOnlyIfApproved
<1> QED BY <1>1, Invariance, PTL

(* A user is told ok only of a decision that is in the row: of two users    *)
(* who decide one request differently, at most one is.                      *)
THEOREM OkTruly == Spec => []OkIsRecorded
<1>1. IInv => OkIsRecorded
  BY DEF IInv, DecisionsRecorded, Recorded, OkIsRecorded
<1> QED BY <1>1, Invariance, PTL

(* SubmitApprovalDecision never drops a decision for a full channel.        *)
THEOREM NeverDropped == Spec => []ChannelNeverFull
<1>1. IInv => ChannelNeverFull
  BY DEF IInv, OneDelivery, ChannelNeverFull
<1> QED BY <1>1, Invariance, PTL

(* While the daemon lives no request stays pending behind its handler.      *)
THEOREM SettledInTheEnd == Spec => []NoneLeftPending
<1>1. IInv => NoneLeftPending
  BY DEF IInv, Settled, NoneLeftPending
<1> QED BY <1>1, Invariance, PTL

(* A claude run that waits for a decision shows it in its row.              *)
THEOREM ShownWhileWaiting == Spec => []WaitIsShown
<1>1. IInv => WaitIsShown
  BY DEF IInv, OneAtATime, WaitIsShown
<1> QED BY <1>1, Invariance, PTL

-----------------------------------------------------------------------------
(* What a handler that is done, in a daemon that has not died, leaves      *)
(* behind: the CLI has its answer, by what ended the wait; a decision that *)
(* ended it is in the row; and without one the CLI is denied, whatever a   *)
(* late user has made of the row (TimedOutIsExpired is refuted by that).   *)
AnsweredByOutcome ==
  crashes = 0 =>
    \A r \in Request : handler[r] = "done" =>
      /\ outcome[r] # "none" /\ row[r] # "pending"
      /\ told[r] = IF outcome[r] = "approved" THEN "approve" ELSE "deny"
      /\ outcome[r] \in Decision => row[r] = outcome[r]

(* Before its handler is done the CLI has heard nothing.                   *)
Silent ==
  \A r \in Request :
    /\ handler[r] # "done" => told[r] = "nothing"
    /\ handler[r] = "resuming" => outcome[r] # "none"
    /\ crashes = 0 /\ handler[r] = "done" =>
         outcome[r] # "none" /\ told[r] = IF outcome[r] = "approved" THEN "approve" ELSE "deny"

LEMMA SilentStep == IInv /\ Silent /\ [Next]_vars => Silent'
<1> SUFFICES ASSUME IInv, Silent, [Next]_vars PROVE Silent'
  OBVIOUS
<1> USE DEF Silent
<1>1. ASSUME NEW q \in Request, Ask(q) \/ HandlerStep(q) PROVE Silent'
  <2> USE DEF IInv, TypeOK, HandlerGoes
  <2>1. CASE Ask(q)
    BY <2>1 DEF Ask
  <2>2. CASE SetAwaiting(q)
    BY <2>2 DEF SetAwaiting
  <2>3. CASE Register(q)
    BY <2>3 DEF Register
  <2>4. CASE Wake(q)
    BY <2>4 DEF Wake
  <2>5. CASE Unregister(q)
    BY <2>5 DEF Unregister
  <2>6. CASE Expire(q)
    BY <2>6 DEF Expire, Settled
  <2>7. CASE Resume(q)
    BY <2>7 DEF Resume
  <2> QED BY <1>1, <2>1, <2>2, <2>3, <2>4, <2>5, <2>6, <2>7 DEF HandlerStep
<1>2. ASSUME NEW d \in Decider, CallStep(d) \/ \E r \in Request, as \in Decision : Decide(d, r, as)
      PROVE Silent'
  BY <1>2 DEF CallStep, DaemonRecords, DaemonDelivers, AnswerLost, ServerRecords, ServerChecks, Decide, run
<1>3. CASE RunEnds
  BY <1>3 DEF RunEnds
<1>4. CASE DaemonCrash
  BY <1>4 DEF DaemonCrash, Active, IInv, TypeOK
<1>5. CASE UNCHANGED vars
  BY <1>5 DEF vars, run
<1> QED BY <1>1, <1>2, <1>3, <1>4, <1>5 DEF Next

(* While the daemon lives, whoever's request is over has been answered by   *)
(* what ended its wait, the safety half of EveryAskAnswered                 *)
(* (waitForApprovalDecision, onClaudeCanUseTool, handleCodexServerRequest). *)
THEOREM AnsweredTruly == Spec => []AnsweredByOutcome
<1>1. Init => Silent
  BY DEF Init, Silent
<1>2. IInv /\ Silent => AnsweredByOutcome
  BY DEF IInv, Silent, Settled, DecisionsRecorded, AnsweredByOutcome
<1> QED BY <1>1, <1>2, SilentStep, Invariance, PTL DEF Spec

(* The CLI is answered once, whoever decides, times out, cancels or crashes *)
(* meanwhile, and an answer is never taken back.                            *)
THEOREM AnsweredOnce == Spec => [][\A r \in Request : told[r] # "nothing" => told'[r] = told[r]]_vars
<1> DEFINE Kept == \A r \in Request : told[r] # "nothing" => told'[r] = told[r]
<1>1. IInv /\ Silent /\ [Next]_vars => [Kept]_vars
  <2> SUFFICES ASSUME IInv, Silent, Next PROVE Kept
    OBVIOUS
  <2>1. CASE \E q \in Request : Resume(q)
    BY <2>1 DEF Resume, HandlerGoes, Silent, IInv, TypeOK
  <2>2. CASE UNCHANGED told
    BY <2>2
  <2>3. (\E q \in Request : Resume(q)) \/ UNCHANGED told
    BY DEF Next, HandlerStep, CallStep, Ask, SetAwaiting, Register, Wake, Unregister, Expire,
       DaemonRecords, DaemonDelivers, AnswerLost, ServerRecords, ServerChecks, Decide, RunEnds, DaemonCrash, run
  <2> QED BY <2>1, <2>2, <2>3
<1>2. Init => Silent
  BY DEF Init, Silent
<1> QED BY <1>1, <1>2, SilentStep, Invariance, PTL DEF Spec
=============================================================================
