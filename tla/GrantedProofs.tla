--------------------------- MODULE GrantedProofs ---------------------------
(***************************************************************************)
(* Proofs about what a conversation starts by itself.  Mission: any number *)
(* of callers of the plan's loop, confirmers, revisions, runs and lost     *)
(* writes; the limit of a plan for one call at a time, as TLC shows it not *)
(* to hold of two.  RunSafety: either driver, any number of callers, runs  *)
(* and decisions, and any language model.                                  *)
(***************************************************************************)
EXTENDS Granted, TLAPS, FiniteSetTheorems


\* What a caller holds of a run was asked for by somebody, and nobody enters
\* unsafe before there is a way back and a decision that saw it.
SeenBack(r) == r \in proofs /\ \E d \in decisions : d.of = r /\ d.risk.reversible

CallersGranted == \A c \in Client :
  /\ client[c].safety = "unguarded" => asked # {}
  /\ client[c].at = "decide" => client[c].of \in proofs
  /\ client[c].at = "enter" => SeenBack(client[c].of)

\* A decision on an unsafe entry.
Closed(risk) == risk.level = "high" /\ risk.decision # "allow" /\ (~risk.reversible => risk.decision = "deny")

RInv == SafetyTypeOK /\ CallersGranted /\ UnsafeIsGranted /\ RiskFailsClosed

-----------------------------------------------------------------------------
(* The verdicts of the risk evaluator.                                     *)

\* Where a level and a verdict rank.
LEMMA Ranks ==
  /\ Rank(Levels, "low") = 1 /\ Rank(Levels, "medium") = 2 /\ Rank(Levels, "high") = 3
  /\ Rank(Verdicts, "allow") = 1 /\ Rank(Verdicts, "review") = 2 /\ Rank(Verdicts, "deny") = 3
<1>1. DOMAIN Levels = {1, 2, 3} /\ Levels[1] = "low" /\ Levels[2] = "medium" /\ Levels[3] = "high"
  BY DEF Levels
<1>2. DOMAIN Verdicts = {1, 2, 3} /\ Verdicts[1] = "allow" /\ Verdicts[2] = "review" /\ Verdicts[3] = "deny"
  BY DEF Verdicts
<1> HIDE DEF Levels, Verdicts
<1> QED BY <1>1, <1>2 DEF Rank

\* The worse of two levels is high if one is; a denial stays a denial, and
\* nothing that is not just allowed becomes so.
LEMMA WorseOf ==
  /\ \A l \in {"low", "medium", "high"} : Worse(Levels, "high", l) = "high"
  /\ \A v, w \in {"allow", "review", "deny"} :
       /\ Worse(Verdicts, v, w) \in {"allow", "review", "deny"}
       /\ v # "allow" => Worse(Verdicts, v, w) # "allow"
       /\ v = "deny" \/ w = "deny" => Worse(Verdicts, v, w) = "deny"
BY Ranks DEF Worse

\* Whatever the model says, the merged verdict fails closed (mergeRiskVerdict).
LEMMA MergedCloses ==
  ASSUME NEW proven \in BOOLEAN, NEW llm \in Risk
  PROVE  Merged(Deterministic(proven), llm) \in Risk /\ Closed(Merged(Deterministic(proven), llm))
<1> DEFINE det == Deterministic(proven)
           reversible == det.reversible /\ llm.reversible
           least == IF ~reversible THEN "deny" ELSE "review"
           verdict == Worse(Verdicts, Worse(Verdicts, det.decision, llm.decision), least)
<1>1. /\ det.level = "high" /\ det.reversible \in BOOLEAN /\ det.decision \in {"review", "deny"}
      /\ llm.level \in {"low", "medium", "high"} /\ llm.decision \in {"allow", "review", "deny"} /\ llm.reversible \in BOOLEAN
  BY DEF Deterministic, Risk
<1>2. Worse(Levels, det.level, llm.level) = "high"
  BY <1>1, WorseOf
<1>3. Merged(det, llm) = [level |-> "high", reversible |-> reversible, decision |-> verdict]
  BY <1>2 DEF Merged
<1>4. verdict \in {"review", "deny"} /\ (~reversible => verdict = "deny")
  BY <1>1, WorseOf
<1> HIDE DEF det, verdict
<1> QED BY <1>1, <1>3, <1>4 DEF Risk, Closed, det

-----------------------------------------------------------------------------
\* Nothing is chosen unguarded unless it was asked for or unlocked (ApplyAutopilot).
LEMMA AutopilotGrants ==
  ASSUME NEW safety \in Safety, NEW unlock \in BOOLEAN, NEW intent \in Intent
  PROVE  /\ Autopilot(safety, unlock, intent) \in Safety
         /\ Autopilot(safety, unlock, intent) = "unguarded" => safety = "unguarded" \/ unlock
BY DEF Autopilot, Safety

\* A new run of a conversation.
LEMMA Added ==
  ASSUME RInv, NEW safety \in Safety, NEW wish \in Wish, NEW by \in {"request", "enter"}, NEW of \in Nat,
         Add(safety, wish, by, of)
  PROVE  /\ conversation' \in Seq(Run) /\ asked' \subseteq Wish /\ asked \subseteq asked'
         /\ wish # "nothing" => asked' # {}
         /\ \A r \in DOMAIN conversation' :
              \/ r \in DOMAIN conversation /\ conversation'[r] = conversation[r]
              \/ conversation'[r].safety = safety /\ conversation'[r].by = by /\ conversation'[r].of = of
<1> DEFINE run == [status |-> IF Ongoing = {} THEN "running" ELSE "waiting",
                   safety |-> safety, wish |-> wish, by |-> by, of |-> of]
<1>1. run \in Run /\ run.safety = safety /\ run.by = by /\ run.of = of
  BY DEF Run, OngoingStatus
<1>2. conversation \in Seq(Run) /\ conversation' = Append(conversation, run) /\ asked' = asked \cup ({wish} \ {"nothing"})
  BY DEF Add, RInv, SafetyTypeOK
<1> HIDE DEF run
<1>3. /\ conversation' \in Seq(Run) /\ DOMAIN conversation' = 1 .. Len(conversation) + 1
      /\ conversation'[Len(conversation) + 1] = run
      /\ \A r \in 1 .. Len(conversation) : conversation'[r] = conversation[r]
  BY <1>1, <1>2
<1> QED BY <1>1, <1>2, <1>3 DEF RInv, SafetyTypeOK

-----------------------------------------------------------------------------
Callers == [Client -> [at : {"idle", "create", "restore", "decide", "enter"}, safety : Safety, of : Nat]]

\* What a caller may hold, and how a run may have come about, after a step.
MayHold(c) == /\ client[c].safety = "unguarded" => asked # {}
              /\ client[c].at = "decide" => client[c].of \in proofs
              /\ client[c].at = "enter" => SeenBack(client[c].of)
MayBe(r) == /\ conversation[r].safety = "unguarded" => asked # {}
            /\ conversation[r].by = "enter" => SeenBack(conversation[r].of)

\* What was asked for, proved and decided stays: a step need only account for
\* the callers and the runs it changes.
LEMMA Accounts ==
  ASSUME RInv, SafetyTypeOK', asked \subseteq asked', proofs \subseteq proofs', decisions \subseteq decisions',
         \A d \in decisions' : d \in decisions \/ Closed(d.risk),
         \A c \in Client : client'[c] = client[c] \/ MayHold(c)',
         \A r \in DOMAIN conversation' :
           \/ /\ r \in DOMAIN conversation /\ conversation'[r].safety = conversation[r].safety
              /\ conversation'[r].by = conversation[r].by /\ conversation'[r].of = conversation[r].of
           \/ MayBe(r)'
  PROVE  RInv'
<1>1. ASSUME NEW r, SeenBack(r) PROVE SeenBack(r)'
  BY <1>1 DEF SeenBack
<1>2. CallersGranted'
  BY <1>1 DEF RInv, CallersGranted, MayHold
<1>3. ASSUME NEW r \in DOMAIN conversation' PROVE MayBe(r)'
  BY <1>1, <1>3 DEF RInv, UnsafeIsGranted, RiskFailsClosed, SeenBack, MayBe
<1>4. \A d \in decisions' : Closed(d.risk)
  BY DEF RInv, RiskFailsClosed, Closed
<1> QED BY <1>2, <1>3, <1>4 DEF RInv, UnsafeIsGranted, RiskFailsClosed, MayBe, SeenBack, Closed

\* A caller that goes elsewhere.
LEMMA Caller ==
  ASSUME SafetyTypeOK, NEW c \in Client, NEW to \in [at : {"idle", "create", "restore", "decide", "enter"}, safety : Safety, of : Nat],
         client' = [client EXCEPT ![c] = to]
  PROVE  client' \in Callers /\ client'[c] = to /\ \A b \in Client : b # c => client'[b] = client[b]
BY DEF SafetyTypeOK, Callers

LEMMA RunStep == ASSUME RInv, NEW r \in DOMAIN conversation, RunGoesOn(r) PROVE RInv'
<1>1. conversation \in Seq(Run) /\ conversation[r] \in Run
  BY DEF RInv, SafetyTypeOK
<1>2. PICK status \in {"over", "blocked", "running"} : conversation' = [conversation EXCEPT ![r].status = status]
  BY DEF RunGoesOn
<1>3. [conversation[r] EXCEPT !.status = status] \in Run
  BY <1>1 DEF Run, OngoingStatus
<1>4. conversation' \in Seq(Run) /\ DOMAIN conversation' = DOMAIN conversation
  BY <1>1, <1>2, <1>3
<1>5. \A q \in DOMAIN conversation : /\ conversation'[q].safety = conversation[q].safety
                                    /\ conversation'[q].by = conversation[q].by
                                    /\ conversation'[q].of = conversation[q].of
  BY <1>1, <1>2 DEF Run
<1> QED BY <1>4, <1>5, Accounts DEF RunGoesOn, RInv, SafetyTypeOK

\* A run that a request asks for, by itself or on top of what a caller holds.
LEMMA RequestedRun ==
  ASSUME RInv, NEW body \in Request, NEW intent \in Intent, NEW safety \in Safety,
         safety = "unguarded" => body.safety = "unguarded" \/ asked # {},
         Add(Autopilot(safety, body.unlock, intent), WishOf(body), "request", 0),
         UNCHANGED << proofs, decisions >>,
         client' \in Callers, \A c \in Client : client'[c] \in {client[c], Quiet}
  PROVE  RInv'
<1>1. /\ body.unlock \in BOOLEAN /\ body.safety \in Safety /\ WishOf(body) \in Wish
      /\ body.safety = "unguarded" \/ body.unlock => WishOf(body) # "nothing"
  <2>1. Plain.safety = "none" /\ ~Plain.unlock /\ Plain.unlock \in BOOLEAN
    BY DEF Plain
  <2>2. LET p == [Plain EXCEPT !.unlock = TRUE] IN p.safety = "none" /\ p.unlock /\ p.unlock \in BOOLEAN
    BY DEF Plain
  <2>3. LET p == [Plain EXCEPT !.explicit = TRUE] IN p.safety = "none" /\ ~p.unlock /\ p.unlock \in BOOLEAN
    BY DEF Plain
  <2>4. body.unlock \in BOOLEAN /\ (body.safety = "none" \/ (body.safety \in {"guarded", "unguarded"} /\ ~body.unlock))
    <3>1. CASE body \in {Plain, [Plain EXCEPT !.unlock = TRUE], [Plain EXCEPT !.explicit = TRUE]}
      BY <2>1, <2>2, <2>3, <3>1
    <3>2. CASE body = [explicit |-> TRUE, safety |-> "guarded", unlock |-> FALSE]
      BY <3>2
    <3>3. CASE body = [explicit |-> TRUE, safety |-> "unguarded", unlock |-> FALSE]
      BY <3>3
    <3> QED BY <3>1, <3>2, <3>3 DEF Request
  <2> QED BY <2>4 DEF Safety, WishOf, Wish
<1> DEFINE chosen == Autopilot(safety, body.unlock, intent)
<1>2. chosen \in Safety /\ (chosen = "unguarded" => safety = "unguarded" \/ body.unlock)
  BY <1>1, AutopilotGrants
<1> HIDE DEF chosen
<1>3. /\ conversation' \in Seq(Run) /\ asked' \subseteq Wish /\ asked \subseteq asked'
      /\ WishOf(body) # "nothing" => asked' # {}
      /\ \A r \in DOMAIN conversation' :
           \/ r \in DOMAIN conversation /\ conversation'[r] = conversation[r]
           \/ conversation'[r].safety = chosen /\ conversation'[r].by = "request" /\ conversation'[r].of = 0
  BY <1>1, <1>2, Added DEF chosen
<1>4. chosen = "unguarded" => asked' # {}
  BY <1>1, <1>2, <1>3
<1>5. SafetyTypeOK'
  BY <1>3 DEF RInv, SafetyTypeOK, Callers
<1>6. \A c \in Client : client'[c] = client[c] \/ MayHold(c)'
  BY DEF MayHold, Quiet
<1>7. ASSUME NEW r \in DOMAIN conversation', conversation'[r].safety = chosen, conversation'[r].by = "request"
      PROVE  MayBe(r)'
  BY <1>4, <1>7 DEF MayBe
<1> QED BY <1>3, <1>5, <1>6, <1>7, Accounts

\* The requests that become a run.
LEMMA FirstStep ==
  ASSUME RInv, NEW body \in Request, NEW intent \in Intent, FirstRun(body, intent)
  PROVE  RInv'
<1>1. body.safety \in Safety /\ UNCHANGED << client, proofs, decisions >>
      /\ Add(Autopilot(body.safety, body.unlock, intent), WishOf(body), "request", 0)
  BY DEF FirstRun, Request, Plain, Safety
<1>2. client' \in Callers
  BY <1>1 DEF RInv, SafetyTypeOK, Callers
<1> QED BY <1>1, <1>2, RequestedRun

LEMMA CreateStep ==
  ASSUME RInv, NEW c \in Client, NEW body \in Request, NEW intent \in Intent, Creates(c, body, intent)
  PROVE  RInv'
<1>1. client[c] \in [at : {"idle", "create", "restore", "decide", "enter"}, safety : Safety, of : Nat]
  BY DEF RInv, SafetyTypeOK
<1>2. Quiet \in [at : {"idle", "create", "restore", "decide", "enter"}, safety : Safety, of : Nat]
  BY DEF Quiet, Safety
<1>3. client' \in Callers /\ client'[c] = Quiet /\ \A b \in Client : b # c => client'[b] = client[b]
  BY <1>2, Caller DEF Creates, RInv
<1> DEFINE safety == Inherited(body, client[c].safety)
<1>4. safety \in Safety /\ (safety = "unguarded" => body.safety = "unguarded" \/ asked # {})
  <2>1. body.safety \in Safety
    BY DEF Request, Plain, Safety
  <2> QED BY <1>1, <2>1 DEF Inherited, RInv, CallersGranted
<1>5. CASE Add(Autopilot(safety, body.unlock, intent), WishOf(body), "request", 0)
  <2> HIDE DEF safety
  <2>1. UNCHANGED << proofs, decisions >>
    BY DEF Creates
  <2> QED BY <1>3, <1>4, <1>5, <2>1, RequestedRun
<1>6. CASE UNCHANGED << conversation, asked >>
  <2>1. UNCHANGED << conversation, asked, proofs, decisions >>
    BY <1>6 DEF Creates
  <2>2. SafetyTypeOK'
    BY <1>3, <2>1 DEF RInv, SafetyTypeOK, Callers
  <2>3. MayHold(c)'
    BY <1>3 DEF MayHold, Quiet
  <2> QED BY <1>3, <2>1, <2>2, <2>3, Accounts
<1> QED BY <1>5, <1>6 DEF Creates

\* A caller reads a run: its options were asked for.
LEMMA HoldStep ==
  ASSUME RInv, NEW c \in Client, NEW to \in {"create", "restore"}, NEW r \in DOMAIN conversation, Holds(c, to, r),
         UNCHANGED << conversation, proofs, decisions, asked >>
  PROVE  RInv'
<1>1. conversation[r] \in Run /\ r \in Nat
  BY DEF RInv, SafetyTypeOK
<1> DEFINE held == [at |-> to, safety |-> conversation[r].safety, of |-> r]
<1>2. held \in [at : {"idle", "create", "restore", "decide", "enter"}, safety : Safety, of : Nat]
  BY <1>1 DEF Run
<1>3. client' \in Callers /\ client'[c] = held /\ \A b \in Client : b # c => client'[b] = client[b]
  BY <1>2, Caller DEF Holds, RInv
<1>4. MayHold(c)'
  BY <1>3 DEF MayHold, RInv, UnsafeIsGranted
<1>5. SafetyTypeOK'
  BY <1>3 DEF RInv, SafetyTypeOK, Callers
<1> QED BY <1>3, <1>4, <1>5, Accounts

LEMMA ReadStep ==
  ASSUME RInv, NEW c \in Client,
         ContinueSession(c) \/ \E r \in DOMAIN conversation : ResumeTask(c, r) \/ RehydrateTask(c, r) \/ EnterBegins(c, r)
  PROVE  RInv'
<1>1. CASE ContinueSession(c)
  <2>1. conversation \in Seq(Run) /\ conversation # << >>
    BY <1>1 DEF ContinueSession, RInv, SafetyTypeOK
  <2>2. Len(conversation) \in DOMAIN conversation
    BY <2>1
  <2> QED BY <1>1, <2>2, HoldStep DEF ContinueSession
<1>2. ASSUME NEW r \in DOMAIN conversation, ResumeTask(c, r) \/ RehydrateTask(c, r) \/ EnterBegins(c, r)
      PROVE  RInv'
  BY <1>2, HoldStep DEF ResumeTask, RehydrateTask, EnterBegins
<1> QED BY <1>1, <1>2

\* The restore point, before the decision.
LEMMA RestoreStep == ASSUME RInv, NEW c \in Client, RestorePoint(c) PROVE RInv'
<1> DEFINE to == [client[c] EXCEPT !.at = "decide"]
<1>1. client[c] \in [at : {"idle", "create", "restore", "decide", "enter"}, safety : Safety, of : Nat]
  BY DEF RInv, SafetyTypeOK
<1>2. /\ to \in [at : {"idle", "create", "restore", "decide", "enter"}, safety : Safety, of : Nat]
      /\ to.at = "decide" /\ to.safety = client[c].safety /\ to.of = client[c].of
  BY <1>1
<1>3. client' = [client EXCEPT ![c] = to]
  BY DEF RestorePoint
<1> HIDE DEF to
<1>4. client' \in Callers /\ client'[c] = to /\ \A b \in Client : b # c => client'[b] = client[b]
  BY <1>2, <1>3, Caller DEF RInv
<1>5. proofs' = proofs \cup {client[c].of} /\ UNCHANGED << conversation, decisions, asked >>
  BY DEF RestorePoint
<1>6. MayHold(c)'
  BY <1>2, <1>4, <1>5 DEF MayHold, RInv, CallersGranted
<1>7. SafetyTypeOK'
  BY <1>1, <1>4, <1>5 DEF RInv, SafetyTypeOK, Callers
<1> QED BY <1>4, <1>5, <1>6, <1>7, Accounts

\* The decision: whatever the model says, it fails closed.
LEMMA EvaluateStep == ASSUME RInv, NEW c \in Client, EvaluateRisk(c) PROVE RInv'
<1>1. client[c] \in [at : {"idle", "create", "restore", "decide", "enter"}, safety : Safety, of : Nat]
      /\ client[c].of \in proofs /\ client[c].of \in Nat
  BY DEF RInv, SafetyTypeOK, CallersGranted, EvaluateRisk
<1> DEFINE det == Deterministic(client[c].of \in proofs)
<1>2. PICK risk \in {det} \cup {Merged(det, llm) : llm \in Risk} :
        /\ decisions' = decisions \cup {[of |-> client[c].of, risk |-> risk]}
        /\ client' = [client EXCEPT ![c] = IF risk.level = "high" /\ ~risk.reversible THEN Quiet ELSE [@ EXCEPT !.at = "enter"]]
  BY DEF EvaluateRisk
<1>3. risk \in Risk /\ Closed(risk)
  <2>1. det = Deterministic(TRUE)
    BY <1>1
  <2>2. det \in Risk /\ Closed(det)
    BY <2>1 DEF Deterministic, Risk, Closed
  <2>3. \A llm \in Risk : Merged(det, llm) \in Risk /\ Closed(Merged(det, llm))
    BY <2>1, MergedCloses
  <2> HIDE DEF det
  <2> QED BY <1>2, <2>2, <2>3
<1> DEFINE to == IF risk.reversible THEN [client[c] EXCEPT !.at = "enter"] ELSE Quiet
<1>4. client' = [client EXCEPT ![c] = to]
  BY <1>2, <1>3 DEF Closed, Risk
<1>5. /\ to \in [at : {"idle", "create", "restore", "decide", "enter"}, safety : Safety, of : Nat]
      /\ to.at # "decide" /\ to.safety \in {"none", client[c].safety}
      /\ to.at = "enter" => risk.reversible /\ to.of = client[c].of
  BY <1>1 DEF Quiet, Safety
<1> HIDE DEF to
<1>6. client' \in Callers /\ client'[c] = to /\ \A b \in Client : b # c => client'[b] = client[b]
  BY <1>4, <1>5, Caller DEF RInv
<1>7. UNCHANGED << conversation, proofs, asked >>
  BY DEF EvaluateRisk
<1> DEFINE decision == [of |-> client[c].of, risk |-> risk]
<1>8. decision \in [of : Nat, risk : Risk] /\ decision.of = client[c].of /\ decision.risk = risk /\ decisions' = decisions \cup {decision}
  BY <1>1, <1>2, <1>3
<1> HIDE DEF decision
<1>9. MayHold(c)'
  BY <1>1, <1>5, <1>6, <1>7, <1>8 DEF MayHold, SeenBack, RInv, CallersGranted
<1>10. SafetyTypeOK'
  BY <1>6, <1>7, <1>8 DEF RInv, SafetyTypeOK, Callers
<1> QED BY <1>3, <1>6, <1>7, <1>8, <1>9, <1>10, Accounts

\* The unsafe run, after both.
LEMMA EnterStep == ASSUME RInv, NEW c \in Client, EnterCreates(c) PROVE RInv'
<1>1. client[c].of \in Nat /\ SeenBack(client[c].of)
  BY DEF RInv, SafetyTypeOK, CallersGranted, EnterCreates
<1>2. Quiet \in [at : {"idle", "create", "restore", "decide", "enter"}, safety : Safety, of : Nat]
  BY DEF Quiet, Safety
<1>3. client' \in Callers /\ client'[c] = Quiet /\ \A b \in Client : b # c => client'[b] = client[b]
  BY <1>2, Caller DEF EnterCreates, RInv
<1>4. /\ conversation' \in Seq(Run) /\ asked' \subseteq Wish /\ asked \subseteq asked' /\ asked' # {}
      /\ \A r \in DOMAIN conversation' :
           \/ r \in DOMAIN conversation /\ conversation'[r] = conversation[r]
           \/ conversation'[r].of = client[c].of
  BY <1>1, Added DEF EnterCreates, Safety, Wish
<1>5. UNCHANGED << proofs, decisions >>
  BY DEF EnterCreates
<1>6. ASSUME NEW r \in DOMAIN conversation', conversation'[r].of = client[c].of
      PROVE  MayBe(r)'
  BY <1>1, <1>4, <1>5, <1>6 DEF MayBe, SeenBack
<1>7. SafetyTypeOK'
  BY <1>3, <1>4, <1>5 DEF RInv, SafetyTypeOK, Callers
<1>8. MayHold(c)'
  BY <1>3 DEF MayHold, Quiet
<1> QED BY <1>3, <1>4, <1>5, <1>6, <1>7, <1>8, Accounts

-----------------------------------------------------------------------------
LEMMA RInvInit == SafetyInit => RInv
BY DEF SafetyInit, RInv, SafetyTypeOK, CallersGranted, UnsafeIsGranted, RiskFailsClosed, Quiet, Safety, Run

LEMMA RInvStep == RInv /\ [SafetyNext]_safetyVars => RInv'
<1> SUFFICES ASSUME RInv, [SafetyNext]_safetyVars PROVE RInv'
  OBVIOUS
<1>1. ASSUME NEW c \in Client, ClientStep(c) PROVE RInv'
  BY <1>1, CreateStep, ReadStep, RestoreStep, EvaluateStep, EnterStep DEF ClientStep
<1>2. CASE UNCHANGED safetyVars
  BY <1>2 DEF safetyVars, RInv, SafetyTypeOK, CallersGranted, SeenBack, UnsafeIsGranted, RiskFailsClosed
<1> QED BY <1>1, <1>2, RunStep, FirstStep DEF SafetyNext

\* However runs are continued, resumed, rehydrated and entered at the same time
\* (taskops/service.go), and whatever the model classifies: a run without a
\* sandbox has been asked for, and an unsafe entry fails closed.
THEOREM SafetyKept == SafetySpec => []SafetySound
<1>1. RInv => SafetySound
  BY DEF RInv, SafetySound
<1> QED BY <1>1, RInvInit, RInvStep, PTL DEF SafetySpec
-----------------------------------------------------------------------------
(* The plan's loop (Mission): what a call is, and how it moves.            *)

LoopState == [at : {"idle", "admit", "ensure", "choose", "continue", "create", "persist"}, of : Nat,
              limit : Nat, budget : Nat, plan : PlanRow, queued : BOOLEAN]
PlanRun == [status : {"in flight", "over", "blocked"}, by : {"others", "loop"}, of : Nat, number : Nat, limit : Nat]
Histories == [lost : Nat, planned : Nat]

\* A call that has started a run and not yet written the plan's row.
Owes(me) == me.at = "persist" /\ ~me.queued
Planning == {"ensure", "choose", "continue", "create"}

\* A call that is admitted may start a run: were its budget 0, the count down
\* of LoopPersists would never end.
Call(me) ==
  /\ me \in LoopState /\ (me.queued => me.at = "persist")
  /\ me.at \in Planning \/ Owes(me) => me.budget >= 1

MissionShape == MissionTypeOK /\ \A l \in PlanLoop : Call(loop[l])

LEMMA Moves ==
  ASSUME MissionShape, NEW l \in PlanLoop, NEW next, Call(next), LoopGoes(l, next)
  PROVE  /\ loop' \in [PlanLoop -> LoopState] /\ loop'[l] = next
         /\ \A m \in PlanLoop : m # l => loop'[m] = loop[m]
         /\ \A m \in PlanLoop : Call(loop[m])'
<1>1. loop \in [PlanLoop -> LoopState] /\ next \in LoopState
  BY DEF MissionShape, MissionTypeOK, LoopState, Call
<1>2. loop' \in [PlanLoop -> LoopState] /\ loop'[l] = next /\ \A m \in PlanLoop : m # l => loop'[m] = loop[m]
  BY <1>1 DEF LoopGoes
<1> QED BY <1>2 DEF MissionShape, Call, Owes

LEMMA RestingCalls == Call(Resting) /\ Resting.at = "idle" /\ ~Resting.queued
BY DEF Call, Resting, LoopState, PlanRow, Owes, Planning

\* A run is added at the end of the conversation.
LEMMA NewRunAdds ==
  ASSUME runs \in Seq(PlanRun), NEW by \in {"others", "loop"}, NEW of \in Nat, NEW number \in Nat, NEW limit \in Nat,
         NewRun(by, of, number, limit)
  PROVE  /\ runs' \in Seq(PlanRun) /\ Len(runs') = Len(runs) + 1
         /\ DOMAIN runs' = DOMAIN runs \cup {Len(runs) + 1} /\ Len(runs) + 1 \notin DOMAIN runs
         /\ \A r \in DOMAIN runs : runs'[r] = runs[r]
         /\ LET added == runs'[Len(runs) + 1] IN
            added.by = by /\ added.of = of /\ added.number = number /\ added.limit = limit
<1> DEFINE new == [status |-> "in flight", by |-> by, of |-> of, number |-> number, limit |-> limit]
<1>1. new \in PlanRun
  BY DEF PlanRun
<1>2. runs' = Append(runs, new)
  BY DEF NewRun
<1>3. \A x \in PlanRun : runs' = Append(runs, x) =>
        /\ runs' \in Seq(PlanRun) /\ Len(runs') = Len(runs) + 1
        /\ DOMAIN runs' = DOMAIN runs \cup {Len(runs) + 1} /\ Len(runs) + 1 \notin DOMAIN runs
        /\ (\A r \in DOMAIN runs : runs'[r] = runs[r]) /\ runs'[Len(runs) + 1] = x
  OBVIOUS
<1>4. new.by = by /\ new.of = of /\ new.number = number /\ new.limit = limit
  OBVIOUS
<1> HIDE DEF new
<1>5. runs'[Len(runs) + 1] = new
  BY <1>1, <1>2, <1>3
<1> QED BY <1>1, <1>2, <1>3, <1>4, <1>5

\* The runs of one revision are finitely many.
LEMMA PlanRunsFinite ==
  ASSUME runs \in Seq(PlanRun), NEW revision
  PROVE  IsFiniteSet(PlanRuns(revision)) /\ Cardinality(PlanRuns(revision)) \in Nat
<1>1. DOMAIN runs = 1 .. Len(runs) /\ Len(runs) \in Nat
  OBVIOUS
<1>2. IsFiniteSet(1 .. Len(runs))
  BY <1>1, FS_Interval
<1>3. PlanRuns(revision) \subseteq 1 .. Len(runs)
  BY <1>1 DEF PlanRuns
<1> QED BY <1>2, <1>3, FS_Subset, FS_CardinalityType

-----------------------------------------------------------------------------
(* Where each step of a call leads it.                                     *)

LEMMA BeginsShape ==
  ASSUME MissionShape, NEW l \in PlanLoop, LoopBegins(l)
  PROVE  \E next : /\ LoopGoes(l, next) /\ Call(next) /\ next.at = "admit" /\ next.of = contract.revision /\ ~next.queued
<1> DEFINE next == [Resting EXCEPT !.at = "admit", !.of = contract.revision]
<1>1. contract.revision \in Nat
  BY DEF MissionShape, MissionTypeOK
<1>2. Call(next) /\ next.at = "admit" /\ next.of = contract.revision /\ ~next.queued
  BY <1>1 DEF Call, Resting, LoopState, PlanRow, Owes, Planning
<1>3. LoopGoes(l, next)
  BY DEF LoopBegins
<1> QED BY <1>2, <1>3

LEMMA AdmittedShape ==
  ASSUME MissionShape, NEW l \in PlanLoop,
         NEW total \in 1 .. MaxTotal, NEW perCall \in 1 .. MaxPerCall, LoopAdmitted(l, total, perCall)
  PROVE  \E next :
           /\ LoopGoes(l, next) /\ Call(next)
           /\ \/ next = Resting
              \/ /\ MissionConfirmed(loop[l].of) /\ next.at = "ensure" /\ ~next.queued
                 /\ next.of = loop[l].of /\ next.plan = plan
<1> DEFINE me == loop[l]
           budget == IF policy = "graded" THEN 1 ELSE perCall
           limit == IF policy = "graded" /\ total > GradedTotal THEN GradedTotal ELSE total
           next == [me EXCEPT !.at = "ensure", !.plan = plan, !.budget = budget, !.limit = limit]
<1>1. me \in LoopState /\ me.at = "admit" /\ ~me.queued /\ plan \in PlanRow
  BY DEF MissionShape, MissionTypeOK, Call, LoopAdmitted
<1>2. budget \in Nat /\ budget >= 1 /\ limit \in Nat
  BY MissionAssumption
<1> HIDE DEF budget, limit
<1>3. Call(next) /\ next.at = "ensure" /\ ~next.queued /\ next.of = me.of /\ next.plan = plan
  BY <1>1, <1>2 DEF Call, LoopState, Owes, Planning
<1>4. CASE MissionConfirmed(me.of)
  <2>1. LoopGoes(l, next)
    BY <1>4 DEF LoopAdmitted, budget, limit
  <2> QED BY <2>1, <1>3, <1>4
<1>5. CASE ~MissionConfirmed(me.of)
  <2>1. LoopGoes(l, Resting)
    BY <1>5 DEF LoopAdmitted
  <2> QED BY <2>1, RestingCalls
<1> QED BY <1>4, <1>5

\* The row is kept, or is a new one of the revision, and some of the limit is
\* left.
LEMMA EnsuresShape ==
  ASSUME MissionShape, NEW l \in PlanLoop, LoopEnsures(l)
  PROVE  \E row \in PlanRow : \E next :
           /\ row.revision = loop[l].of
           /\ \/ row = loop[l].plan /\ plan' = plan
              \/ loop[l].plan.revision # loop[l].of /\ row = [revision |-> loop[l].of, iteration |-> 0] /\ plan' = row
           /\ LoopGoes(l, next) /\ Call(next)
           /\ \/ next = Resting
              \/ /\ next.at = "choose" /\ ~next.queued /\ next.of = loop[l].of /\ next.plan = row
                 /\ row.iteration + next.budget <= next.limit
<1> DEFINE me == loop[l]
           row == IF me.plan.revision = me.of THEN me.plan ELSE [revision |-> me.of, iteration |-> 0]
           remains == me.limit - row.iteration
           budget == IF remains < me.budget THEN remains ELSE me.budget
           next == [me EXCEPT !.at = "choose", !.plan = row, !.budget = budget]
<1>1. me \in LoopState /\ me.at = "ensure" /\ ~me.queued /\ me.budget >= 1
  BY DEF MissionShape, Call, LoopEnsures, Planning
<1>2. /\ row \in PlanRow /\ row.revision = me.of /\ row.iteration \in Nat
      /\ \/ row = me.plan /\ plan' = plan
         \/ me.plan.revision # me.of /\ row = [revision |-> me.of, iteration |-> 0] /\ plan' = row
  BY <1>1 DEF LoopEnsures, LoopState, PlanRow
<1>3. /\ row.iteration >= me.limit => LoopGoes(l, Resting)
      /\ ~(row.iteration >= me.limit) => LoopGoes(l, next)
  BY DEF LoopEnsures, LoopGoes
<1> HIDE DEF row
<1>4. CASE row.iteration >= me.limit
  BY <1>2, <1>3, <1>4, RestingCalls
<1>5. CASE ~(row.iteration >= me.limit)
  <2>1. budget \in Nat /\ budget >= 1 /\ row.iteration + budget <= me.limit
    BY <1>1, <1>2, <1>5 DEF LoopState
  <2>3. LoopGoes(l, next)
    BY <1>3, <1>5, Zenon
  <2> HIDE DEF budget
  <2>2. Call(next) /\ next.at = "choose" /\ ~next.queued /\ next.of = me.of /\ next.plan = row /\ next.budget = budget /\ next.limit = me.limit
    BY <1>1, <1>2, <2>1 DEF Call, LoopState, Owes, Planning
  <2> QED BY <1>2, <2>1, <2>2, <2>3
<1> QED BY <1>4, <1>5

LEMMA ChoosesShape ==
  ASSUME MissionShape, NEW l \in PlanLoop, LoopChooses(l)
  PROVE  \E next :
           /\ LoopGoes(l, next) /\ Call(next)
           /\ \/ next = Resting /\ plan' \in {plan, loop[l].plan}
              \/ /\ NextAction = "run" /\ next.at = "continue" /\ ~next.queued /\ plan' = plan
                 /\ next = [loop[l] EXCEPT !.at = "continue"]
<1> DEFINE me == loop[l]
           next == [me EXCEPT !.at = "continue"]
<1>1. me \in LoopState /\ me.at = "choose" /\ ~me.queued /\ me.budget >= 1
  BY DEF MissionShape, Call, LoopChooses, Planning
<1>2. Call(next) /\ next.at = "continue" /\ ~next.queued
  BY <1>1 DEF Call, LoopState, Owes, Planning
<1>3. CASE NextAction = "run"
  <2>1. LoopGoes(l, next) /\ plan' = plan
    BY <1>3 DEF LoopChooses
  <2> QED BY <2>1, <1>2, <1>3
<1>4. CASE NextAction # "run"
  <2>1. LoopGoes(l, Resting) /\ plan' \in {plan, me.plan}
    BY <1>4 DEF LoopChooses
  <2> QED BY <2>1, RestingCalls
<1> QED BY <1>3, <1>4

LEMMA ContinuesShape ==
  ASSUME MissionShape, NEW l \in PlanLoop, LoopContinues(l)
  PROVE  \E next :
           /\ LoopGoes(l, next) /\ Call(next)
           /\ \/ next = Resting
              \/ next = [loop[l] EXCEPT !.at = "persist", !.queued = TRUE]
              \/ next = [loop[l] EXCEPT !.at = "create"]
<1> DEFINE me == loop[l]
           queued == [me EXCEPT !.at = "persist", !.queued = TRUE]
           creating == [me EXCEPT !.at = "create"]
<1>1. me \in LoopState /\ me.at = "continue" /\ ~me.queued /\ me.budget >= 1
  BY DEF MissionShape, Call, LoopContinues, Planning
<1>2. Call(queued) /\ Call(creating)
  BY <1>1 DEF Call, LoopState, Owes, Planning
<1>3. LoopGoes(l, Resting) \/ LoopGoes(l, queued) \/ LoopGoes(l, creating)
  BY DEF LoopContinues, LoopGoes
<1> QED BY <1>2, <1>3, RestingCalls

\* A run is the next of its revision, and its call notes it in memory.
LEMMA CreatesShape ==
  ASSUME MissionShape, NEW l \in PlanLoop, LoopCreates(l)
  PROVE  \E next :
           /\ LoopGoes(l, next) /\ Call(next)
           /\ \/ next = Resting /\ UNCHANGED <<runs, history>>
              \/ /\ NewRun("loop", loop[l].of, Cardinality(PlanRuns(loop[l].of)) + 1, loop[l].limit)
                 /\ next.at = "persist" /\ ~next.queued /\ next.of = loop[l].of /\ next.limit = loop[l].limit
                 /\ next.budget = loop[l].budget /\ next.plan = [loop[l].plan EXCEPT !.iteration = @ + 1]
                 /\ history' = [history EXCEPT !.planned = @ + (IF MissionConfirmed(contract.revision) THEN 0 ELSE 1)]
<1> DEFINE me == loop[l]
           next == [me EXCEPT !.at = "persist", !.plan.iteration = @ + 1]
<1>1. me \in LoopState /\ me.at = "create" /\ ~me.queued /\ me.budget >= 1
  BY DEF MissionShape, Call, LoopCreates, Planning
<1>2. /\ Call(next) /\ next.at = "persist" /\ ~next.queued /\ next.of = me.of /\ next.limit = me.limit
      /\ next.budget = me.budget /\ next.plan = [me.plan EXCEPT !.iteration = @ + 1]
  <2>1. [me.plan EXCEPT !.iteration = @ + 1] \in PlanRow
    BY <1>1 DEF LoopState, PlanRow
  <2>2. /\ next.at = "persist" /\ next.of = me.of /\ next.limit = me.limit /\ next.budget = me.budget
        /\ next.queued = me.queued /\ next.plan = [me.plan EXCEPT !.iteration = @ + 1]
    BY <1>1 DEF LoopState
  <2>3. next \in LoopState
    BY <1>1, <2>1 DEF LoopState
  <2> HIDE DEF next
  <2> QED BY <1>1, <2>2, <2>3 DEF Call, Owes, Planning
<1>3. \/ LoopGoes(l, Resting) /\ UNCHANGED <<runs, history>>
      \/ /\ LoopGoes(l, next) /\ NewRun("loop", me.of, Cardinality(PlanRuns(me.of)) + 1, me.limit)
         /\ history' = [history EXCEPT !.planned = @ + (IF MissionConfirmed(contract.revision) THEN 0 ELSE 1)]
  BY DEF LoopCreates
<1> HIDE DEF next
<1> QED BY <1>2, <1>3, RestingCalls

LEMMA PersistsShape ==
  ASSUME MissionShape, NEW l \in PlanLoop, LoopPersists(l)
  PROVE  \E next :
           /\ LoopGoes(l, next) /\ Call(next)
           /\ \/ /\ next = Resting /\ plan' = plan /\ history' = [history EXCEPT !.lost = @ + 1]
              \/ /\ plan' = loop[l].plan /\ history' = history
                 /\ \/ next = Resting
                    \/ /\ Owes(loop[l]) /\ next.at = "choose" /\ ~next.queued /\ next.of = loop[l].of
                       /\ next.plan = loop[l].plan /\ next.limit = loop[l].limit /\ next.budget = loop[l].budget - 1
<1> DEFINE me == loop[l]
           next == [me EXCEPT !.at = "choose", !.budget = @ - 1]
           ends == me.queued \/ me.budget = 1
<1>1. me \in LoopState /\ me.at = "persist" /\ (~me.queued => me.budget >= 1)
  BY DEF MissionShape, Call, LoopPersists, Owes
<1>2. ~ends => /\ Call(next) /\ next.at = "choose" /\ ~next.queued /\ next.of = me.of
               /\ next.plan = me.plan /\ next.limit = me.limit /\ next.budget = me.budget - 1 /\ Owes(me)
  <2> SUFFICES ASSUME ~ends
               PROVE  /\ Call(next) /\ next.at = "choose" /\ ~next.queued /\ next.of = me.of
                      /\ next.plan = me.plan /\ next.limit = me.limit /\ next.budget = me.budget - 1 /\ Owes(me)
    OBVIOUS
  <2>1. me.budget \in Nat /\ me.budget - 1 \in Nat /\ me.budget - 1 >= 1 /\ ~me.queued
    BY <1>1 DEF LoopState
  <2>2. /\ next.at = "choose" /\ next.of = me.of /\ next.limit = me.limit /\ next.budget = me.budget - 1
        /\ next.queued = me.queued /\ next.plan = me.plan /\ next \in LoopState
    BY <1>1, <2>1 DEF LoopState
  <2> HIDE DEF next
  <2> QED BY <1>1, <2>1, <2>2 DEF Call, Owes, Planning
<1>3. \/ LoopGoes(l, Resting) /\ plan' = plan /\ history' = [history EXCEPT !.lost = @ + 1]
      \/ plan' = me.plan /\ history' = history /\ ends /\ LoopGoes(l, Resting)
      \/ plan' = me.plan /\ history' = history /\ ~ends /\ LoopGoes(l, next)
  <2>1. CASE plan' = me.plan /\ UNCHANGED history /\ LoopGoes(l, IF me.queued \/ me.budget = 1 THEN Resting ELSE next)
    <3>1. CASE ends
      BY <2>1, <3>1 DEF LoopGoes
    <3>2. CASE ~ends
      BY <2>1, <3>2 DEF LoopGoes
    <3> QED BY <3>1, <3>2
  <2> QED BY <2>1 DEF LoopPersists
<1> HIDE DEF next, ends
<1> QED BY <1>2, <1>3, RestingCalls

-----------------------------------------------------------------------------
(* The shape of the state.                                                 *)

LEMMA ShapeParts ==
  MissionTypeOK <=>
    /\ runs \in Seq(PlanRun) /\ workspace \in BOOLEAN /\ contract \in [revision : Nat, confirmed : Nat]
    /\ policy \in {"graded", "max"} /\ plan \in PlanRow /\ loop \in [PlanLoop -> LoopState]
    /\ confirming \in [Confirmer -> Nat] /\ history \in Histories
BY DEF MissionTypeOK, PlanRun, LoopState, Histories

LEMMA ShapeInit == MissionInit => MissionShape
<1> SUFFICES ASSUME MissionInit PROVE MissionShape
  OBVIOUS
<1>1. Resting \in LoopState
  BY RestingCalls DEF Call
<1>2. MissionTypeOK
  <2>1. runs \in Seq(PlanRun) /\ workspace \in BOOLEAN /\ contract \in [revision : Nat, confirmed : Nat]
    <3>1. << >> \in Seq(PlanRun) /\ [revision |-> 0, confirmed |-> 0] \in [revision : Nat, confirmed : Nat]
      OBVIOUS
    <3>2. runs = << >> /\ workspace = FALSE /\ contract = [revision |-> 0, confirmed |-> 0]
      BY DEF MissionInit
    <3> QED BY <3>1, <3>2
  <2>2. policy \in {"graded", "max"} /\ plan \in PlanRow /\ history \in Histories
    BY DEF MissionInit, PlanRow, Histories
  <2>3. loop \in [PlanLoop -> LoopState] /\ confirming \in [Confirmer -> Nat]
    BY <1>1 DEF MissionInit
  <2> QED BY <2>1, <2>2, <2>3, ShapeParts
<1>3. \A l \in PlanLoop : loop[l] = Resting
  BY DEF MissionInit
<1> QED BY <1>2, <1>3, RestingCalls DEF MissionShape

\* A step of a call leads it to a call, and leaves the row a row.
LEMMA LoopShape ==
  ASSUME MissionShape, NEW l \in PlanLoop, LoopStep(l)
  PROVE  MissionShape'
<1>1. loop[l] \in LoopState /\ loop[l].plan \in PlanRow /\ loop[l].of \in Nat /\ loop[l].limit \in Nat
  BY DEF MissionShape, Call, LoopState
<1>2. \E next : LoopGoes(l, next) /\ Call(next)
  <2>1. ASSUME NEW total \in 1 .. MaxTotal, NEW perCall \in 1 .. MaxPerCall, LoopAdmitted(l, total, perCall)
        PROVE  \E next : LoopGoes(l, next) /\ Call(next)
    BY <2>1, AdmittedShape, Zenon
  <2>2. CASE LoopBegins(l)
    BY <2>2, BeginsShape, Zenon
  <2>3. CASE LoopEnsures(l)
    BY <2>3, EnsuresShape, Zenon
  <2>4. CASE LoopChooses(l)
    BY <2>4, ChoosesShape, Zenon
  <2>5. CASE LoopContinues(l)
    BY <2>5, ContinuesShape, Zenon
  <2>6. CASE LoopCreates(l)
    BY <2>6, CreatesShape, Zenon
  <2>7. CASE LoopPersists(l)
    BY <2>7, PersistsShape, Zenon
  <2> QED BY <2>1, <2>2, <2>3, <2>4, <2>5, <2>6, <2>7 DEF LoopStep
<1>3. loop' \in [PlanLoop -> LoopState] /\ \A m \in PlanLoop : Call(loop[m])'
  BY <1>2, Moves
<1>4. plan' \in PlanRow /\ runs' \in Seq(PlanRun) /\ history' \in Histories
  <2>1. plan \in PlanRow /\ runs \in Seq(PlanRun) /\ history \in Histories
    BY ShapeParts DEF MissionShape
  <2>2. CASE LoopEnsures(l)
    <3>1. UNCHANGED <<runs, history>>
      BY <2>2 DEF LoopEnsures
    <3> QED BY <2>1, <2>2, <3>1, EnsuresShape
  <2>3. CASE LoopChooses(l)
    <3>1. UNCHANGED <<runs, history>> /\ (plan' = plan \/ plan' = loop[l].plan)
      BY <2>3 DEF LoopChooses
    <3> QED BY <1>1, <2>1, <3>1
  <2>4. CASE LoopCreates(l)
    <3>1. UNCHANGED plan
      BY <2>4 DEF LoopCreates
    <3>2. history' \in Histories
      BY <2>1, <2>4 DEF LoopCreates, Histories
    <3>3. Cardinality(PlanRuns(loop[l].of)) + 1 \in Nat
      BY <2>1, PlanRunsFinite
    <3>4. UNCHANGED runs \/ NewRun("loop", loop[l].of, Cardinality(PlanRuns(loop[l].of)) + 1, loop[l].limit)
      BY <2>4 DEF LoopCreates
    <3> QED BY <1>1, <2>1, <3>1, <3>2, <3>3, <3>4, NewRunAdds
  <2>5. CASE LoopPersists(l)
    <3>1. UNCHANGED runs /\ (plan' = plan \/ plan' = loop[l].plan)
      BY <2>5 DEF LoopPersists
    <3>2. history' \in Histories
      BY <2>1, <2>5 DEF LoopPersists, Histories
    <3> QED BY <1>1, <2>1, <3>1, <3>2
  <2>6. CASE LoopBegins(l) \/ LoopContinues(l) \/ \E total \in 1 .. MaxTotal, perCall \in 1 .. MaxPerCall : LoopAdmitted(l, total, perCall)
    BY <2>1, <2>6 DEF LoopBegins, LoopContinues, LoopAdmitted
  <2> QED BY <2>2, <2>3, <2>4, <2>5, <2>6 DEF LoopStep
<1>5. UNCHANGED <<workspace, contract, policy, confirming>>
  BY DEF LoopStep, LoopBegins, LoopAdmitted, LoopEnsures, LoopChooses, LoopContinues, LoopCreates, LoopPersists
<1>6. MissionTypeOK'
  BY <1>3, <1>4, <1>5, ShapeParts DEF MissionShape, MissionTypeOK, LoopState, PlanRun, Histories
<1> QED BY <1>3, <1>6 DEF MissionShape

LEMMA ShapeStep == MissionShape /\ [MissionNext]_missionVars => MissionShape'
<1> SUFFICES ASSUME MissionShape, [MissionNext]_missionVars PROVE MissionShape'
  OBVIOUS
<1>1. /\ runs \in Seq(PlanRun) /\ workspace \in BOOLEAN /\ contract \in [revision : Nat, confirmed : Nat]
      /\ policy \in {"graded", "max"} /\ plan \in PlanRow /\ loop \in [PlanLoop -> LoopState]
      /\ confirming \in [Confirmer -> Nat] /\ history \in Histories
  BY ShapeParts DEF MissionShape
<1>2. ASSUME UNCHANGED loop, runs' \in Seq(PlanRun), workspace' \in BOOLEAN, contract' \in [revision : Nat, confirmed : Nat],
             policy' \in {"graded", "max"}, UNCHANGED plan, confirming' \in [Confirmer -> Nat], history' \in Histories
      PROVE  MissionShape'
  <2>1. MissionTypeOK'
    BY <1>1, <1>2 DEF MissionTypeOK, LoopState, PlanRun, Histories
  <2> QED BY <1>2, <2>1 DEF MissionShape, Call, Owes
<1>3. CASE UpsertMissionContract
  <2>1. contract' \in [revision : Nat, confirmed : Nat] /\ history' \in Histories
    <3>1. contract' = [contract EXCEPT !.revision = contract.revision + 1] /\ contract.revision + 1 \in Nat
      BY <1>1, <1>3 DEF UpsertMissionContract
    <3>2. history' = [history EXCEPT !.planned = 0]
      BY <1>3 DEF UpsertMissionContract, Touched
    <3>3. history' \in Histories
      BY <1>1, <3>2 DEF Histories
    <3> QED BY <1>1, <3>1, <3>3
  <2> QED BY <1>1, <1>2, <1>3, <2>1 DEF UpsertMissionContract
<1>4. CASE UpsertProjectAutonomyPolicy
  BY <1>1, <1>2, <1>4 DEF UpsertProjectAutonomyPolicy
<1>5. CASE OthersRun \/ ExecuteNextAction
  <2>1. NewRun("others", 0, 0, 0) /\ UNCHANGED <<workspace, contract, policy, plan, loop, confirming, history>>
    BY <1>5 DEF OthersRun, ExecuteNextAction
  <2>2. runs' \in Seq(PlanRun)
    BY <1>1, <2>1, NewRunAdds
  <2> QED BY <1>1, <1>2, <2>1, <2>2
<1>6. CASE MergeWorkspace
  BY <1>1, <1>2, <1>6 DEF MergeWorkspace
<1>7. ASSUME NEW c \in Confirmer, ConfirmMissionContract(c) PROVE MissionShape'
  <2>1. contract' \in [revision : Nat, confirmed : Nat] /\ history' \in Histories /\ confirming' \in [Confirmer -> Nat]
    <3>1. contract.revision \in Nat /\ confirming[c] \in Nat
      BY <1>1
    <3>2. contract' = contract \/ contract' = [contract EXCEPT !.confirmed = confirming[c]]
      BY <1>7 DEF ConfirmMissionContract
    <3>3. history' = history \/ history' = [history EXCEPT !.planned = 0]
      BY <1>7 DEF ConfirmMissionContract, Touched
    <3>4. confirming' = [confirming EXCEPT ![c] = contract.revision] \/ confirming' = [confirming EXCEPT ![c] = 0]
      BY <1>7 DEF ConfirmMissionContract
    <3>5. history' \in Histories
      BY <1>1, <3>3 DEF Histories
    <3>6. contract' \in [revision : Nat, confirmed : Nat]
      BY <1>1, <3>1, <3>2
    <3>7. confirming' \in [Confirmer -> Nat]
      <4>1. \A n \in Nat : [confirming EXCEPT ![c] = n] \in [Confirmer -> Nat]
        BY <1>1
      <4> QED BY <3>1, <3>4, <4>1
    <3> QED BY <3>5, <3>6, <3>7
  <2> QED BY <1>1, <1>2, <1>7, <2>1 DEF ConfirmMissionContract
<1>8. ASSUME NEW r \in DOMAIN runs, RunEnds(r) PROVE MissionShape'
  <2>1. PICK status \in {"over", "blocked"} : runs' = [runs EXCEPT ![r].status = status]
    BY <1>8 DEF RunEnds
  <2>2. runs' = [runs EXCEPT ![r] = [runs[r] EXCEPT !.status = status]]
    BY <1>1, <2>1
  <2>3. runs[r] \in PlanRun /\ [runs[r] EXCEPT !.status = status] \in PlanRun
    <3>1. runs[r] \in PlanRun
      BY <1>1
    <3>2. \A run \in PlanRun : [run EXCEPT !.status = status] \in PlanRun
      BY DEF PlanRun
    <3> QED BY <3>1, <3>2
  <2>4. runs' \in Seq(PlanRun)
    BY <1>1, <2>2, <2>3
  <2> QED BY <1>1, <1>2, <1>8, <2>4 DEF RunEnds
<1>9. ASSUME NEW l \in PlanLoop, LoopStep(l) PROVE MissionShape'
  BY <1>9, LoopShape
<1>10. CASE UNCHANGED missionVars
  BY <1>1, <1>2, <1>10 DEF missionVars
<1> QED BY <1>3, <1>4, <1>5, <1>6, <1>7, <1>8, <1>9, <1>10 DEF MissionNext

-----------------------------------------------------------------------------
(* A contract that is revised stops the loop.                              *)

\* Callers that will start a run whatever becomes of the contract, unless the
\* store refuses it.
AtRun == {"continue", "create"}
Committed == {l \in PlanLoop : loop[l].at \in AtRun}

\* RevisionStops counts what was started since the contract was touched: with
\* those that are committed, no more than there are callers; and while the
\* contract is confirmed nothing counts.
StopsSoon ==
  /\ \A l \in PlanLoop : loop[l].at # "idle" => contract.revision > 0
  /\ IF MissionConfirmed(contract.revision) THEN history.planned = 0
     ELSE history.planned + Cardinality(Committed) <= Cardinality(PlanLoop)

StopInv == MissionShape /\ StopsSoon

LEMMA CommittedFew ==
  ASSUME IsFiniteSet(PlanLoop)
  PROVE  /\ IsFiniteSet(Committed) /\ Cardinality(PlanLoop) \in Nat /\ Cardinality(Committed) \in Nat
         /\ Cardinality(Committed) <= Cardinality(PlanLoop)
<1>1. Committed \subseteq PlanLoop
  BY DEF Committed
<1> QED BY <1>1, FS_Subset, FS_CardinalityType

\* Nothing is committed anew, or while the contract is confirmed.
LEMMA StopKept ==
  ASSUME StopInv, IsFiniteSet(PlanLoop), MissionShape', UNCHANGED contract, UNCHANGED history,
         Committed' \subseteq Committed \/ MissionConfirmed(contract.revision),
         \A l \in PlanLoop : loop'[l].at # "idle" => contract.revision > 0
  PROVE  StopInv'
<1>1. MissionConfirmed(contract.revision)' <=> MissionConfirmed(contract.revision)
  BY DEF MissionConfirmed
<1>2. CASE MissionConfirmed(contract.revision)
  BY <1>1, <1>2 DEF StopInv, StopsSoon
<1>3. CASE ~MissionConfirmed(contract.revision)
  <2>1. history.planned \in Nat
    BY DEF StopInv, MissionShape, MissionTypeOK
  <2>2. IsFiniteSet(Committed) /\ Cardinality(Committed) \in Nat /\ Cardinality(PlanLoop) \in Nat
    BY CommittedFew
  <2>3. Cardinality(Committed)' \in Nat /\ Cardinality(Committed)' <= Cardinality(Committed)
    BY <1>3, <2>2, FS_Subset, FS_CardinalityType
  <2>4. history.planned + Cardinality(Committed) <= Cardinality(PlanLoop)
    BY <1>3 DEF StopInv, StopsSoon
  <2>5. history'.planned + Cardinality(Committed)' <= Cardinality(PlanLoop)
    BY <2>1, <2>2, <2>3, <2>4
  <2> QED BY <1>1, <1>3, <2>5 DEF StopInv, StopsSoon
<1> QED BY <1>2, <1>3

\* The contract is touched.
LEMMA StopTouched ==
  ASSUME StopInv, IsFiniteSet(PlanLoop), MissionShape', UNCHANGED loop, Touched,
         contract.revision > 0 => contract'.revision > 0
  PROVE  StopInv'
<1>1. history'.planned = 0
  BY DEF Touched, StopInv, MissionShape, MissionTypeOK
<1>2. Committed' = Committed
  BY DEF Committed
<1>3. Cardinality(Committed)' \in Nat /\ Cardinality(PlanLoop) \in Nat /\ Cardinality(Committed)' <= Cardinality(PlanLoop)
  BY <1>2, CommittedFew
<1>4. \A l \in PlanLoop : loop'[l].at # "idle" => contract'.revision > 0
  BY DEF StopInv, StopsSoon
<1>5. history'.planned + Cardinality(Committed)' <= Cardinality(PlanLoop)
  BY <1>1, <1>3
<1> QED BY <1>1, <1>4, <1>5 DEF StopInv, StopsSoon

LEMMA StopInit == MissionInit /\ IsFiniteSet(PlanLoop) => StopInv
<1> SUFFICES ASSUME MissionInit, IsFiniteSet(PlanLoop) PROVE StopInv
  OBVIOUS
<1>1. history.planned = 0 /\ ~MissionConfirmed(contract.revision) /\ \A l \in PlanLoop : loop[l].at = "idle"
  BY DEF MissionInit, Resting, MissionConfirmed
<1>2. Cardinality(Committed) \in Nat /\ Cardinality(PlanLoop) \in Nat /\ Cardinality(Committed) <= Cardinality(PlanLoop)
  BY CommittedFew
<1> QED BY <1>1, <1>2, ShapeInit DEF StopInv, StopsSoon

\* A call that asks and finds the contract confirmed, or had asked before.
LEMMA StopLoop ==
  ASSUME StopInv, IsFiniteSet(PlanLoop), MissionShape', NEW l \in PlanLoop, LoopStep(l)
  PROVE  StopInv'
<1>1. UNCHANGED contract /\ contract.revision \in Nat /\ MissionShape
  BY DEF LoopStep, LoopBegins, LoopAdmitted, LoopEnsures, LoopChooses, LoopContinues, LoopCreates, LoopPersists,
         StopInv, MissionShape, MissionTypeOK
<1>2. ASSUME NEW next, Call(next), LoopGoes(l, next)
      PROVE  /\ Committed' = IF next.at \in AtRun THEN Committed \cup {l} ELSE Committed \ {l}
             /\ (next.at # "idle" => contract.revision > 0) =>
                   \A m \in PlanLoop : loop'[m].at # "idle" => contract.revision > 0
  <2>1. loop'[l] = next /\ \A m \in PlanLoop : m # l => loop'[m] = loop[m]
    BY <1>1, <1>2, Moves
  <2>2. Committed' = IF next.at \in AtRun THEN Committed \cup {l} ELSE Committed \ {l}
    BY <2>1 DEF Committed
  <2> QED BY <2>1, <2>2 DEF StopInv, StopsSoon
<1>3. loop[l].at # "idle" => contract.revision > 0
  BY DEF StopInv, StopsSoon
<1>4. CASE LoopBegins(l)
  <2>1. PICK next : LoopGoes(l, next) /\ Call(next) /\ next.at = "admit"
    BY <1>1, <1>4, BeginsShape, Zenon
  <2>2. UNCHANGED history /\ contract.revision > 0
    BY <1>4 DEF LoopBegins
  <2>3. Committed' \subseteq Committed /\ \A m \in PlanLoop : loop'[m].at # "idle" => contract.revision > 0
    BY <1>2, <2>1, <2>2 DEF AtRun
  <2> QED BY <1>1, <2>2, <2>3, StopKept
<1>5. ASSUME NEW total \in 1 .. MaxTotal, NEW perCall \in 1 .. MaxPerCall, LoopAdmitted(l, total, perCall)
      PROVE  StopInv'
  <2>1. PICK next : LoopGoes(l, next) /\ Call(next) /\ (next = Resting \/ next.at = "ensure")
    BY <1>1, <1>5, AdmittedShape, Zenon
  <2>2. UNCHANGED history /\ contract.revision > 0
    BY <1>3, <1>5 DEF LoopAdmitted
  <2>3. Committed' \subseteq Committed /\ \A m \in PlanLoop : loop'[m].at # "idle" => contract.revision > 0
    BY <1>2, <2>1, <2>2, RestingCalls DEF AtRun
  <2> QED BY <1>1, <2>2, <2>3, StopKept
<1>6. CASE LoopEnsures(l)
  <2>1. PICK next : LoopGoes(l, next) /\ Call(next) /\ (next = Resting \/ next.at = "choose")
    BY <1>1, <1>6, EnsuresShape, Zenon
  <2>2. UNCHANGED history /\ contract.revision > 0
    BY <1>3, <1>6 DEF LoopEnsures
  <2>3. Committed' \subseteq Committed /\ \A m \in PlanLoop : loop'[m].at # "idle" => contract.revision > 0
    BY <1>2, <2>1, <2>2, RestingCalls DEF AtRun
  <2> QED BY <1>1, <2>2, <2>3, StopKept
<1>7. CASE LoopChooses(l)
  <2>1. PICK next : LoopGoes(l, next) /\ Call(next) /\ (next = Resting \/ NextAction = "run")
    BY <1>1, <1>7, ChoosesShape, Zenon
  <2>2. UNCHANGED history /\ contract.revision > 0
    BY <1>3, <1>7 DEF LoopChooses
  <2>3. \A m \in PlanLoop : loop'[m].at # "idle" => contract.revision > 0
    BY <1>2, <2>1, <2>2
  <2>4. NextAction = "run" => MissionConfirmed(contract.revision)
    BY <2>2 DEF NextAction
  <2>5. next = Resting => Committed' \subseteq Committed
    BY <1>2, <2>1, RestingCalls DEF AtRun
  <2> QED BY <1>1, <2>1, <2>2, <2>3, <2>4, <2>5, StopKept
<1>8. CASE LoopContinues(l)
  <2>1. PICK next : LoopGoes(l, next) /\ Call(next)
    BY <1>1, <1>8, ContinuesShape, Zenon
  <2>2. UNCHANGED history /\ contract.revision > 0 /\ loop[l].at = "continue"
    BY <1>3, <1>8 DEF LoopContinues
  <2>3. Committed' \subseteq Committed /\ \A m \in PlanLoop : loop'[m].at # "idle" => contract.revision > 0
    BY <1>2, <2>1, <2>2 DEF Committed, AtRun
  <2> QED BY <1>1, <2>2, <2>3, StopKept
<1>9. CASE LoopCreates(l)
  <2>1. PICK next :
           /\ LoopGoes(l, next) /\ Call(next)
           /\ \/ next = Resting /\ UNCHANGED history
              \/ next.at = "persist" /\ history' = [history EXCEPT !.planned = @ + (IF MissionConfirmed(contract.revision) THEN 0 ELSE 1)]
    BY <1>1, <1>9, CreatesShape, Zenon
  <2>2. contract.revision > 0 /\ l \in Committed
    BY <1>3, <1>9 DEF LoopCreates, Committed, AtRun
  <2>3. Committed' = Committed \ {l} /\ \A m \in PlanLoop : loop'[m].at # "idle" => contract.revision > 0
    BY <1>2, <2>1, <2>2, RestingCalls DEF AtRun
  <2>4. history.planned \in Nat /\ history \in Histories
    BY <1>1, ShapeParts DEF MissionShape, Histories
  <2>5. UNCHANGED history \/ history'.planned = history.planned + (IF MissionConfirmed(contract.revision) THEN 0 ELSE 1)
    BY <2>1, <2>4 DEF Histories
  <2>6. CASE MissionConfirmed(contract.revision)
    <3>1. MissionConfirmed(contract.revision)'
      BY <1>1, <2>6 DEF MissionConfirmed
    <3>2. history.planned = 0
      BY <2>6 DEF StopInv, StopsSoon
    <3> QED BY <1>1, <2>3, <2>4, <2>5, <2>6, <3>1, <3>2 DEF StopInv, StopsSoon
  <2>7. CASE ~MissionConfirmed(contract.revision)
    <3>1. ~MissionConfirmed(contract.revision)'
      BY <1>1, <2>7 DEF MissionConfirmed
    <3>2. history.planned + Cardinality(Committed) <= Cardinality(PlanLoop)
      BY <2>7 DEF StopInv, StopsSoon
    <3>3. IsFiniteSet(Committed) /\ Cardinality(Committed) \in Nat /\ Cardinality(PlanLoop) \in Nat
      BY CommittedFew
    <3>4. Cardinality(Committed)' = Cardinality(Committed) - 1
      BY <2>2, <2>3, <3>3, FS_RemoveElement
    <3>5. history'.planned + Cardinality(Committed)' <= Cardinality(PlanLoop)
      BY <2>4, <2>5, <2>7, <3>2, <3>3, <3>4
    <3> QED BY <1>1, <2>3, <3>1, <3>5 DEF StopInv, StopsSoon
  <2> QED BY <2>6, <2>7
<1>10. CASE LoopPersists(l)
  <2>1. PICK next : LoopGoes(l, next) /\ Call(next) /\ (next = Resting \/ next.at = "choose")
    BY <1>1, <1>10, PersistsShape, Zenon
  <2>2. contract.revision > 0 /\ loop[l].at = "persist"
    BY <1>3, <1>10 DEF LoopPersists
  <2>3. Committed' = Committed /\ \A m \in PlanLoop : loop'[m].at # "idle" => contract.revision > 0
    BY <1>2, <2>1, <2>2, RestingCalls DEF Committed, AtRun
  <2>4. history \in Histories /\ (history' = history \/ history' = [history EXCEPT !.lost = @ + 1])
    BY <1>1, <1>10, ShapeParts DEF LoopPersists, MissionShape
  <2>5. history'.planned = history.planned
    BY <2>4 DEF Histories
  <2>6. MissionConfirmed(contract.revision)' <=> MissionConfirmed(contract.revision)
    BY <1>1 DEF MissionConfirmed
  <2> QED BY <1>1, <2>3, <2>5, <2>6 DEF StopInv, StopsSoon
<1> QED BY <1>4, <1>5, <1>6, <1>7, <1>8, <1>9, <1>10 DEF LoopStep

LEMMA StopStep == StopInv /\ IsFiniteSet(PlanLoop) /\ [MissionNext]_missionVars => StopInv'
<1> SUFFICES ASSUME StopInv, IsFiniteSet(PlanLoop), [MissionNext]_missionVars PROVE StopInv'
  OBVIOUS
<1>1. MissionShape' /\ contract.revision \in Nat
  BY ShapeStep DEF StopInv, MissionShape, MissionTypeOK
<1>2. CASE UNCHANGED <<contract, loop, history>>
  <2>1. Committed' = Committed /\ \A l \in PlanLoop : loop'[l].at # "idle" => contract.revision > 0
    BY <1>2 DEF Committed, StopInv, StopsSoon
  <2> QED BY <1>1, <1>2, <2>1, StopKept
<1>3. CASE UpsertMissionContract
  <2>1. UNCHANGED loop /\ Touched /\ contract'.revision > 0
    <3>1. contract \in [revision : Nat, confirmed : Nat] /\ contract' = [contract EXCEPT !.revision = contract.revision + 1]
      BY <1>3 DEF UpsertMissionContract, StopInv, MissionShape, MissionTypeOK
    <3>2. contract'.revision = contract.revision + 1
      BY <3>1
    <3> QED BY <1>1, <1>3, <3>2 DEF UpsertMissionContract
  <2> QED BY <1>1, <2>1, StopTouched
<1>4. ASSUME NEW c \in Confirmer, ConfirmMissionContract(c) PROVE StopInv'
  <2>1. CASE UNCHANGED <<contract, history>>
    BY <1>2, <1>4, <2>1 DEF ConfirmMissionContract
  <2>2. CASE contract' = [contract EXCEPT !.confirmed = confirming[c]] /\ Touched
    <3>1. UNCHANGED loop /\ contract'.revision = contract.revision
      BY <1>4, <2>2 DEF ConfirmMissionContract, StopInv, MissionShape, MissionTypeOK
    <3> QED BY <1>1, <2>2, <3>1, StopTouched
  <2> QED BY <1>4, <2>1, <2>2 DEF ConfirmMissionContract
<1>5. CASE UpsertProjectAutonomyPolicy \/ OthersRun \/ ExecuteNextAction \/ MergeWorkspace \/ \E r \in DOMAIN runs : RunEnds(r)
  BY <1>2, <1>5 DEF UpsertProjectAutonomyPolicy, OthersRun, ExecuteNextAction, MergeWorkspace, RunEnds
<1>6. ASSUME NEW l \in PlanLoop, LoopStep(l) PROVE StopInv'
  BY <1>1, <1>6, StopLoop
<1>7. CASE UNCHANGED missionVars
  BY <1>2, <1>7 DEF missionVars
<1> QED BY <1>3, <1>4, <1>5, <1>6, <1>7 DEF MissionNext

\* However many calls of the loop, revisions, confirmations and runs of others
\* interleave (taskops/execution_plan_loop.go): after a revision each caller
\* starts at most the one run it was about to start.
THEOREM RevisionsStopTheLoop ==
  ASSUME IsFiniteSet(PlanLoop)
  PROVE  MissionSpec => []RevisionStops
<1>1. StopInv => RevisionStops
  <2> SUFFICES ASSUME StopInv PROVE RevisionStops
    OBVIOUS
  <2>1. history.planned \in Nat
    BY DEF StopInv, MissionShape, MissionTypeOK
  <2>2. Cardinality(Committed) \in Nat /\ Cardinality(PlanLoop) \in Nat
    BY CommittedFew
  <2> QED BY <2>1, <2>2 DEF StopInv, StopsSoon, RevisionStops
<1>2. MissionInit => StopInv
  BY StopInit
<1>3. StopInv /\ [MissionNext]_missionVars => StopInv'
  BY StopStep
<1> QED BY <1>1, <1>2, <1>3, PTL DEF MissionSpec

-----------------------------------------------------------------------------
(* A plan within its limit, while one call of the loop is on at a time.    *)

Owing == IF \E l \in PlanLoop : Owes(loop[l]) THEN 1 ELSE 0

\* What a call of the loop holds of the plan's row.
HoldsPlan(me) ==
  /\ me.at # "idle" => plan.revision <= me.of /\ me.of <= contract.revision
  /\ me.at \in Planning \/ me.queued => me.plan = plan
  /\ me.at \in Planning \ {"ensure"} \/ Owes(me) => plan.revision = me.of /\ plan.iteration + me.budget <= me.limit
  /\ Owes(me) => me.plan = [plan EXCEPT !.iteration = @ + 1]

\* The plan's row counts the runs of its revision but for the one a call is
\* about to note and those of lost writes.
PlanExact ==
  /\ plan.revision <= contract.revision
  /\ \A l \in PlanLoop : HoldsPlan(loop[l])
  /\ \A r \in DOMAIN runs : runs[r].by = "loop" => runs[r].of <= plan.revision
  /\ Cardinality(PlanRuns(plan.revision)) <= plan.iteration + Owing + history.lost
  /\ PlanWithinLimit

PlanInv == MissionShape /\ PlanExact

\* One call at a time.
OneCall == \A l, m \in PlanLoop : l = m

LEMMA PlanTypes ==
  ASSUME MissionShape
  PROVE  /\ runs \in Seq(PlanRun) /\ contract \in [revision : Nat, confirmed : Nat] /\ history \in Histories
         /\ plan \in PlanRow /\ plan.revision \in Nat /\ plan.iteration \in Nat
         /\ contract.revision \in Nat /\ history.lost \in Nat
         /\ \A l \in PlanLoop : Call(loop[l])
         /\ \A r \in DOMAIN runs : runs[r] \in PlanRun
<1>1. runs \in Seq(PlanRun) /\ contract \in [revision : Nat, confirmed : Nat] /\ history \in Histories /\ plan \in PlanRow
  BY ShapeParts DEF MissionShape
<1>2. \A r \in DOMAIN runs : runs[r] \in PlanRun
  BY <1>1
<1> QED BY <1>1, <1>2 DEF MissionShape, PlanRow, Histories

\* What it takes for a step of the one call.
LEMMA LoopExact ==
  ASSUME OneCall, MissionShape, MissionShape', NEW l \in PlanLoop, plan'.revision <= contract'.revision,
         HoldsPlan(loop[l])', \A r \in DOMAIN runs' : runs'[r].by = "loop" => runs'[r].of <= plan'.revision,
         Cardinality(PlanRuns(plan.revision))' <= plan'.iteration + (IF Owes(loop'[l]) THEN 1 ELSE 0) + history'.lost,
         PlanWithinLimit'
  PROVE  PlanInv'
<1>1. \A m \in PlanLoop : m = l
  BY DEF OneCall
<1>2. Owing' = IF Owes(loop'[l]) THEN 1 ELSE 0
  BY <1>1 DEF Owing, Owes
<1>3. \A m \in PlanLoop : HoldsPlan(loop[m])'
  BY <1>1
<1> QED BY <1>2, <1>3 DEF PlanInv, PlanExact

\* The count before it.
LEMMA Counted ==
  ASSUME OneCall, PlanInv, NEW l \in PlanLoop
  PROVE  /\ Cardinality(PlanRuns(plan.revision)) <= plan.iteration + (IF Owes(loop[l]) THEN 1 ELSE 0) + history.lost
         /\ HoldsPlan(loop[l]) /\ Call(loop[l])
<1>1. \A m \in PlanLoop : m = l
  BY DEF OneCall
<1>2. Owing = IF Owes(loop[l]) THEN 1 ELSE 0
  BY <1>1 DEF Owing
<1> QED BY <1>2 DEF PlanInv, PlanExact, MissionShape

\* Steps that leave the plan's row and its calls alone.
LEMMA PlanKept ==
  ASSUME PlanInv, MissionShape', UNCHANGED <<plan, loop>>, contract'.revision >= contract.revision,
         history'.lost = history.lost, DOMAIN runs \subseteq DOMAIN runs',
         \A r \in DOMAIN runs : /\ runs'[r].by = runs[r].by /\ runs'[r].of = runs[r].of
                                /\ runs'[r].number = runs[r].number /\ runs'[r].limit = runs[r].limit,
         \A r \in DOMAIN runs' \ DOMAIN runs : runs'[r].by # "loop"
  PROVE  PlanInv'
<1>1. plan.revision \in Nat /\ contract.revision \in Nat /\ contract'.revision \in Nat /\ plan.revision <= contract'.revision
  <2>1. plan.revision \in Nat /\ contract.revision \in Nat /\ plan.revision <= contract.revision
    BY PlanTypes DEF PlanInv, PlanExact
  <2>2. contract'.revision \in Nat
    BY DEF MissionShape, MissionTypeOK
  <2> QED BY <2>1, <2>2
<1>2. \A l \in PlanLoop : HoldsPlan(loop[l])'
  <2> SUFFICES ASSUME NEW l \in PlanLoop PROVE HoldsPlan(loop[l])'
    OBVIOUS
  <2>1. loop[l].of \in Nat /\ HoldsPlan(loop[l])
    BY DEF PlanInv, PlanExact, MissionShape, Call, LoopState
  <2>2. loop[l].of <= contract.revision => loop[l].of <= contract'.revision
    BY <1>1, <2>1
  <2> QED BY <2>1, <2>2 DEF HoldsPlan, Owes
<1>3. PlanRuns(plan.revision)' = PlanRuns(plan.revision)
  <2>1. MissionShape /\ PlanRuns(plan.revision)' = {r \in DOMAIN runs' : runs'[r].by = "loop" /\ runs'[r].of = plan.revision}
    BY DEF PlanInv, PlanRuns
  <2> QED BY <2>1 DEF PlanRuns
<1>4. Owing' = Owing
  BY DEF Owing, Owes
<1>5. \A r \in DOMAIN runs' : runs'[r].by = "loop" => runs'[r].of <= plan'.revision
  BY DEF PlanInv, PlanExact
<1>6. PlanWithinLimit'
  BY DEF PlanInv, PlanExact, PlanWithinLimit
<1>7. Cardinality(PlanRuns(plan.revision))' <= plan'.iteration + Owing' + history'.lost
  BY <1>3, <1>4 DEF PlanInv, PlanExact
<1> QED BY <1>1, <1>2, <1>5, <1>6, <1>7 DEF PlanInv, PlanExact

LEMMA PlanInit == MissionInit => PlanInv
<1> SUFFICES ASSUME MissionInit PROVE PlanInv
  OBVIOUS
<1>1. /\ runs = << >> /\ contract.revision = 0 /\ plan = [revision |-> 0, iteration |-> 0] /\ history.lost = 0
      /\ \A l \in PlanLoop : loop[l] = Resting
  BY DEF MissionInit
<1>2. PlanRuns(plan.revision) = {}
  BY <1>1 DEF PlanRuns
<1>3. Cardinality(PlanRuns(plan.revision)) = 0
  BY <1>2, FS_EmptySet
<1>4. Owing = 0
  BY <1>1 DEF Owing, Owes, Resting
<1>5. \A l \in PlanLoop : HoldsPlan(loop[l])
  BY <1>1 DEF HoldsPlan, Resting, Planning, Owes
<1> QED BY <1>1, <1>3, <1>4, <1>5, ShapeInit DEF PlanInv, PlanExact, PlanWithinLimit

\* Where the calls do not start a run, the runs and what was lost stay.
LEMMA LoopKept ==
  ASSUME OneCall, PlanInv, MissionShape', NEW l \in PlanLoop, UNCHANGED <<runs, plan, contract>>,
         history'.lost = history.lost, HoldsPlan(loop[l])', Owes(loop[l]) => Owes(loop'[l])
  PROVE  PlanInv'
<1>1. plan.iteration \in Nat /\ history.lost \in Nat
  BY PlanTypes DEF PlanInv
<1>2. Cardinality(PlanRuns(plan.revision)) <= plan.iteration + (IF Owes(loop[l]) THEN 1 ELSE 0) + history.lost
  BY Counted
<1>3. IsFiniteSet(PlanRuns(plan.revision)) /\ Cardinality(PlanRuns(plan.revision)) \in Nat
  BY PlanRunsFinite, PlanTypes DEF PlanInv
<1>4. Cardinality(PlanRuns(plan.revision))' <= plan'.iteration + (IF Owes(loop'[l]) THEN 1 ELSE 0) + history'.lost
  BY <1>1, <1>2, <1>3 DEF PlanRuns
<1>5. PlanWithinLimit' /\ plan'.revision <= contract'.revision
  BY <1>1 DEF PlanInv, PlanExact, PlanWithinLimit
<1> QED BY <1>4, <1>5, LoopExact DEF PlanInv, PlanExact

LEMMA BeginsExact ==
  ASSUME OneCall, PlanInv, MissionShape', NEW l \in PlanLoop, LoopBegins(l)
  PROVE  PlanInv'
<1>1. PICK next : LoopGoes(l, next) /\ Call(next) /\ next.at = "admit" /\ next.of = contract.revision /\ ~next.queued
  BY BeginsShape, Zenon DEF PlanInv
<1>2. loop'[l] = next
  BY <1>1, Moves DEF PlanInv
<1>3. UNCHANGED <<runs, plan, contract, history>> /\ ~Owes(loop[l])
  BY DEF LoopBegins, Owes
<1>4. contract.revision \in Nat /\ plan.revision <= contract.revision
  BY PlanTypes DEF PlanInv, PlanExact
<1>5. HoldsPlan(loop[l])'
  BY <1>1, <1>2, <1>3, <1>4 DEF HoldsPlan, Owes, Planning
<1> QED BY <1>3, <1>5, LoopKept

LEMMA RestingHolds ==
  ASSUME NEW l \in PlanLoop, loop'[l] = Resting
  PROVE  HoldsPlan(loop[l])' /\ ~Owes(loop'[l])
BY DEF HoldsPlan, Resting, Planning, Owes

LEMMA AdmittedExact ==
  ASSUME OneCall, PlanInv, MissionShape', NEW l \in PlanLoop,
         NEW total \in 1 .. MaxTotal, NEW perCall \in 1 .. MaxPerCall, LoopAdmitted(l, total, perCall)
  PROVE  PlanInv'
<1>1. PICK next :
        /\ LoopGoes(l, next) /\ Call(next)
        /\ \/ next = Resting
           \/ /\ MissionConfirmed(loop[l].of) /\ next.at = "ensure" /\ ~next.queued
              /\ next.of = loop[l].of /\ next.plan = plan
  BY AdmittedShape, Zenon DEF PlanInv
<1>2. loop'[l] = next
  BY <1>1, Moves DEF PlanInv
<1>3. UNCHANGED <<runs, plan, contract, history>> /\ loop[l].at = "admit" /\ ~Owes(loop[l]) /\ HoldsPlan(loop[l])
  BY Counted DEF LoopAdmitted, Owes
<1>4. CASE next = Resting
  BY <1>2, <1>3, <1>4, RestingHolds, LoopKept
<1>5. CASE next # Resting
  <2>1. HoldsPlan(loop[l])'
    BY <1>1, <1>2, <1>3, <1>5 DEF HoldsPlan, Owes, Planning
  <2> QED BY <1>3, <2>1, LoopKept
<1> QED BY <1>4, <1>5

\* A new row is one of a later revision, of which nothing was started.
LEMMA EnsuresExact ==
  ASSUME OneCall, PlanInv, MissionShape', NEW l \in PlanLoop, LoopEnsures(l)
  PROVE  PlanInv'
<1>1. PICK row \in PlanRow, next \in LoopState :
        /\ row.revision = loop[l].of
        /\ \/ row = loop[l].plan /\ plan' = plan
           \/ loop[l].plan.revision # loop[l].of /\ row = [revision |-> loop[l].of, iteration |-> 0] /\ plan' = row
        /\ LoopGoes(l, next) /\ Call(next)
        /\ \/ next = Resting
           \/ /\ next.at = "choose" /\ ~next.queued /\ next.of = loop[l].of /\ next.plan = row
              /\ row.iteration + next.budget <= next.limit
  BY EnsuresShape DEF PlanInv, Call
<1>2. loop'[l] = next
  BY <1>1, Moves DEF PlanInv
<1>3. UNCHANGED <<runs, contract, history>> /\ loop[l].at = "ensure" /\ ~Owes(loop[l]) /\ HoldsPlan(loop[l]) /\ Call(loop[l])
  BY Counted DEF LoopEnsures, Owes
<1>4. loop[l].plan = plan /\ plan' = row /\ plan.revision <= loop[l].of /\ loop[l].of <= contract.revision
  BY <1>1, <1>3 DEF HoldsPlan, Planning
<1>5. /\ runs \in Seq(PlanRun) /\ plan.revision \in Nat /\ plan.iteration \in Nat /\ contract.revision \in Nat /\ history.lost \in Nat
      /\ loop[l].of \in Nat /\ plan'.revision = loop[l].of /\ plan'.iteration \in Nat
  BY <1>1, <1>3, <1>4, PlanTypes DEF PlanInv, Call, LoopState, PlanRow
<1>6. HoldsPlan(loop[l])' /\ ~Owes(loop'[l])
  <2>1. CASE next = Resting
    BY <1>2, <2>1, RestingHolds
  <2>2. CASE next # Resting
    BY <1>1, <1>2, <1>3, <1>4, <1>5, <2>2 DEF HoldsPlan, Owes, Planning
  <2> QED BY <2>1, <2>2
<1>7. \A r \in DOMAIN runs' : runs'[r].by = "loop" => runs'[r].of <= plan'.revision
  <2> SUFFICES ASSUME NEW r \in DOMAIN runs, runs[r].by = "loop" PROVE runs[r].of <= loop[l].of
    BY <1>3, <1>5
  <2>1. runs[r].of \in Nat /\ runs[r].of <= plan.revision
    BY PlanTypes DEF PlanInv, PlanExact, PlanRun
  <2> QED BY <1>4, <1>5, <2>1
<1>8. Cardinality(PlanRuns(plan.revision))' <= plan'.iteration + (IF Owes(loop'[l]) THEN 1 ELSE 0) + history'.lost
  <2>1. PlanRuns(plan.revision)' = PlanRuns(loop[l].of)
    BY <1>3, <1>5 DEF PlanRuns
  <2>2. CASE row = plan
    <3>1. Cardinality(PlanRuns(plan.revision)) <= plan.iteration + history.lost
      BY <1>3, <1>5, Counted
    <3>2. PlanRuns(plan.revision)' = PlanRuns(plan.revision) /\ plan'.iteration = plan.iteration /\ history'.lost = history.lost
      BY <1>1, <1>3, <1>4, <2>1, <2>2
    <3> QED BY <1>5, <1>6, <3>1, <3>2
  <2>3. CASE row # plan
    <3>1. plan.revision < loop[l].of
      BY <1>1, <1>4, <1>5, <2>3
    <3>2. \A r \in DOMAIN runs : runs[r].by = "loop" => runs[r].of # loop[l].of
      <4> SUFFICES ASSUME NEW r \in DOMAIN runs, runs[r].by = "loop" PROVE runs[r].of # loop[l].of
        OBVIOUS
      <4>1. runs[r].of \in Nat /\ runs[r].of <= plan.revision
        BY PlanTypes DEF PlanInv, PlanExact, PlanRun
      <4> QED BY <1>5, <3>1, <4>1
    <3>3. PlanRuns(loop[l].of) = {}
      BY <3>2 DEF PlanRuns
    <3>4. Cardinality(PlanRuns(plan.revision))' = 0
      BY <2>1, <3>3, FS_EmptySet
    <3> QED BY <1>3, <1>5, <1>6, <3>4
  <2> QED BY <2>2, <2>3
<1>9. PlanWithinLimit'
  BY <1>3 DEF PlanInv, PlanExact, PlanWithinLimit
<1> QED BY <1>3, <1>4, <1>5, <1>6, <1>7, <1>8, <1>9, LoopExact DEF PlanInv

LEMMA ChoosesExact ==
  ASSUME OneCall, PlanInv, MissionShape', NEW l \in PlanLoop, LoopChooses(l)
  PROVE  PlanInv'
<1>1. PICK next :
        /\ LoopGoes(l, next) /\ Call(next)
        /\ \/ next = Resting /\ plan' \in {plan, loop[l].plan}
           \/ /\ next.at = "continue" /\ ~next.queued /\ plan' = plan /\ next = [loop[l] EXCEPT !.at = "continue"]
  BY ChoosesShape, Zenon DEF PlanInv
<1>2. loop'[l] = next
  BY <1>1, Moves DEF PlanInv
<1>3. UNCHANGED <<runs, contract, history>> /\ loop[l].at = "choose" /\ ~Owes(loop[l]) /\ HoldsPlan(loop[l]) /\ Call(loop[l])
  BY Counted DEF LoopChooses, Owes
<1>4. plan' = plan
  BY <1>1, <1>3 DEF HoldsPlan, Planning
<1>5. CASE next = Resting
  BY <1>2, <1>3, <1>4, <1>5, RestingHolds, LoopKept
<1>6. CASE next # Resting
  <2>1. /\ next.at = "continue" /\ ~next.queued /\ next.of = loop[l].of /\ next.plan = loop[l].plan
        /\ next.budget = loop[l].budget /\ next.limit = loop[l].limit
    BY <1>1, <1>3, <1>6 DEF Call, LoopState
  <2>2. HoldsPlan(loop[l])'
    BY <1>2, <1>3, <1>4, <2>1 DEF HoldsPlan, Owes, Planning
  <2> QED BY <1>3, <1>4, <2>2, LoopKept
<1> QED BY <1>5, <1>6

LEMMA ContinuesExact ==
  ASSUME OneCall, PlanInv, MissionShape', NEW l \in PlanLoop, LoopContinues(l)
  PROVE  PlanInv'
<1>1. PICK next :
        /\ LoopGoes(l, next) /\ Call(next)
        /\ \/ next = Resting
           \/ next = [loop[l] EXCEPT !.at = "persist", !.queued = TRUE]
           \/ next = [loop[l] EXCEPT !.at = "create"]
  BY ContinuesShape, Zenon DEF PlanInv
<1>2. loop'[l] = next
  BY <1>1, Moves DEF PlanInv
<1>3. UNCHANGED <<runs, plan, contract, history>> /\ loop[l].at = "continue" /\ ~Owes(loop[l]) /\ HoldsPlan(loop[l]) /\ Call(loop[l])
  BY Counted DEF LoopContinues, Owes
<1>4. CASE next = Resting
  BY <1>2, <1>3, <1>4, RestingHolds, LoopKept
<1>5. CASE next # Resting
  <2>1. /\ (next.at = "create" /\ ~next.queued) \/ (next.at = "persist" /\ next.queued)
        /\ next.of = loop[l].of /\ next.plan = loop[l].plan /\ next.budget = loop[l].budget /\ next.limit = loop[l].limit
    BY <1>1, <1>3, <1>5 DEF Call, LoopState, Planning
  <2>2. HoldsPlan(loop[l])'
    BY <1>2, <1>3, <2>1 DEF HoldsPlan, Owes, Planning
  <2> QED BY <1>3, <2>2, LoopKept
<1> QED BY <1>4, <1>5

\* The run it starts is the next one of the plan, and the row in memory counts
\* it.
LEMMA CreatesExact ==
  ASSUME OneCall, PlanInv, MissionShape', NEW l \in PlanLoop, LoopCreates(l)
  PROVE  PlanInv'
<1>1. PICK next :
        /\ LoopGoes(l, next) /\ Call(next)
        /\ \/ next = Resting /\ UNCHANGED <<runs, history>>
           \/ /\ NewRun("loop", loop[l].of, Cardinality(PlanRuns(loop[l].of)) + 1, loop[l].limit)
              /\ next.at = "persist" /\ ~next.queued /\ next.of = loop[l].of /\ next.limit = loop[l].limit
              /\ next.budget = loop[l].budget /\ next.plan = [loop[l].plan EXCEPT !.iteration = @ + 1]
              /\ history' = [history EXCEPT !.planned = @ + (IF MissionConfirmed(contract.revision) THEN 0 ELSE 1)]
  BY CreatesShape, Zenon DEF PlanInv
<1>2. loop'[l] = next
  BY <1>1, Moves DEF PlanInv
<1>3. UNCHANGED <<plan, contract>> /\ loop[l].at = "create" /\ ~Owes(loop[l]) /\ HoldsPlan(loop[l]) /\ Call(loop[l])
  BY Counted DEF LoopCreates, Owes
<1>4. CASE next = Resting /\ UNCHANGED <<runs, history>>
  BY <1>2, <1>3, <1>4, RestingHolds, LoopKept
<1>5. CASE ~(next = Resting /\ UNCHANGED <<runs, history>>)
  <2> DEFINE number == Cardinality(PlanRuns(loop[l].of)) + 1
             n == Len(runs) + 1
  <2>1. /\ NewRun("loop", loop[l].of, number, loop[l].limit)
        /\ next.at = "persist" /\ ~next.queued /\ next.of = loop[l].of /\ next.limit = loop[l].limit
        /\ next.budget = loop[l].budget /\ next.plan = [loop[l].plan EXCEPT !.iteration = @ + 1]
        /\ history' = [history EXCEPT !.planned = @ + (IF MissionConfirmed(contract.revision) THEN 0 ELSE 1)]
    BY <1>1, <1>5, Zenon
  <2>2. /\ runs \in Seq(PlanRun) /\ plan.revision \in Nat /\ plan.iteration \in Nat /\ history.lost \in Nat
        /\ history \in Histories /\ plan.revision <= contract.revision
    BY PlanTypes DEF PlanInv, PlanExact
  <2>3. /\ loop[l].of \in Nat /\ loop[l].limit \in Nat /\ loop[l].budget \in Nat /\ loop[l].budget >= 1
        /\ loop[l].plan = plan /\ plan.revision = loop[l].of /\ plan.iteration + loop[l].budget <= loop[l].limit
    BY <1>3 DEF Call, LoopState, HoldsPlan, Planning
  <2>4. IsFiniteSet(PlanRuns(plan.revision)) /\ Cardinality(PlanRuns(plan.revision)) \in Nat
    BY <2>2, PlanRunsFinite
  <2>5. number \in Nat /\ number = Cardinality(PlanRuns(plan.revision)) + 1
    BY <2>3, <2>4
  <2> HIDE DEF number
  <2>6. /\ DOMAIN runs' = DOMAIN runs \cup {n} /\ n \notin DOMAIN runs
        /\ \A r \in DOMAIN runs : runs'[r] = runs[r]
        /\ runs'[n].by = "loop" /\ runs'[n].of = loop[l].of /\ runs'[n].number = number /\ runs'[n].limit = loop[l].limit
    <3>1. /\ DOMAIN runs' = DOMAIN runs \cup {n} /\ n \notin DOMAIN runs
          /\ \A r \in DOMAIN runs : runs'[r] = runs[r]
          /\ LET added == runs'[n] IN
             added.by = "loop" /\ added.of = loop[l].of /\ added.number = number /\ added.limit = loop[l].limit
      <4>1. "loop" \in {"others", "loop"}
        OBVIOUS
      <4>2. NewRun("loop", loop[l].of, number, loop[l].limit)
        BY <2>1
      <4>3. runs \in Seq(PlanRun) /\ loop[l].of \in Nat /\ number \in Nat /\ loop[l].limit \in Nat
        BY <2>2, <2>3, <2>5
      <4> QED BY <4>1, <4>2, <4>3, NewRunAdds, Zenon
    <3> QED BY <3>1
  <2> HIDE DEF n
  <2>7. history'.lost = history.lost
    BY <2>1, <2>2 DEF Histories
  <2>8. Cardinality(PlanRuns(plan.revision)) <= plan.iteration + history.lost
    BY <1>3, <2>2, Counted
  <2>9. Owes(loop'[l]) /\ HoldsPlan(loop[l])'
    BY <1>2, <1>3, <2>1, <2>3 DEF HoldsPlan, Owes, Planning
  <2>10. Cardinality(PlanRuns(plan.revision))' <= plan'.iteration + (IF Owes(loop'[l]) THEN 1 ELSE 0) + history'.lost
    <3>1. PlanRuns(plan.revision)' = PlanRuns(plan.revision) \cup {n}
      BY <1>3, <2>3, <2>6 DEF PlanRuns
    <3>2. n \notin PlanRuns(plan.revision)
      BY <2>6 DEF PlanRuns
    <3>3. Cardinality(PlanRuns(plan.revision))' = Cardinality(PlanRuns(plan.revision)) + 1
      BY <2>4, <3>1, <3>2, FS_AddElement
    <3> QED BY <1>3, <2>2, <2>4, <2>7, <2>8, <2>9, <3>3
  <2>11. \A r \in DOMAIN runs' : runs'[r].by = "loop" => runs'[r].of <= plan'.revision
    BY <1>3, <2>2, <2>3, <2>6 DEF PlanInv, PlanExact
  <2>12. number <= loop[l].limit + history.lost
    BY <2>2, <2>3, <2>4, <2>5, <2>8
  <2>13. PlanWithinLimit'
    BY <2>6, <2>7, <2>12 DEF PlanInv, PlanExact, PlanWithinLimit
  <2> QED BY <1>3, <2>2, <2>9, <2>10, <2>11, <2>13, LoopExact DEF PlanInv
<1> QED BY <1>4, <1>5

\* The row is written from memory, or its write is lost.
LEMMA PersistsExact ==
  ASSUME OneCall, PlanInv, MissionShape', NEW l \in PlanLoop, LoopPersists(l)
  PROVE  PlanInv'
<1>1. PICK next :
        /\ LoopGoes(l, next) /\ Call(next)
        /\ \/ /\ next = Resting /\ plan' = plan /\ history' = [history EXCEPT !.lost = @ + 1]
           \/ /\ plan' = loop[l].plan /\ history' = history
              /\ \/ next = Resting
                 \/ /\ Owes(loop[l]) /\ next.at = "choose" /\ ~next.queued /\ next.of = loop[l].of
                    /\ next.plan = loop[l].plan /\ next.limit = loop[l].limit /\ next.budget = loop[l].budget - 1
  BY PersistsShape, Zenon DEF PlanInv
<1>2. loop'[l] = next
  BY <1>1, Moves DEF PlanInv
<1>3. UNCHANGED <<runs, contract>> /\ loop[l].at = "persist" /\ HoldsPlan(loop[l]) /\ Call(loop[l])
  BY Counted DEF LoopPersists
<1>4. /\ runs \in Seq(PlanRun) /\ plan.revision \in Nat /\ plan.iteration \in Nat /\ history.lost \in Nat
      /\ history \in Histories /\ plan.revision <= contract.revision /\ plan \in PlanRow
  BY PlanTypes DEF PlanInv, PlanExact
<1>5. /\ Cardinality(PlanRuns(plan.revision)) \in Nat
      /\ Cardinality(PlanRuns(plan.revision)) <= plan.iteration + (IF Owes(loop[l]) THEN 1 ELSE 0) + history.lost
  BY <1>4, PlanRunsFinite, Counted
<1>6. PlanWithinLimit /\ \A r \in DOMAIN runs : runs[r].by = "loop" => runs[r].of <= plan.revision
  BY DEF PlanInv, PlanExact
<1>7. CASE plan' = plan /\ history' = [history EXCEPT !.lost = @ + 1] /\ next = Resting
  <2>1. history'.lost = history.lost + 1
    BY <1>4, <1>7 DEF Histories
  <2>2. HoldsPlan(loop[l])' /\ ~Owes(loop'[l])
    BY <1>2, <1>7, RestingHolds
  <2>3. PlanRuns(plan.revision)' = PlanRuns(plan.revision)
    BY <1>3, <1>7 DEF PlanRuns
  <2>4. Cardinality(PlanRuns(plan.revision))' <= plan'.iteration + (IF Owes(loop'[l]) THEN 1 ELSE 0) + history'.lost
    BY <1>4, <1>5, <1>7, <2>1, <2>2, <2>3
  <2>5. PlanWithinLimit'
    <3> SUFFICES ASSUME NEW r \in DOMAIN runs, runs[r].by = "loop" PROVE runs[r].number <= runs[r].limit + history'.lost
      BY <1>3 DEF PlanWithinLimit
    <3>1. runs[r].number \in Nat /\ runs[r].limit \in Nat /\ runs[r].number <= runs[r].limit + history.lost
      BY <1>6, PlanTypes DEF PlanInv, PlanRun, PlanWithinLimit
    <3> QED BY <1>4, <2>1, <3>1
  <2> QED BY <1>3, <1>4, <1>6, <1>7, <2>2, <2>4, <2>5, LoopExact DEF PlanInv
<1>8. CASE plan' = loop[l].plan /\ history' = history
  <2>1. PlanWithinLimit'
    BY <1>3, <1>6, <1>8 DEF PlanWithinLimit
  <2>2. plan'.revision = plan.revision /\ plan'.iteration = plan.iteration + (IF Owes(loop[l]) THEN 1 ELSE 0)
    BY <1>3, <1>4, <1>8 DEF HoldsPlan, Owes, PlanRow
  <2>3. PlanRuns(plan.revision)' = PlanRuns(plan.revision)
    BY <1>3, <2>2 DEF PlanRuns
  <2>4. CASE next = Resting
    <3>1. HoldsPlan(loop[l])' /\ ~Owes(loop'[l])
      BY <1>2, <2>4, RestingHolds
    <3>2. Cardinality(PlanRuns(plan.revision))' <= plan'.iteration + (IF Owes(loop'[l]) THEN 1 ELSE 0) + history'.lost
      BY <1>4, <1>5, <1>8, <2>2, <2>3, <3>1
    <3> QED BY <1>3, <1>4, <1>6, <2>1, <2>2, <3>1, <3>2, LoopExact DEF PlanInv
  <2>5. CASE next # Resting
    <3>1. /\ Owes(loop[l]) /\ next.at = "choose" /\ ~next.queued /\ next.of = loop[l].of
          /\ next.plan = loop[l].plan /\ next.limit = loop[l].limit /\ next.budget = loop[l].budget - 1
      BY <1>1, <2>5
    <3>2. /\ loop[l].of = plan.revision /\ loop[l].of <= contract.revision /\ loop[l].budget \in Nat /\ loop[l].limit \in Nat
          /\ plan.iteration + loop[l].budget <= loop[l].limit
      BY <1>3, <3>1 DEF HoldsPlan, Call, LoopState
    <3>3. plan'.iteration + next.budget <= next.limit
      BY <1>4, <2>2, <3>1, <3>2
    <3>4. HoldsPlan(loop[l])' /\ ~Owes(loop'[l])
      BY <1>2, <1>3, <1>4, <1>8, <2>2, <3>1, <3>2, <3>3 DEF HoldsPlan, Owes, Planning
    <3>5. Cardinality(PlanRuns(plan.revision))' <= plan'.iteration + (IF Owes(loop'[l]) THEN 1 ELSE 0) + history'.lost
      BY <1>4, <1>5, <1>8, <2>2, <2>3, <3>4
    <3> QED BY <1>3, <1>4, <1>6, <2>1, <2>2, <3>4, <3>5, LoopExact DEF PlanInv
  <2> QED BY <2>4, <2>5
<1> QED BY <1>1, <1>7, <1>8

LEMMA PlanStep == OneCall /\ PlanInv /\ [MissionNext]_missionVars => PlanInv'
<1> SUFFICES ASSUME OneCall, PlanInv, [MissionNext]_missionVars PROVE PlanInv'
  OBVIOUS
<1>1. MissionShape' /\ contract.revision \in Nat /\ runs \in Seq(PlanRun) /\ contract \in [revision : Nat, confirmed : Nat]
  BY ShapeStep, PlanTypes DEF PlanInv
<1>2. CASE UNCHANGED <<runs, plan, loop>> /\ contract'.revision >= contract.revision /\ history'.lost = history.lost
  BY <1>1, <1>2, PlanKept
<1>3. CASE UpsertMissionContract
  <2>1. contract' = [contract EXCEPT !.revision = contract.revision + 1] /\ history \in Histories
        /\ history' = [history EXCEPT !.planned = 0]
    BY <1>3, PlanTypes DEF UpsertMissionContract, Touched, PlanInv
  <2>2. contract'.revision >= contract.revision /\ history'.lost = history.lost
    BY <1>1, <2>1 DEF Histories
  <2> QED BY <1>2, <1>3, <2>2 DEF UpsertMissionContract
<1>4. ASSUME NEW c \in Confirmer, ConfirmMissionContract(c) PROVE PlanInv'
  <2>1. history \in Histories /\ UNCHANGED <<runs, plan, loop>>
    BY <1>4, PlanTypes DEF PlanInv, ConfirmMissionContract
  <2>2. contract' = contract \/ contract' = [contract EXCEPT !.confirmed = confirming[c]]
    BY <1>4 DEF ConfirmMissionContract
  <2>3. history' = history \/ history' = [history EXCEPT !.planned = 0]
    BY <1>4 DEF ConfirmMissionContract, Touched
  <2>4. contract'.revision = contract.revision /\ history'.lost = history.lost
    BY <1>1, <2>1, <2>2, <2>3 DEF Histories
  <2> QED BY <1>1, <1>2, <2>1, <2>4
<1>5. CASE OthersRun \/ ExecuteNextAction
  <2>1. NewRun("others", 0, 0, 0) /\ UNCHANGED <<contract, plan, loop, history>>
    BY <1>5 DEF OthersRun, ExecuteNextAction
  <2>2. /\ DOMAIN runs' = DOMAIN runs \cup {Len(runs) + 1} /\ \A r \in DOMAIN runs : runs'[r] = runs[r]
        /\ runs'[Len(runs) + 1].by = "others"
    <3>1. 0 \in Nat /\ "others" \in {"others", "loop"}
      OBVIOUS
    <3>2. /\ DOMAIN runs' = DOMAIN runs \cup {Len(runs) + 1} /\ \A r \in DOMAIN runs : runs'[r] = runs[r]
          /\ LET added == runs'[Len(runs) + 1] IN added.by = "others" /\ added.of = 0 /\ added.number = 0 /\ added.limit = 0
      BY <1>1, <2>1, <3>1, NewRunAdds, Zenon
    <3> QED BY <3>2
  <2>3. \A r \in DOMAIN runs' \ DOMAIN runs : runs'[r].by # "loop"
    BY <2>2
  <2>4. contract'.revision >= contract.revision
    BY <1>1, <2>1
  <2> QED BY <1>1, <2>1, <2>2, <2>3, <2>4, PlanKept
<1>6. ASSUME NEW r \in DOMAIN runs, RunEnds(r) PROVE PlanInv'
  <2>1. PICK status : runs' = [runs EXCEPT ![r].status = status]
    BY <1>6 DEF RunEnds
  <2>2. \A q \in DOMAIN runs : runs[q] \in PlanRun
    BY PlanTypes DEF PlanInv
  <2>3. DOMAIN runs' = DOMAIN runs /\ \A q \in DOMAIN runs : runs'[q] = IF q = r THEN [runs[q] EXCEPT !.status = status] ELSE runs[q]
    BY <1>1, <2>1
  <2>4. \A run \in PlanRun : LET ended == [run EXCEPT !.status = status] IN
          ended.by = run.by /\ ended.of = run.of /\ ended.number = run.number /\ ended.limit = run.limit
    BY DEF PlanRun
  <2>5. \A q \in DOMAIN runs : /\ runs'[q].by = runs[q].by /\ runs'[q].of = runs[q].of
                               /\ runs'[q].number = runs[q].number /\ runs'[q].limit = runs[q].limit
    BY <2>2, <2>3, <2>4
  <2>6. UNCHANGED <<contract, plan, loop, history>>
    BY <1>6 DEF RunEnds
  <2> QED BY <1>1, <2>3, <2>5, <2>6, PlanKept
<1>7. CASE UpsertProjectAutonomyPolicy \/ MergeWorkspace \/ UNCHANGED missionVars
  BY <1>1, <1>2, <1>7 DEF UpsertProjectAutonomyPolicy, MergeWorkspace, missionVars
<1>8. ASSUME NEW l \in PlanLoop, LoopStep(l) PROVE PlanInv'
  BY <1>1, <1>8, BeginsExact, AdmittedExact, EnsuresExact, ChoosesExact, ContinuesExact, CreatesExact, PersistsExact DEF LoopStep
<1> QED BY <1>3, <1>4, <1>5, <1>6, <1>7, <1>8 DEF MissionNext

\* A plan stays within its limit but for lost writes, however its one call at a
\* time, the policy, revisions and the runs of others interleave.
THEOREM PlansStayWithinLimits ==
  ASSUME OneCall
  PROVE  MissionSpec => []PlanWithinLimit
<1>1. PlanInv => PlanWithinLimit
  BY DEF PlanInv, PlanExact
<1>2. PlanInv /\ [MissionNext]_missionVars => PlanInv'
  BY PlanStep
<1> QED BY <1>1, <1>2, PlanInit, PTL DEF MissionSpec

-----------------------------------------------------------------------------
\* Whatever a conversation starts by itself was granted.  A set of one caller is
\* finite, so one call at a time is all it takes.
THEOREM OnlyWhatWasGranted ==
  ASSUME OneCall
  PROVE  MissionSpec /\ SafetySpec => []GrantedOnly
<1>1. IsFiniteSet(PlanLoop)
  <2>1. CASE PlanLoop = {}
    BY <2>1, FS_EmptySet
  <2>2. CASE PlanLoop # {}
    <3>1. PICK l \in PlanLoop : PlanLoop = {l}
      BY <2>2 DEF OneCall
    <3> QED BY <3>1, FS_Singleton
  <2> QED BY <2>1, <2>2
<1>2. MissionSpec => []RevisionStops
  BY <1>1, RevisionsStopTheLoop
<1>3. MissionSpec => []PlanWithinLimit
  BY PlansStayWithinLimits
<1>4. RevisionStops /\ PlanWithinLimit /\ SafetySound => GrantedOnly
  BY DEF GrantedOnly, MissionSound
<1> QED BY <1>2, <1>3, <1>4, SafetyKept, PTL
=============================================================================
