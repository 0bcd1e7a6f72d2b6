----------------------------- MODULE RunSafety -----------------------------
(***************************************************************************)
(* What lets a run of a conversation go without a sandbox.  Each run has   *)
(* safety options: asked for, inherited from the run before it or chosen   *)
(* by the autopilot (runsafe/autopilot.go); and EnterUnsafeTask drops them *)
(* after a restore point and a risk decision (runsafe/risk_evaluator.go).  *)
(* A language model classifies prompts and judges risks as it likes.  The  *)
(* queue of prompts (ContinueQueue) and the plan's loop (Mission) continue *)
(* a conversation the way a client does.                                   *)
(***************************************************************************)
EXTENDS Naturals, Sequences, FiniteSets

CONSTANTS
    Driver,        \* "codex" or "claude-code"
    Client,        \* callers: users, their secretary, the queue, the loop
    MaxRuns,       \* runs of the conversation: bounds the model
    MaxDecisions   \* different risk decisions: bounds the model

ASSUME SafetyAssumption == Driver \in {"codex", "claude-code"} /\ MaxRuns \in Nat /\ MaxDecisions \in Nat

VARIABLES
    conversation,  \* its runs, oldest first
    client,        \* the callers: where they are, what they hold of a run, and which
    proofs,        \* runs with a restore point
    decisions,     \* the recorded risk decisions
    asked          \* what was ever asked for, as far as it became a run

safetyVars == <<conversation, client, proofs, decisions, asked>>

\* A running run may await an approval; one that is over succeeded, failed, or
\* was canceled or interrupted.
OngoingStatus == {"running", "waiting"}
\* The options of a run: none chosen yet, some sandbox or permission mode that
\* guards it, or unsafe automation and danger-full-access.
Safety == {"none", "guarded", "unguarded"}

\* What a request says of safety: nothing, a one-time unlock, only an option
\* that counts for nothing (network tier web-readonly), a guard, or unsafe.
Plain == [explicit |-> FALSE, safety |-> "none", unlock |-> FALSE]
Request == {Plain, [Plain EXCEPT !.unlock = TRUE], [Plain EXCEPT !.explicit = TRUE],
            [explicit |-> TRUE, safety |-> "guarded", unlock |-> FALSE],
            [explicit |-> TRUE, safety |-> "unguarded", unlock |-> FALSE]}
Wish == {"nothing", "unlock", "unsafe"}
WishOf(body) == IF body.safety = "unguarded" THEN "unsafe" ELSE IF body.unlock THEN "unlock" ELSE "nothing"

Run == [status : OngoingStatus \cup {"over", "blocked"}, safety : Safety, wish : Wish, by : {"request", "enter"}, of : Nat]
Intent == {"install", "other"}
Risk == [level : {"low", "medium", "high"}, reversible : BOOLEAN, decision : {"allow", "review", "deny"}]
Quiet == [at |-> "idle", safety |-> "none", of |-> 0]

\* One type condition for the module.
SafetyTypeOK ==
    /\ conversation \in Seq(Run) /\ asked \subseteq Wish
    /\ client \in [Client -> [at : {"idle", "create", "restore", "decide", "enter"}, safety : Safety, of : Nat]]
    /\ proofs \subseteq Nat /\ decisions \subseteq [of : Nat, risk : Risk]

SafetyInit ==
    /\ conversation = << >> /\ client = [c \in Client |-> Quiet]
    /\ proofs = {} /\ decisions = {} /\ asked = {}

----------------------------------------------------------------------------
(* Runs and their options.                                                 *)

Ongoing == {r \in DOMAIN conversation : conversation[r].status \in OngoingStatus}

\* A mutant: an install is unlocked whether or not the envelope says so.
AutopilotUnlocked(safety, unlock, intent) ==
    IF safety # "none" THEN safety ELSE IF intent = "install" THEN "unguarded" ELSE "guarded"

\* ApplyAutopilot: only options nobody chose, and no more than the envelope allows.
Autopilot(safety, unlock, intent) ==
    IF safety # "none" THEN safety ELSE IF intent = "install" /\ unlock THEN "unguarded" ELSE "guarded"

\* What a continued run starts from: its own options, or those of the run before.
Inherited(body, before) == IF body.explicit THEN body.safety ELSE before

\* CreateTask; the workdir is the conversation's, so a second run is refused or waits.
Add(safety, wish, by, of) ==
    /\ Len(conversation) < MaxRuns /\ asked' = asked \cup ({wish} \ {"nothing"})
    /\ conversation' = Append(conversation, [status |-> IF Ongoing = {} THEN "running" ELSE "waiting",
                                             safety |-> safety, wish |-> wish, by |-> by, of |-> of])

\* A run ends; one that waited starts when nothing else goes on.
RunGoesOn(r) ==
    /\ \/ conversation[r].status = "running" /\ \E status \in {"over", "blocked"} : conversation' = [conversation EXCEPT ![r].status = status]
       \/ /\ conversation[r].status = "waiting" /\ \A q \in Ongoing : conversation[q].status = "waiting"
          /\ conversation' = [conversation EXCEPT ![r].status = "running"]
    /\ UNCHANGED <<client, proofs, decisions, asked>>

----------------------------------------------------------------------------
(* Runs that are asked for.                                                *)

\* POST /api/tasks: options nobody chose are the autopilot's.
FirstRun(body, intent) ==
    /\ Ongoing = {} /\ Add(Autopilot(body.safety, body.unlock, intent), WishOf(body), "request", 0)
    /\ UNCHANGED <<client, proofs, decisions>>

Holds(c, at, source) ==
    client' = [client EXCEPT ![c] = [at |-> at, safety |-> conversation[source].safety, of |-> source]]

\* ContinueSession and CreateContinueTaskForConversation: read the latest run.
\* While a run is in flight the prompt is queued, and comes back here later.
ContinueSession(c) ==
    /\ client[c].at = "idle" /\ conversation # << >> /\ Ongoing = {}
    /\ conversation[Len(conversation)].status # "blocked" /\ Holds(c, "create", Len(conversation))
    /\ UNCHANGED <<conversation, proofs, decisions, asked>>

\* ResumeTask: from any run, unless another one is in flight.
ResumeTask(c, source) ==
    /\ client[c].at = "idle" /\ Ongoing \subseteq {source} /\ Holds(c, "create", source)
    /\ UNCHANGED <<conversation, proofs, decisions, asked>>

\* RehydrateTask: from any run, without a look at those in flight.
RehydrateTask(c, source) ==
    /\ client[c].at = "idle" /\ Driver = "claude-code" /\ Holds(c, "create", source)
    /\ UNCHANGED <<conversation, proofs, decisions, asked>>

\* createContinueTask, ResumeTask, RehydrateTask: the autopilot, then CreateTask; a busy
\* workdir or a run without a session refuses.
Creates(c, body, intent) ==
    /\ client[c].at = "create" /\ client' = [client EXCEPT ![c] = Quiet]
    /\ \/ Ongoing = {} /\ Add(Autopilot(Inherited(body, client[c].safety), body.unlock, intent), WishOf(body), "request", 0)
       \/ UNCHANGED <<conversation, asked>>
    /\ UNCHANGED <<proofs, decisions>>

----------------------------------------------------------------------------
(* EnterUnsafeTask.                                                        *)

\* The cancel it asks for ends the run later, if at all.
EnterBegins(c, source) ==
    /\ client[c].at = "idle" /\ Cardinality(decisions) < MaxDecisions /\ Holds(c, "restore", source)
    /\ UNCHANGED <<conversation, proofs, decisions, asked>>

\* ensureAutoRestorePoint: the one there is, or a new one.
RestorePoint(c) ==
    /\ client[c].at = "restore" /\ client' = [client EXCEPT ![c].at = "decide"]
    /\ proofs' = proofs \cup {client[c].of}
    /\ UNCHANGED <<conversation, decisions, asked>>

Rank(order, x) == CHOOSE n \in DOMAIN order : order[n] = x
Worse(order, a, b) == IF Rank(order, b) > Rank(order, a) THEN b ELSE a
Levels == <<"low", "medium", "high">>
Verdicts == <<"allow", "review", "deny">>

\* evaluateRiskDeterministic for an unsafe action.
Deterministic(proven) == [level |-> "high", reversible |-> proven, decision |-> IF proven THEN "review" ELSE "deny"]

\* mergeRiskVerdict: the worse of both, and a high risk without a way back is
\* denied.  What the model leaves out is what changes nothing.
Merged(det, llm) ==
    LET level == Worse(Levels, det.level, llm.level)
        reversible == det.reversible /\ llm.reversible
        least == IF level = "low" THEN "allow" ELSE IF level = "high" /\ ~reversible THEN "deny" ELSE "review"
    IN [level |-> level, reversible |-> reversible,
        decision |-> Worse(Verdicts, Worse(Verdicts, det.decision, llm.decision), least)]

\* The model may be silent, unsure or not understood.
EvaluateRisk(c) ==
    /\ client[c].at = "decide"
    /\ LET det == Deterministic(client[c].of \in proofs) IN
       \E risk \in {det} \cup {Merged(det, llm) : llm \in Risk} :
          /\ decisions' = decisions \cup {[of |-> client[c].of, risk |-> risk]}
          /\ client' = [client EXCEPT ![c] = IF risk.level = "high" /\ ~risk.reversible THEN Quiet ELSE [@ EXCEPT !.at = "enter"]]
    /\ UNCHANGED <<conversation, proofs, asked>>

EnterCreates(c) ==
    /\ client[c].at = "enter" /\ client' = [client EXCEPT ![c] = Quiet]
    /\ Add("unguarded", "unsafe", "enter", client[c].of)
    /\ UNCHANGED <<proofs, decisions>>

----------------------------------------------------------------------------
ClientStep(c) ==
    \/ \E body \in Request, intent \in Intent : Creates(c, body, intent)
    \/ \E source \in DOMAIN conversation : ResumeTask(c, source) \/ RehydrateTask(c, source) \/ EnterBegins(c, source)
    \/ ContinueSession(c) \/ RestorePoint(c) \/ EvaluateRisk(c) \/ EnterCreates(c)

SafetyNext ==
    \/ \E r \in DOMAIN conversation : RunGoesOn(r)
    \/ \E body \in Request, intent \in Intent : FirstRun(body, intent)
    \/ \E c \in Client : ClientStep(c)

SafetySpec == SafetyInit /\ [][SafetyNext]_safetyVars

----------------------------------------------------------------------------
\* A run without a sandbox has been asked for: whatever is inherited, queued,
\* classified or rehydrated, somebody gave leave in this conversation.
UnsafeIsGranted == \A r \in DOMAIN conversation : conversation[r].safety = "unguarded" => asked # {}

\* Whatever the language model says, an unsafe entry counts as high risk and is
\* never just allowed; without a way back it is denied; and it only becomes a
\* run after a restore point of its source and a decision that saw a way back.
RiskFailsClosed ==
    /\ \A d \in decisions : /\ d.risk.level = "high" /\ d.risk.decision # "allow"
                            /\ ~d.risk.reversible => d.risk.decision = "deny"
    /\ \A r \in DOMAIN conversation : conversation[r].by = "enter" =>
          conversation[r].of \in proofs /\ \E d \in decisions : d.of = conversation[r].of /\ d.risk.reversible

\* Both of the above.
SafetySound == UnsafeIsGranted /\ RiskFailsClosed

\* An unlock is for one run ("one-time unlock", tasks/types.go 105): a run whose
\* own request asks for nothing only goes without a sandbox if unsafe was asked
\* for in so many words.
UnlockIsOnce ==
    \A r \in DOMAIN conversation :
        conversation[r].safety = "unguarded" /\ conversation[r].wish = "nothing" => "unsafe" \in asked
=============================================================================
