----------------------------- MODULE CodexPeer -----------------------------
(***************************************************************************)
(* One run of codex behind its app server (worker/codex_protocol.go,       *)
(* manager_codex_protocol.go and the end of Manager.run).  A conversation  *)
(* goroutine makes three requests and waits for the turn to be over; the   *)
(* reader of stdout hands answers to it and gives each question of the CLI *)
(* a goroutine of its own; run waits for the end of stdout and decides how *)
(* the run ended.  They share the context, stdin, resumeFailure, blocked   *)
(* and the done signal of the peer.                                        *)
(* The pipes never fill up: what goes through stdin is a few lines.        *)
(***************************************************************************)
EXTENDS Naturals, Sequences, FiniteSets

CONSTANTS
    MaxAsks,    \* questions the CLI may ask in its turn
    MaxErrors   \* error notifications it may send

ASSUME CodexAssumption == MaxAsks \in Nat /\ MaxErrors \in Nat

VARIABLES
    conv,      \* the conversation: where it is and its request, 1 .. 3
    pending,   \* requests with a channel, and what is in the channel
    cxIn,      \* stdin: open, and the lines the CLI has not read
    cxOut,     \* the lines of stdout nobody has read
    cli,       \* the process: state, requests to answer, questions and errors sent
    asks,      \* where each question's goroutine is
    signal,    \* doneCh: the first line that ended the turn
    cxCtx,     \* the run's context: who canceled it first, and where the conversation was
    cxFlags,   \* what is set of resumeFailure and blocked
    verdict    \* the status run decides on

codexVars == << conv, pending, cxIn, cxOut, cli, asks, signal, cxCtx, cxFlags, verdict >>

Call == 1 .. 3   \* initialize, thread/start or thread/resume, turn/start
TurnStart == 3
Ask  == 1 .. MaxAsks
Line(kind, of) == [kind |-> kind, of |-> of]
OutLine == [kind : {"answer", "refusal", "ask"}, of : 1 .. 3 + MaxAsks]
             \cup [kind : {"completed", "error", "hollow"}, of : {0}]

\* One type condition for the module.
CodexTypeOK ==
    /\ conv \in [at : {"idle", "register", "send", "wait", "turn", "fail", "cancel", "close", "over"}, call : Call]
    /\ pending \in [Call -> {"none", "empty", "answer", "refusal"}]
    /\ cxIn.open \in BOOLEAN /\ cxOut \in Seq(OutLine)
    /\ cli.state \in {"none", "running", "exit0", "exit1"} /\ cli.owes \subseteq Call \cup {0}
    /\ cli.errors \in 0 .. MaxErrors
    /\ asks \in [Ask -> {"none", "sent", "open", "blocking", "over"}]
    /\ signal \in {"none", "completed", "error", "hollow"}
    /\ cxCtx.by \in {"nobody", "user", "failure", "run"}
    /\ cxFlags \subseteq {"resumeFailure", "blocked"}
    /\ verdict \in {"none", "succeeded", "failed", "canceled", "blocked"}

CodexInit ==
    /\ conv = [at |-> "idle", call |-> 1] /\ pending = [c \in Call |-> "none"]
    /\ cxIn = [open |-> FALSE, lines |-> << >>] /\ cxOut = << >>
    /\ cli = [state |-> "none", owes |-> {}, turn |-> FALSE, completed |-> FALSE, errors |-> 0, early |-> FALSE]
    /\ asks = [a \in Ask |-> "none"] /\ signal = "none"
    /\ cxCtx = [by |-> "nobody", during |-> "idle"] /\ cxFlags = {} /\ verdict = "none"

Canceled == cxCtx.by # "nobody"
Cancel(who) == cxCtx' = IF Canceled THEN cxCtx ELSE [by |-> who, during |-> conv.at]
\* A line reaches the CLI unless stdin is closed or its reader is gone.
Reaches == cxIn.open /\ cli.state = "running"
Written(line) == [cxIn EXCEPT !.lines = Append(@, line)]
CloseStdin == [cxIn EXCEPT !.open = FALSE]

----------------------------------------------------------------------------
(* The conversation: runCodexAppServer.                                    *)

RunStarts ==
    /\ conv.at = "idle" /\ conv' = [conv EXCEPT !.at = "register"]
    /\ cli' = [cli EXCEPT !.state = "running"] /\ cxIn' = [cxIn EXCEPT !.open = TRUE]
    /\ UNCHANGED << pending, cxOut, asks, signal, cxCtx, cxFlags, verdict >>

\* A mutant: what the CLI answers before anyone waits is dropped.
RegisterLate ==
    /\ conv.at = "register" /\ conv' = [conv EXCEPT !.at = "send"]
    /\ UNCHANGED << pending, cxIn, cxOut, cli, asks, signal, cxCtx, cxFlags, verdict >>

Register ==
    /\ conv.at = "register" /\ conv' = [conv EXCEPT !.at = "send"]
    /\ pending' = [pending EXCEPT ![conv.call] = "empty"]
    /\ UNCHANGED << cxIn, cxOut, cli, asks, signal, cxCtx, cxFlags, verdict >>

SendRequest ==
    /\ conv.at = "send"
    /\ \/ /\ Reaches /\ cxIn' = Written(Line("request", conv.call))
          /\ conv' = [conv EXCEPT !.at = "wait"] /\ UNCHANGED pending
       \/ /\ ~Reaches /\ conv' = [conv EXCEPT !.at = "fail"]
          /\ pending' = [pending EXCEPT ![conv.call] = "none"] /\ UNCHANGED cxIn
    /\ UNCHANGED << cxOut, cli, asks, signal, cxCtx, cxFlags, verdict >>

\* The select of Request: whichever is ready.
RequestReturns ==
    /\ conv.at = "wait"
    /\ \/ /\ pending[conv.call] = "answer"
          /\ conv' = IF conv.call = TurnStart THEN [conv EXCEPT !.at = "turn"]
                     ELSE [at |-> "register", call |-> conv.call + 1]
       \/ pending[conv.call] = "refusal" /\ conv' = [conv EXCEPT !.at = "fail"]
       \/ Canceled /\ conv' = [conv EXCEPT !.at = "fail"]
    /\ pending' = [pending EXCEPT ![conv.call] = "none"]
    /\ UNCHANGED << cxIn, cxOut, cli, asks, signal, cxCtx, cxFlags, verdict >>

\* WaitDone: an error without a message counts as a completed turn, and so does
\* the end of the context.
TurnIsOver ==
    /\ conv.at = "turn"
    /\ \/ (signal \in {"completed", "hollow"} \/ Canceled) /\ conv' = [conv EXCEPT !.at = "close"]
       \/ signal = "error" /\ conv' = [conv EXCEPT !.at = "fail"]
    /\ UNCHANGED << pending, cxIn, cxOut, cli, asks, signal, cxCtx, cxFlags, verdict >>

\* A mutant: failOnce cancels before it says why.
FailRecordsLast ==
    /\ \/ conv.at = "fail" /\ conv' = [conv EXCEPT !.at = "cancel"] /\ Cancel("failure") /\ UNCHANGED cxFlags
       \/ conv.at = "cancel" /\ conv' = [conv EXCEPT !.at = "close"] /\ cxFlags' = cxFlags \cup {"resumeFailure"} /\ UNCHANGED cxCtx
    /\ UNCHANGED << pending, cxIn, cxOut, cli, asks, signal, verdict >>

\* failOnce: record the reason, cancel the context, close stdin.
FailRecords ==
    /\ \/ conv.at = "fail" /\ conv' = [conv EXCEPT !.at = "cancel"] /\ cxFlags' = cxFlags \cup {"resumeFailure"} /\ UNCHANGED cxCtx
       \/ conv.at = "cancel" /\ conv' = [conv EXCEPT !.at = "close"] /\ Cancel("failure") /\ UNCHANGED cxFlags
    /\ UNCHANGED << pending, cxIn, cxOut, cli, asks, signal, verdict >>

ConversationEnds ==
    /\ conv.at = "close" /\ conv' = [conv EXCEPT !.at = "over"] /\ cxIn' = CloseStdin
    /\ UNCHANGED << pending, cxOut, cli, asks, signal, cxCtx, cxFlags, verdict >>

----------------------------------------------------------------------------
(* The CLI, as far as it keeps to the protocol.                            *)

CliReads ==
    /\ cli.state = "running" /\ cxIn.lines # << >>
    /\ cxIn' = [cxIn EXCEPT !.lines = Tail(@)]
    /\ LET line == Head(cxIn.lines) IN
       /\ cli' = IF line.kind = "request" THEN [cli EXCEPT !.owes = @ \cup {line.of}, !.turn = @ \/ line.of = TurnStart] ELSE cli
       /\ asks' = IF line.kind = "reply" THEN [asks EXCEPT ![line.of] = "over"] ELSE asks
    /\ UNCHANGED << conv, pending, cxOut, signal, cxCtx, cxFlags, verdict >>

CliAnswers(c, kind) ==
    /\ cli.state = "running" /\ c \in cli.owes
    /\ cli' = [cli EXCEPT !.owes = @ \ {c}, !.turn = @ /\ ~(c = TurnStart /\ kind = "refusal")]
    /\ cxOut' = Append(cxOut, Line(kind, c))
    /\ UNCHANGED << conv, pending, cxIn, asks, signal, cxCtx, cxFlags, verdict >>

InTurn == cli.state = "running" /\ cli.turn /\ ~cli.completed

CliAsks(a) ==
    /\ InTurn /\ asks[a] = "none" /\ asks' = [asks EXCEPT ![a] = "sent"]
    /\ cxOut' = Append(cxOut, Line("ask", a))
    /\ UNCHANGED << conv, pending, cxIn, cli, signal, cxCtx, cxFlags, verdict >>

CliErrs(kind) ==
    /\ InTurn /\ cli.errors < MaxErrors
    /\ cli' = [cli EXCEPT !.errors = @ + 1] /\ cxOut' = Append(cxOut, Line(kind, 0))
    /\ UNCHANGED << conv, pending, cxIn, asks, signal, cxCtx, cxFlags, verdict >>

CliCompletes ==
    /\ InTurn /\ \A a \in Ask : asks[a] \in {"none", "over"}
    /\ cli' = [cli EXCEPT !.completed = TRUE] /\ cxOut' = Append(cxOut, Line("completed", 0))
    /\ UNCHANGED << conv, pending, cxIn, asks, signal, cxCtx, cxFlags, verdict >>

\* It ends when stdin does; it may also crash or, for no reason, leave with 0.
CliSeesEnd ==
    /\ cli.state = "running" /\ ~cxIn.open /\ cxIn.lines = << >> /\ cli' = [cli EXCEPT !.state = "exit0"]
    /\ UNCHANGED << conv, pending, cxIn, cxOut, asks, signal, cxCtx, cxFlags, verdict >>
CliQuits ==
    /\ cli.state = "running"
    /\ \E code \in {"exit0", "exit1"} : cli' = [cli EXCEPT !.state = code, !.early = TRUE]
    /\ UNCHANGED << conv, pending, cxIn, cxOut, asks, signal, cxCtx, cxFlags, verdict >>
\* exec.CommandContext.
CliKilled ==
    /\ cli.state = "running" /\ Canceled /\ cli' = [cli EXCEPT !.state = "exit1"]
    /\ UNCHANGED << conv, pending, cxIn, cxOut, asks, signal, cxCtx, cxFlags, verdict >>

----------------------------------------------------------------------------
(* The reader of stdout and the goroutines it starts.                      *)

ReaderHandles ==
    /\ verdict = "none" /\ cxOut # << >> /\ cxOut' = Tail(cxOut)
    /\ LET line == Head(cxOut) IN
       /\ pending' = IF line.kind \in {"answer", "refusal"} /\ pending[line.of] = "empty"
                     THEN [pending EXCEPT ![line.of] = line.kind] ELSE pending
       /\ asks' = IF line.kind = "ask" THEN [asks EXCEPT ![line.of] = "open"] ELSE asks
       /\ signal' = IF line.kind \in {"completed", "error", "hollow"} /\ signal = "none" THEN line.kind ELSE signal
    /\ UNCHANGED << conv, cxIn, cli, cxCtx, cxFlags, verdict >>

\* handleCodexServerRequest, the approval itself left to Approvals: a user, a
\* timer or the end of the context answers.
AskAnswered(a) ==
    /\ asks[a] = "open" /\ asks' = [asks EXCEPT ![a] = IF Reaches THEN "sent" ELSE "over"]
    /\ cxIn' = IF Reaches THEN Written(Line("reply", a)) ELSE cxIn
    /\ UNCHANGED << conv, pending, cxOut, cli, signal, cxCtx, cxFlags, verdict >>

\* A write without a workspace: block the run, decline, close stdin.
AskBlocks(a) ==
    /\ \/ /\ asks[a] = "open" /\ asks' = [asks EXCEPT ![a] = "blocking"]
          /\ cxFlags' = cxFlags \cup {"blocked"} /\ UNCHANGED cxIn
       \/ /\ asks[a] = "blocking" /\ asks' = [asks EXCEPT ![a] = "over"]
          /\ cxIn' = IF Reaches THEN [CloseStdin EXCEPT !.lines = Append(@, Line("reply", a))] ELSE CloseStdin
          /\ UNCHANGED cxFlags
    /\ UNCHANGED << conv, pending, cxOut, cli, signal, cxCtx, verdict >>

----------------------------------------------------------------------------
(* run.                                                                    *)

UserCancels ==
    /\ conv.at # "idle" /\ verdict = "none" /\ ~Canceled /\ Cancel("user")
    /\ UNCHANGED << conv, pending, cxIn, cxOut, cli, asks, signal, cxFlags, verdict >>

\* What run concludes from the context, the exit code and the two flags.
Status ==
    IF "resumeFailure" \in cxFlags THEN "failed"
    ELSE IF Canceled THEN "canceled"
    ELSE IF "blocked" \in cxFlags THEN "blocked"
    ELSE IF cli.state = "exit1" THEN "failed" ELSE "succeeded"

\* At the end of stdout; the deferred cancel and CloseStdin come with it.
RunDecides ==
    /\ verdict = "none" /\ cli.state \in {"exit0", "exit1"} /\ cxOut = << >>
    /\ verdict' = Status /\ Cancel("run") /\ cxIn' = CloseStdin
    /\ UNCHANGED << conv, pending, cxOut, cli, asks, signal, cxFlags >>

ConvStep == Register \/ SendRequest \/ RequestReturns \/ TurnIsOver \/ FailRecords \/ ConversationEnds
AskStep(a) == AskAnswered(a) \/ AskBlocks(a)
CliAnswersAll == \E c \in Call, kind \in {"answer", "refusal"} : CliAnswers(c, kind)

CodexNext ==
    \/ RunStarts \/ ConvStep \/ UserCancels
    \/ CliReads \/ CliAnswersAll \/ CliCompletes \/ CliSeesEnd \/ CliQuits \/ CliKilled
    \/ \E a \in Ask : CliAsks(a)
    \/ \E kind \in {"error", "hollow"} : CliErrs(kind)
    \/ ReaderHandles \/ \E a \in Ask : AskStep(a)
    \/ RunDecides

\* Goroutines are scheduled, an approval ends by its timer if need be, a kill
\* works; of the CLI: it reads, answers, gets its turn done and ends with stdin.
CodexFairness ==
    /\ WF_codexVars(ConvStep) /\ WF_codexVars(ReaderHandles) /\ WF_codexVars(RunDecides)
    /\ \A a \in Ask : WF_codexVars(AskStep(a))
    /\ WF_codexVars(CliReads) /\ WF_codexVars(CliAnswersAll) /\ WF_codexVars(CliCompletes)
    /\ WF_codexVars(CliSeesEnd) /\ WF_codexVars(CliKilled)

CodexSpec == CodexInit /\ [][CodexNext]_codexVars /\ CodexFairness

----------------------------------------------------------------------------
\* However the conversation, the reader, the questions, a user and the death of
\* the CLI interleave: a run succeeds only if its turn was over, unless the CLI
\* left with 0 on its own; it is canceled only if a user said so (failOnce and
\* run cancel the same context); and a user who cancels it in its turn is not
\* told that it failed, unless the CLI reported an error.
VerdictIsTrue ==
    /\ verdict = "succeeded" => signal \in {"completed", "hollow"} \/ cli.early
    /\ verdict = "canceled" => cxCtx.by = "user"
    /\ verdict = "failed" /\ cxCtx = [by |-> "user", during |-> "turn"] => signal = "error"

\* Every run ends: no answer is lost between the reader and the conversation, and
\* nobody waits for somebody who waits for the CLI to leave.
CodexRunEnds == (conv.at # "idle") ~> (verdict # "none" /\ conv.at = "over")
=============================================================================
