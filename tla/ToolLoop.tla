------------------------------ MODULE ToolLoop ------------------------------
(***************************************************************************)
(* The secretary's tool loop, src/internal/agentsdk/xmlprotocol: a request *)
(* is answered by a stream of chunks; what the user may read of it goes    *)
(* out at once through StreamFilter and the JSON gate, and the whole       *)
(* answer is then read again for the <tool_data> block to execute, whose   *)
(* results become the next message.                                        *)
(*                                                                         *)
(* A response is a sequence of pieces.  "lt" is the character that opens a *)
(* tag and "tool", "/tool", "think", "/think" the rest of one, so a chunk  *)
(* may end inside a tag; without the "lt" before it the rest is plain      *)
(* text.  "tick" is a backquote, "brace" text that looks like JSON.  Runs  *)
(* of ticks stay below three (no code fence), <think> stands for both      *)
(* thinking tags and <tool_data> for <agent_action> too.                   *)
(***************************************************************************)
EXTENDS Integers, Sequences, SequencesExt, FiniteSets, Functions

CONSTANTS Field, Value,     \* names and values a call's fields may have
          AliasOf,          \* canonical name -> its aliases, in parse order
          LaterResponse,    \* what the model may answer after its first step
          ResultSize,       \* how long the results of a step may be
          EarlierTurns,     \* pairs of messages the prompt may bring along
          MaxSteps, MaxPieces, MaxChunk,
          Threshold, KeepTail, MaxIterations

Piece == {"text", "brace", "tick", "lt", "tool", "/tool", "think", "/think"}
AnyAlias == UNION {Range(AliasOf[c]) : c \in DOMAIN AliasOf}

\* A canonical name is nobody's alias; KeepTail is 4, so that the tail that is
\* kept starts with an answer.
ASSUME ToolLoopAssumption ==
  /\ DOMAIN AliasOf \subseteq Field
  /\ \A c \in DOMAIN AliasOf : AliasOf[c] \in Seq(Field \ DOMAIN AliasOf)
  /\ KeepTail \in Nat /\ KeepTail % 2 = 0 /\ KeepTail > 0
  /\ MaxSteps \in Nat \ {0} /\ MaxIterations \in Nat /\ Threshold \in Nat
  /\ MaxChunk \in Nat /\ LaterResponse \subseteq Seq(Piece)
  /\ EarlierTurns \subseteq Nat /\ ResultSize \subseteq Nat

Opens == {"tool", "think"}
Insides == Opens \cup {""}
Closing(tag) == "/" \o tag
MaxRun == 2

VARIABLES turn,      \* [step, phase, outcome] of RunLoop
          prompt,    \* msgs: the rolling conversation
          fitting,   \* compressConversationIfNeeded: [working, i, keepTail]
          raw,       \* the pieces of this step's answer so far
          filter,    \* StreamFilter: [pending, inside, ticks]
          gate,      \* streamGate: [decided, blocked, buf]
          visible,   \* what OnContent was given in this step
          called     \* fields of the last call: as executed, as remembered

loopVars == <<turn, prompt, fitting, raw, filter, gate, visible, called>>

Fields == UNION {[names -> Value] : names \in SUBSET Field}
Message(role, kind, step, size) ==
  [role |-> role, kind |-> kind, step |-> step, size |-> size]
NoFields == [name \in {} |-> 0]
NoCall == [executed |-> NoFields, remembered |-> NoFields]

NewFilter == [pending |-> <<>>, inside |-> "", ticks |-> 0]
Filters == [pending : Seq(Piece), inside : Insides, ticks : Nat]
NewGate == [decided |-> FALSE, blocked |-> FALSE, buf |-> <<>>]
NoFit == [working |-> <<>>, i |-> 0, keepTail |-> TRUE]

-----------------------------------------------------------------------------
(* Reading a response.                                                     *)

IsTag(s, name) == Len(s) >= 2 /\ s[1] = "lt" /\ s[2] = name

TickRun(s) ==
  CHOOSE n \in 0..Len(s) : /\ \A i \in 1..n : s[i] = "tick"
                           /\ n < Len(s) => s[n + 1] # "tick"

\* markdownCodeState: the length of the run that opened the code span, or 0.
Delimited(ticks, run) ==
  CASE ticks = 0 -> run [] ticks = run -> 0 [] OTHER -> ticks

Drop(s, n) == SubSeq(s, n + 1, Len(s))

\* Where a tag starts in s, 0 when it does not occur.
TagIndex(s, name) ==
  LET at == {i \in 1..(Len(s) - 1) : s[i] = "lt" /\ s[i + 1] = name}
  IN  IF at = {} THEN 0 ELSE CHOOSE i \in at : \A j \in at : i <= j

\* drain stops: nothing is pending, the tag it is inside of does not close, or
\* what is pending may still become a longer run of ticks, or a tag.
Halts(f, final) ==
  LET p == f.pending IN
  \/ p = <<>>
  \/ f.inside # "" /\ TagIndex(p, Closing(f.inside)) = 0
  \/ ~final /\ f.inside = "" /\ p[1] = "tick" /\ TickRun(p) = Len(p)
  \/ ~final /\ f.inside = "" /\ p = <<"lt">> /\ f.ticks = 0

\* What stays pending then.  A close tag is two pieces, so the last piece is
\* all that keepTail has to preserve.
Kept(f, final) ==
  IF f.inside = "" \/ f.pending = <<>> THEN f
  ELSE IF final THEN [f EXCEPT !.pending = <<>>, !.inside = ""]
  ELSE [f EXCEPT !.pending = <<Last(f.pending)>>]

\* Otherwise an iteration reads n pieces, of which it shows some.
Reading(f) ==
  LET p == f.pending
      run == TickRun(p)
      Read(n, inside, ticks, shown) ==
        [next |-> [pending |-> Drop(p, n), inside |-> inside, ticks |-> ticks], shown |-> shown]
  IN
  IF f.inside # "" THEN Read(TagIndex(p, Closing(f.inside)) + 1, "", f.ticks, <<>>)
  ELSE IF p[1] = "tick" THEN Read(run, "", Delimited(f.ticks, run), SubSeq(p, 1, run))
  ELSE IF f.ticks = 0 /\ \E tag \in Opens : IsTag(p, Closing(tag)) THEN Read(2, "", 0, <<>>)
  ELSE IF f.ticks = 0 /\ \E tag \in Opens : IsTag(p, tag) THEN Read(2, p[2], 0, <<>>)
  ELSE Read(1, "", f.ticks, <<p[1]>>)

\* drain: what the filter lets through of its pending text, and what it keeps.
Drain(final) ==
  LET drain[f \in Filters] ==
        IF Halts(f, final) THEN [filter |-> Kept(f, final), out |-> <<>>]
        ELSE LET read == Reading(f)
                 rest == drain[read.next]
             IN  [filter |-> rest.filter, out |-> read.shown \o rest.out]
  IN  drain

\* emitContent: text that starts like JSON is never shown; a start that may
\* still become a JSON fence waits.
Gated(g, delta) ==
  LET buf == g.buf \o delta IN
  IF delta = <<>> \/ g.blocked THEN [gate |-> g, shown |-> <<>>]
  ELSE IF g.decided THEN [gate |-> g, shown |-> delta]
  ELSE IF buf[1] = "brace"
    THEN [gate |-> [decided |-> TRUE, blocked |-> TRUE, buf |-> <<>>], shown |-> <<>>]
  ELSE IF \A i \in 1..Len(buf) : buf[i] = "tick"
    THEN [gate |-> [g EXCEPT !.buf = buf], shown |-> <<>>]
  ELSE [gate |-> [g EXCEPT !.decided = TRUE, !.buf = <<>>], shown |-> buf]

StripThinking[s \in Seq(Piece), ticks \in Nat] ==
  IF s = <<>> THEN <<>>
  ELSE IF s[1] = "tick" THEN
    LET run == TickRun(s)
    IN  SubSeq(s, 1, run) \o StripThinking[Drop(s, run), Delimited(ticks, run)]
  ELSE IF ticks = 0 /\ IsTag(s, "think") THEN
    LET end == TagIndex(s, "/think")
    IN  IF end = 0 THEN <<>> ELSE StripThinking[Drop(s, end + 1), 0]
  ELSE <<s[1]>> \o StripThinking[Tail(s), ticks]

\* extractLatestToolDataFromCleaned: the state of the last block is "none",
\* "whole" or "cut"; an unfinished block hides the finished ones before it.
LatestBlock[s \in Seq(Piece), ticks \in Nat, last \in {"none", "whole", "cut"}] ==
  IF s = <<>> THEN last
  ELSE IF s[1] = "tick" THEN
    LET run == TickRun(s) IN LatestBlock[Drop(s, run), Delimited(ticks, run), last]
  ELSE IF ticks = 0 /\ IsTag(s, "tool") THEN
    LET end == TagIndex(s, "/tool")
    IN  IF end = 0 THEN "cut" ELSE LatestBlock[Drop(s, end + 1), 0, "whole"]
  ELSE LatestBlock[Tail(s), ticks, last]

Cleaned == StripThinking[raw, 0]
Block == LatestBlock[Cleaned, 0, "none"]

-----------------------------------------------------------------------------
(* Reading a call.                                                         *)

\* mergeNestedArgumentFields: an argument envelope fills the names that the
\* call itself leaves out.
Filled(fields, more) ==
  [name \in DOMAIN fields \cup DOMAIN more |->
     IF name \in DOMAIN fields THEN fields[name] ELSE more[name]]

\* Where among the aliases of c one stands that fields has.
AliasesIn(fields, c) == {i \in DOMAIN AliasOf[c] : AliasOf[c][i] \in DOMAIN fields}
Latest(places) == CHOOSE i \in places : \A j \in places : j <= i

\* parseCall: a canonical name that is missing takes the value of its
\* aliases, the last one winning; the aliases stay.
FromAliases(fields) ==
  [c \in {c \in DOMAIN AliasOf \ DOMAIN fields : AliasesIn(fields, c) # {}} |->
     fields[AliasOf[c][Latest(AliasesIn(fields, c))]]]

Normalized(fields) == Filled(fields, FromAliases(fields))

Repaired(fields) == Normalized(fields) # fields

\* canonicalizeFieldsForRendering: aliases make way for the canonical name.
Rendered(fields) ==
  LET full == Normalized(fields)
  IN  Restrict(full, DOMAIN full \ AnyAlias)

-----------------------------------------------------------------------------
(* Compressing the conversation.                                           *)

PromptSize(msgs) == FoldLeft(LAMBDA size, m : size + m.size, 0, msgs)

Summarized(msgs, keep) ==
  <<msgs[1], Message("user", "summary", turn.step, 1)>> \o Drop(msgs, Len(msgs) - keep)

TooLong(msgs) == PromptSize(msgs) > Threshold

\* An iteration of compressConversationIfNeeded, which asks the model for a
\* summary; a failed summary is replaced by a placeholder that looks the same.
Shorter(fit) ==
  LET keep == IF fit.keepTail THEN KeepTail ELSE 0
      shorter == Summarized(fit.working, keep)
  IN
  IF Len(fit.working) - 1 > keep + 1
    THEN [working |-> shorter, i |-> fit.i + 1, keepTail |-> fit.keepTail /\ ~TooLong(shorter)]
    ELSE [fit EXCEPT !.i = @ + 1, !.keepTail = FALSE]

\* It stops when the messages fit, or when nothing is left to summarize.
Fitted(fit) ==
  \/ fit.i = MaxIterations \/ ~TooLong(fit.working)
  \/ ~fit.keepTail /\ Len(fit.working) <= 2

-----------------------------------------------------------------------------
(* The loop.                                                               *)

ToolLoopInit ==
  /\ turn = [step |-> 0, phase |-> "ready", outcome |-> "running"]
  /\ \E n \in EarlierTurns :
       prompt = <<Message("system", "chat", 0, 1)>>
                \o [i \in 1..(2 * n + 1) |->
                     Message(IF i % 2 = 1 THEN "user" ELSE "assistant", "chat", 0, 1)]
  /\ fitting = NoFit /\ raw = <<>> /\ visible = <<>>
  /\ filter = NewFilter /\ gate = NewGate /\ called = NoCall

\* The top of the loop: from the second step on the conversation has to fit
\* before the request goes out.
StartStep ==
  /\ turn.phase = "ready" /\ turn.step < MaxSteps
  /\ IF turn.step > 0 /\ TooLong(prompt)
       THEN /\ turn' = [turn EXCEPT !.phase = "compress"]
            /\ fitting' = [NoFit EXCEPT !.working = prompt]
       ELSE /\ turn' = [turn EXCEPT !.phase = "stream"]
            /\ UNCHANGED fitting
  /\ raw' = <<>> /\ visible' = <<>>
  /\ filter' = NewFilter /\ gate' = NewGate /\ called' = NoCall
  /\ UNCHANGED prompt

Compress ==
  /\ turn.phase = "compress" /\ ~Fitted(fitting)
  /\ fitting' = Shorter(fitting)
  /\ UNCHANGED <<turn, prompt, raw, filter, gate, visible, called>>

\* A conversation that is still too large fails the run.
EndCompression ==
  /\ turn.phase = "compress" /\ Fitted(fitting)
  /\ IF TooLong(fitting.working)
       THEN /\ turn' = [turn EXCEPT !.phase = "ended", !.outcome = "tooLarge"]
            /\ UNCHANGED prompt
       ELSE /\ turn' = [turn EXCEPT !.phase = "stream"]
            /\ prompt' = fitting.working
  /\ fitting' = NoFit
  /\ UNCHANGED <<raw, filter, gate, visible, called>>

StepLimit ==
  /\ turn.phase = "ready" /\ turn.step = MaxSteps
  /\ turn' = [turn EXCEPT !.phase = "ended", !.outcome = "stepLimit"]
  /\ UNCHANGED <<prompt, fitting, raw, filter, gate, visible, called>>

\* A drain that forgets to hold back an unfinished tag at the end of a chunk.
FeedEager(chunk, final) == Drain(TRUE)[[filter EXCEPT !.pending = @ \o chunk]]

Feed(chunk, final) == Drain(final)[[filter EXCEPT !.pending = @ \o chunk]]

ShortRuns(s) == \A i \in 1..(Len(s) - MaxRun) : \E j \in i..(i + MaxRun) : s[j] # "tick"

\* The model's output arrives in chunks of any length, at any piece.
StreamChunk ==
  /\ turn.phase = "stream"
  /\ \E chunk \in IF turn.step = 0
                    THEN UNION {[1..n -> Piece] : n \in 1..MaxChunk}
                    ELSE LaterResponse :
       LET drained == Feed(chunk, FALSE)
           gated == Gated(gate, drained.out)
       IN
       /\ IF turn.step = 0 THEN Len(raw) + Len(chunk) <= MaxPieces ELSE raw = <<>>
       /\ raw' = raw \o chunk /\ ShortRuns(raw')
       /\ filter' = drained.filter /\ gate' = gated.gate
       /\ visible' = visible \o gated.shown
  /\ UNCHANGED <<turn, prompt, fitting, called>>

\* The stream ends, well or because the provider failed; Flush sends the tail
\* the filter still held, unless the reader of OnContent is gone.
StreamEnds ==
  LET drained == Feed(<<>>, TRUE)
      gated == Gated(gate, drained.out)
  IN
  /\ turn.phase = "stream"
  /\ turn' \in {[turn EXCEPT !.phase = "decide"],
                [turn EXCEPT !.phase = "ended", !.outcome = "failed"]}
  /\ filter' = drained.filter /\ gate' = gated.gate /\ visible' = visible \o gated.shown
  /\ UNCHANGED <<prompt, fitting, raw, called>>

NextStep(size) ==
  /\ turn' = [turn EXCEPT !.step = @ + 1, !.phase = "ready"]
  /\ prompt' = prompt \o <<Message("assistant", "call", turn.step, 1),
                           Message("user", "results", turn.step, size)>>
  /\ UNCHANGED <<fitting, raw, filter, gate, visible>>

\* isForbiddenJSONToolCall: only text that looks like JSON can be such a call.
MayBeJSONCall(s) == "brace" \in Range(s)

\* A JSON tool call, a cut block that is not a recoverable write_file, or a
\* block that does not parse: the model is told and tries again.
ProtocolError ==
  /\ turn.phase = "decide"
  /\ Block # "none" \/ MayBeJSONCall(Cleaned)
  /\ NextStep(1)
  /\ UNCHANGED called

\* A cut write_file that appends is executed with what arrived of it.
RecoverTruncated ==
  /\ turn.phase = "decide" /\ Block = "cut"
  /\ \E size \in ResultSize : NextStep(size)
  /\ UNCHANGED called

\* Every call of the block runs in turn, its failure being a result too; the
\* conversation remembers the canonical form when anything was repaired.
CallTools ==
  /\ turn.phase = "decide" /\ Block = "whole"
  /\ \E top, nested \in Fields, size \in ResultSize :
       LET fields == Filled(top, nested) IN
       /\ called' = [executed |-> Normalized(fields),
                     remembered |-> IF Repaired(fields) THEN Rendered(fields) ELSE fields]
       /\ NextStep(size)

FinalAnswer ==
  /\ turn.phase = "decide" /\ Block = "none"
  /\ turn' = [turn EXCEPT !.phase = "ended",
                          !.outcome = IF visible = <<>> THEN "empty" ELSE "answered"]
  /\ UNCHANGED <<prompt, fitting, raw, filter, gate, visible, called>>

ToolLoopNext ==
  \/ StartStep \/ Compress \/ EndCompression \/ StepLimit \/ StreamChunk \/ StreamEnds
  \/ ProtocolError \/ RecoverTruncated \/ CallTools \/ FinalAnswer

ToolLoopSpec == ToolLoopInit /\ [][ToolLoopNext]_loopVars

-----------------------------------------------------------------------------
(* Properties.                                                             *)

ToolLoopTypeOK ==
  /\ turn \in [step : 0..MaxSteps, phase : {"ready", "compress", "stream", "decide", "ended"},
               outcome : {"running", "tooLarge", "stepLimit", "failed", "empty", "answered"}]
  /\ raw \in Seq(Piece) /\ visible \in Seq(Piece)
  /\ filter.inside \in Insides /\ filter.ticks \in 0..MaxRun
  /\ gate.decided \in BOOLEAN /\ gate.blocked \in BOOLEAN

OneShot == Gated(NewGate, Drain(TRUE)[[NewFilter EXCEPT !.pending = raw]].out).shown

\* However the provider cuts the stream, the user reads what a single chunk
\* would have shown: nothing that was shown has to be taken back, and at the
\* end nothing is missing.
ChunkingInvisible ==
  /\ turn.phase = "stream" => IsPrefix(visible, OneShot)
  /\ turn.phase = "decide" => visible = OneShot

\* A request starts with the system message and from then on alternates,
\* ending with the user's side; the results of a step follow its call or
\* have gone into a summary together with it.
PromptAlternates ==
  turn.phase = "stream" =>
    /\ prompt[1].role = "system" /\ Last(prompt).role = "user"
    /\ \A i \in 3..Len(prompt) : prompt[i].role # prompt[i - 1].role
    /\ \A i \in 2..Len(prompt) :
         prompt[i].kind = "results"
           <=> prompt[i - 1].kind = "call" /\ prompt[i].step = prompt[i - 1].step

\* The call the conversation remembers is one the parser would accept as it
\* stands and execute with the values it was executed with.
RepairSticks ==
  LET again == called.remembered IN
  /\ ~Repaired(again)
  /\ \A c \in DOMAIN AliasOf \cap (DOMAIN again \cup DOMAIN called.executed) :
       c \in DOMAIN again /\ c \in DOMAIN called.executed /\ again[c] = called.executed[c]

\* What the user reads, what the model is sent and what was executed agree,
\* whatever the chunks, the repairs and the compressions were.
ToolLoopSound == ChunkingInvisible /\ PromptAlternates /\ RepairSticks
=============================================================================
