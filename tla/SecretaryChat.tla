--------------------------- MODULE SecretaryChat ---------------------------
(***************************************************************************)
(* One conversation with the secretary.  A user's turn holds sendMu from   *)
(* its first read to its last write; the callback of a schedule reads the  *)
(* history, compresses it and asks the model without the lock, and takes   *)
(* it only to write.  Compression folds the messages before the recent     *)
(* tail into a rolling summary: each record says up to which message id    *)
(* (its cursor) the summary goes.  A message is its id, a summary the set  *)
(* of ids it covers.                                                       *)
(***************************************************************************)
EXTENDS Integers, Sequences, FiniteSets, FiniteSetsExt, SequencesExt

CONSTANTS
  Sender,      \* the user's turn (turns wait for sendMu, so one is enough)
  Callback,    \* callbacks of schedules that may run at a time
  Keep,        \* KeepTextMessages
  HeadLimit,   \* MaxMessagesToSummarize
  MaxLoopSteps,    \* MaxCompressionSteps
  KeepLast,    \* messages PruneKeepLastInConversation leaves (2000)
  TurnLength,  \* messages a turn writes
  MaxTurns,    \* bound on the turns
  MaxClears    \* bound on how often the user clears the chat

Writer == {Sender} \cup Callback

ASSUME SecretaryChatAssumption ==
  /\ Sender \notin Callback /\ "free" \notin Writer
  /\ Keep \in Nat \ {0} /\ HeadLimit \in Nat \ {0} /\ MaxLoopSteps \in Nat
  /\ KeepLast \in Nat \ {0} /\ TurnLength \in Nat \ {0}

VARIABLES
  messages,   \* chat_messages: the ids that exist
  nextId,     \* its AUTOINCREMENT counter
  records,    \* secretary_compressions, by id
  writerPc,   \* where each turn is
  mine,       \* what each turn has in hand: cursor, summary, part, steps, failed
  left,       \* messages each turn has yet to write
  chatMu,     \* sendMu
  turns, clears

chatVars == <<messages, nextId, records, writerPc, mine, left, chatMu, turns, clears>>

WriterPc == {"idle", "latest", "compress", "summarising", "prompt", "thinking",
             "locking", "writing", "prune"}
NoSummary == [cursor |-> 0, covers |-> {}]
Nothing == [cursor |-> 0, covers |-> {}, part |-> {}, steps |-> 0, failed |-> FALSE]
MessageId == 1 .. MaxTurns * TurnLength

ChatTypeOK ==
  /\ messages \subseteq MessageId
  /\ nextId \in 1 .. MaxTurns * TurnLength + 1
  /\ records \in Seq([cursor : MessageId \cup {0}, covers : SUBSET MessageId])
  /\ writerPc \in [Writer -> WriterPc]
  /\ mine \in [Writer -> [cursor : MessageId \cup {0}, covers : SUBSET MessageId,
                          part : SUBSET MessageId, steps : 0 .. MaxLoopSteps, failed : BOOLEAN]]
  /\ left \in [Writer -> 0 .. TurnLength]
  /\ chatMu \in Writer \cup {"free"}
  /\ turns \in 0 .. MaxTurns /\ clears \in 0 .. MaxClears

ChatInit ==
  /\ messages = {} /\ nextId = 1 /\ records = <<>>
  /\ writerPc = [w \in Writer |-> "idle"]
  /\ mine = [w \in Writer |-> Nothing]
  /\ left = [w \in Writer |-> 0]
  /\ chatMu = "free"
  /\ turns = 0 /\ clears = 0

-----------------------------------------------------------------------------
(* The queries of chat.Store and CompressionStore. *)

MostRecent(S, n) == {i \in S : Cardinality({k \in S : k > i}) < n}
Oldest(S, n)     == {i \in S : Cardinality({k \in S : k < i}) < n}
After(cursor)    == {i \in messages : i > cursor}
TailAfter(cursor)     == MostRecent(After(cursor), Keep)
ListAfter(cursor)     == Oldest(After(cursor), HeadLimit)
LatestRecord == IF records = <<>> THEN NoSummary ELSE Last(records)

(* maybeCompress: the messages before the kept tail, oldest first. *)
ToSummarize(cursor) ==
  IF After(cursor) = {} THEN {}
  ELSE {i \in ListAfter(cursor) : i < Min(TailAfter(cursor))}

Step(w, from, to) ==
  /\ writerPc[w] = from
  /\ writerPc' = [writerPc EXCEPT ![w] = to]

TurnBegins ==
  /\ turns < MaxTurns
  /\ turns' = turns + 1

-----------------------------------------------------------------------------
LockSend(w) == chatMu = "free" /\ chatMu' = w

(* send: the lock comes before the history. *)
SendStarts ==
  /\ Step(Sender, "idle", "latest")
  /\ TurnBegins
  /\ LockSend(Sender)
  /\ UNCHANGED <<messages, nextId, records, mine, left, clears>>

(* runScheduleCallback: no lock yet. *)
CallbackStarts(w) ==
  /\ Step(w, "idle", "latest")
  /\ TurnBegins
  /\ UNCHANGED <<messages, nextId, records, mine, left, chatMu, clears>>

(* promptHistory. *)
ReadLatest(w) ==
  /\ Step(w, "latest", "compress")
  /\ mine' = [mine EXCEPT ![w] = [Nothing EXCEPT !.cursor = LatestRecord.cursor, !.covers = LatestRecord.covers]]
  /\ UNCHANGED <<messages, nextId, records, left, chatMu, turns, clears>>

(* One round of maybeCompress reads the tail and the head.  What is         *)
(* appended between the two reads is behind the tail.                       *)
CompressReads(w) ==
  LET part == IF mine[w].steps < MaxLoopSteps THEN ToSummarize(mine[w].cursor) ELSE {}
  IN /\ Step(w, "compress", IF part = {} THEN "prompt" ELSE "summarising")
     /\ mine' = [mine EXCEPT ![w].part = part]
     /\ UNCHANGED <<messages, nextId, records, left, chatMu, turns, clears>>

AddRecord(cursor, covers) == records' = Append(records, [cursor |-> cursor, covers |-> covers])

SummaryComesFromLatest(w) ==
  LET m == mine[w]
      covers == LatestRecord.covers \cup m.part
  IN /\ Step(w, "summarising", "compress")
     /\ AddRecord(Max(m.part), covers)
     /\ mine' = [mine EXCEPT ![w].cursor = Max(m.part), ![w].covers = covers,
                             ![w].steps = @ + 1]
     /\ UNCHANGED <<messages, nextId, left, chatMu, turns, clears>>

(* The model's summary of what was in hand: another turn may have added     *)
(* records meanwhile.                                                       *)
SummaryComes(w) ==
  LET m == mine[w]
      covers == m.covers \cup m.part
  IN /\ Step(w, "summarising", "compress")
     /\ AddRecord(Max(m.part), covers)
     /\ mine' = [mine EXCEPT ![w].cursor = Max(m.part), ![w].covers = covers,
                             ![w].steps = @ + 1]
     /\ UNCHANGED <<messages, nextId, left, chatMu, turns, clears>>

(* An error or an empty summary: a record for the log, nothing folded in.   *)
SummaryFails(w) ==
  /\ Step(w, "summarising", "prompt")
  /\ AddRecord(mine[w].cursor, mine[w].covers)
  /\ mine' = [mine EXCEPT ![w].failed = TRUE]
  /\ UNCHANGED <<messages, nextId, left, chatMu, turns, clears>>

(* The prompt is the summary and TailAfter(cursor). *)
ReadTail(w) ==
  /\ Step(w, "prompt", "thinking")
  /\ UNCHANGED <<messages, nextId, records, mine, left, chatMu, turns, clears>>

(* RunLoop: a failed Send still has a reply; a callback may have none.      *)
SendReplies ==
  /\ Step(Sender, "thinking", "writing")
  /\ left' = [left EXCEPT ![Sender] = TurnLength]
  /\ UNCHANGED <<messages, nextId, records, mine, chatMu, turns, clears>>

CallbackReplies(w) ==
  /\ \/ Step(w, "thinking", "locking") /\ left' = [left EXCEPT ![w] = TurnLength]
     \/ Step(w, "thinking", "idle") /\ UNCHANGED left
  /\ UNCHANGED <<messages, nextId, records, mine, chatMu, turns, clears>>

CallbackWritesUnlocked(w) ==
  /\ Step(w, "locking", "writing")
  /\ UNCHANGED <<messages, nextId, records, mine, left, chatMu, turns, clears>>

CallbackLocks(w) ==
  /\ Step(w, "locking", "writing")
  /\ LockSend(w)
  /\ UNCHANGED <<messages, nextId, records, mine, left, turns, clears>>

(* appendRunLoopTranscript, one INSERT at a time. *)
AppendMessage(w) ==
  /\ writerPc[w] = "writing"
  /\ messages' = messages \cup {nextId}
  /\ nextId' = nextId + 1
  /\ left' = [left EXCEPT ![w] = @ - 1]
  /\ writerPc' = [writerPc EXCEPT ![w] = IF left[w] = 1 THEN "prune" ELSE "writing"]
  /\ UNCHANGED <<records, mine, chatMu, turns, clears>>

(* The deadline of the turn's context is over: what is written stays.      *)
WriteFails(w) ==
  /\ Step(w, "writing", "idle")
  /\ left' = [left EXCEPT ![w] = 0]
  /\ chatMu' = "free"
  /\ mine' = [mine EXCEPT ![w] = Nothing]
  /\ UNCHANGED <<messages, nextId, records, turns, clears>>

(* PruneKeepLastInConversation, then the lock is released. *)
Prune(w) ==
  /\ Step(w, "prune", "idle")
  /\ messages' = MostRecent(messages, KeepLast)
  /\ chatMu' = "free"
  /\ mine' = [mine EXCEPT ![w] = Nothing]
  /\ UNCHANGED <<nextId, records, left, turns, clears>>

(* ClearByConversation takes no lock and leaves the compressions alone.    *)
ClearConversation ==
  /\ clears < MaxClears
  /\ clears' = clears + 1
  /\ messages' = {}
  /\ UNCHANGED <<nextId, records, writerPc, mine, left, chatMu, turns>>

ChatNext ==
  \/ SendStarts
  \/ SendReplies
  \/ \E w \in Callback : CallbackStarts(w) \/ CallbackReplies(w) \/ CallbackLocks(w)
  \/ \E w \in Writer :
       \/ ReadLatest(w) \/ CompressReads(w) \/ SummaryComes(w) \/ SummaryFails(w)
       \/ ReadTail(w) \/ AppendMessage(w) \/ WriteFails(w) \/ Prune(w)
  \/ ClearConversation

ChatSpec == ChatInit /\ [][ChatNext]_chatVars

-----------------------------------------------------------------------------
(* Compressions of a user's turn and of callbacks overlap, the slower one   *)
(* appends the last record, messages are pruned and cleared meanwhile: yet  *)
(* the summary of every record covers exactly the messages up to its        *)
(* cursor, so that no message that still exists falls between summary and   *)
(* tail, now or in a later turn, and none is folded in twice.               *)
SummaryExact ==
  \A r \in ToSet(records) :
    /\ r.covers \subseteq 1 .. r.cursor
    /\ {i \in messages : i <= r.cursor} \subseteq r.covers

(* What a user's turn shows the model misses no message of the chat, unless *)
(* the summariser failed or had more to fold in than one turn may: the      *)
(* callback that writes meanwhile has to wait for the lock.                 *)
PromptComplete ==
  writerPc[Sender] = "prompt" /\ ~mine[Sender].failed /\ mine[Sender].steps < MaxLoopSteps
    => messages \subseteq mine[Sender].covers \cup TailAfter(mine[Sender].cursor)
=============================================================================
