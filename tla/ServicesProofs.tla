--------------------------- MODULE ServicesProofs ---------------------------
(***************************************************************************)
(* Proofs about what the secretary remembers, what the audit log shows,    *)
(* what users see of a session while processes upgrade the database, and   *)
(* how servers and daemons find each other, for any number of callbacks,   *)
(* turns, readers, processes, rows, builds, crashes and bounds.            *)
(***************************************************************************)
EXTENDS SecretaryChat, Audit, SessionKeys, Startup, TLAPS, FiniteSetTheorems, SequenceTheorems,
        WellFoundedInduction

\* Every nonempty set of naturals has a least element.
LEMMA LeastOf ==
  ASSUME NEW S \in SUBSET Nat, S # {}
  PROVE  \E m \in S : \A n \in S : m <= n
<1>1. PICK m \in S : \A n \in S : ~(<<n, m>> \in OpToRel(<, Nat))
  BY NatLessThanWellFounded, WFMin
<1>2. \A n \in S : ~(n < m)
  BY <1>1 DEF OpToRel
<1> QED BY <1>2

\* Min is that element.
LEMMA MinOf ==
  ASSUME NEW S \in SUBSET Nat, S # {}
  PROVE  Min(S) \in S /\ \A n \in S : Min(S) <= n
<1>1. \E m \in S : \A n \in S : m <= n
  BY LeastOf
<1> QED BY <1>1 DEF Min

\* A nonempty set of naturals below a bound has a greatest element, which is Max.
LEMMA MaxOf ==
  ASSUME NEW S \in SUBSET Nat, S # {}, NEW b \in Nat, \A i \in S : i < b
  PROVE  Max(S) \in S /\ \A n \in S : n <= Max(S)
<1> DEFINE Above == {n \in Nat : \A i \in S : i <= n}
<1>1. b \in Above
  OBVIOUS
<1>2. PICK m \in Above : \A n \in Above : m <= n
  BY <1>1, LeastOf
<1>3. m \in S
  <2>1. SUFFICES ASSUME m \notin S PROVE FALSE
    OBVIOUS
  <2>2. \A i \in S : i <= m /\ i # m /\ i \in Nat
    BY <1>2, <2>1
  <2> PICK i \in S : TRUE
    OBVIOUS
  <2>3. m \in Nat /\ m > 0
    BY <1>2, <2>2
  <2>4. m - 1 \in Above
    BY <2>2, <2>3
  <2>5. m <= m - 1
    BY <1>2, <2>4
  <2> QED BY <2>3, <2>5
<1>4. \E x \in S : \A y \in S : x >= y
  BY <1>2, <1>3
<1> QED BY <1>4 DEF Max

-----------------------------------------------------------------------------
(* The secretary's conversation.                                           *)

\* A summary is exact if it covers ids up to its cursor only, and all
\* messages among those.
Exact(cursor, covers) ==
  /\ cursor \in Nat /\ cursor < nextId
  /\ covers \subseteq 1 .. cursor
  /\ \A i \in messages : i <= cursor => i \in covers

\* What is being folded in follows the summary without a gap.
Folds(cursor, part) ==
  /\ part \subseteq Nat /\ part # {}
  /\ \A j \in part : cursor < j /\ j < nextId
  /\ \A j \in part : \A i \in messages : cursor < i /\ i <= j => i \in part

\* The types, with any number of messages.
ChatShape ==
  /\ nextId \in Nat \ {0} /\ messages \subseteq 1 .. nextId - 1
  /\ records \in Seq([cursor : Nat, covers : SUBSET Nat])
  /\ writerPc \in [Writer -> WriterPc]
  /\ mine \in [Writer -> [cursor : Nat, covers : SUBSET Nat, part : SUBSET Nat, steps : Nat, failed : BOOLEAN]]

RecordsExact == \A k \in DOMAIN records : Exact(records[k].cursor, records[k].covers)
TurnExact(w) ==
  /\ Exact(mine[w].cursor, mine[w].covers)
  /\ writerPc[w] = "summarising" => Folds(mine[w].cursor, mine[w].part)

\* A step that adds one record, an exact one.
RecordedExact ==
  \E r \in [cursor : Nat, covers : SUBSET Nat] : Exact(r.cursor, r.covers) /\ records' = Append(records, r)

\* The lock is held by the user's turn, and by a callback that writes.
LockHeld ==
  /\ writerPc[Sender] # "idle" => chatMu = Sender
  /\ \A w \in Callback : writerPc[w] \in {"writing", "prune"} => chatMu = w

ChatInv == ChatShape /\ RecordsExact /\ (\A w \in Writer : TurnExact(w)) /\ LockHeld /\ PromptComplete

\* Messages go away, and new ones have ids beyond all cursors: what is exact stays so.
LEMMA ExactKept ==
  ASSUME nextId \in Nat, nextId' \in Nat, nextId <= nextId',
         messages \subseteq Nat, messages' \subseteq Nat, \A i \in messages' : i \in messages \/ nextId <= i,
         NEW cursor, NEW covers, Exact(cursor, covers)
  PROVE  /\ Exact(cursor, covers)'
         /\ \A part : Folds(cursor, part) => Folds(cursor, part)'
<1>1. cursor \in Nat /\ cursor < nextId /\ cursor < nextId'
  BY DEF Exact
<1>2. Exact(cursor, covers)'
  BY <1>1 DEF Exact
<1>3. ASSUME NEW part, Folds(cursor, part) PROVE Folds(cursor, part)'
  <2>1. \A j \in part : j \in Nat /\ cursor < j /\ j < nextId
    BY <1>3 DEF Folds
  <2>2. \A j \in part : j < nextId'
    BY <2>1
  <2>3. ASSUME NEW j \in part, NEW i \in messages', cursor < i, i <= j PROVE i \in part
    BY <2>1, <2>3, <1>3 DEF Folds
  <2> QED BY <1>3, <2>1, <2>2, <2>3 DEF Folds
<1> QED BY <1>2, <1>3

\* So does a turn that the step leaves alone.
LEMMA TurnKept ==
  ASSUME ChatInv, nextId' \in Nat, nextId <= nextId',
         messages' \subseteq Nat, \A i \in messages' : i \in messages \/ nextId <= i,
         NEW w \in Writer, mine'[w] = mine[w], writerPc'[w] \in {writerPc[w], "idle"}
  PROVE  TurnExact(w)'
<1>1. nextId \in Nat /\ messages \subseteq Nat /\ TurnExact(w)
  BY DEF ChatInv, ChatShape
<1>2. Exact(mine[w].cursor, mine[w].covers)
  BY <1>1 DEF TurnExact
<1>3. \A cursor, covers : Exact(cursor, covers) =>
        Exact(cursor, covers)' /\ \A part : Folds(cursor, part) => Folds(cursor, part)'
  BY <1>1, ExactKept
<1>4. Exact(mine[w].cursor, mine[w].covers)'
  BY <1>2, <1>3
<1>5. writerPc'[w] = "summarising" => Folds(mine[w].cursor, mine[w].part)'
  BY <1>1, <1>2, <1>3 DEF TurnExact
<1> QED BY <1>4, <1>5 DEF TurnExact

-----------------------------------------------------------------------------
(* The queries.                                                            *)

\* The messages a turn has read are finitely many.
LEMMA MessagesFinite ==
  ASSUME ChatShape, NEW cursor \in Nat
  PROVE  /\ IsFiniteSet(messages) /\ messages \subseteq Nat
         /\ IsFiniteSet(After(cursor)) /\ After(cursor) \subseteq messages
         /\ \A i \in messages : i < nextId
<1>1. nextId \in Nat /\ messages \subseteq 1 .. nextId - 1 /\ IsFiniteSet(1 .. nextId - 1)
  BY FS_Interval DEF ChatShape
<1>2. IsFiniteSet(messages)
  BY <1>1, FS_Subset
<1>3. After(cursor) \subseteq messages
  BY DEF After
<1>4. IsFiniteSet(After(cursor))
  BY <1>2, <1>3, FS_Subset
<1> QED BY <1>1, <1>2, <1>3, <1>4

\* Oldest takes a head of a set of ids, and at least its first.
LEMMA OldestIsHead ==
  ASSUME NEW S \in SUBSET Nat, IsFiniteSet(S), NEW n \in Nat \ {0}
  PROVE  /\ \A j \in Oldest(S, n) : \A i \in S : i <= j => i \in Oldest(S, n)
         /\ S # {} => Min(S) \in Oldest(S, n)
<1>0. \A i \in S : i \in Nat
  OBVIOUS
<1>1. ASSUME NEW j \in Oldest(S, n), NEW i \in S, i <= j PROVE i \in Oldest(S, n)
  <2> DEFINE before(x) == {k \in S : k < x}
  <2>1. before(i) \subseteq before(j) /\ before(j) \subseteq S
    <3>1. j \in Nat /\ i \in Nat
      BY <1>0 DEF Oldest
    <3>2. \A k \in S : k < i => k < j
      BY <3>1, <1>0, <1>1
    <3> QED BY <3>2
  <2>2. IsFiniteSet(before(j))
    BY <2>1, FS_Subset
  <2>3. Cardinality(before(i)) <= Cardinality(before(j)) /\ IsFiniteSet(before(i))
    BY <2>1, <2>2, FS_Subset
  <2>4. Cardinality(before(i)) \in Nat /\ Cardinality(before(j)) \in Nat /\ Cardinality(before(j)) < n
    BY <2>2, <2>3, <1>1, FS_CardinalityType DEF Oldest
  <2>5. Cardinality(before(i)) < n
    BY <2>3, <2>4
  <2> QED BY <2>5 DEF Oldest
<1>2. ASSUME S # {} PROVE Min(S) \in Oldest(S, n)
  <2>1. Min(S) \in S /\ {k \in S : k < Min(S)} = {}
    <3>1. Min(S) \in S /\ Min(S) \in Nat /\ \A k \in S : Min(S) <= k
      BY <1>2, MinOf
    <3>2. \A k \in S : ~(k < Min(S))
      BY <3>1, <1>0
    <3> QED BY <3>1, <3>2
  <2>2. Cardinality({k \in S : k < Min(S)}) = 0
    BY <2>1, FS_EmptySet
  <2> QED BY <2>1, <2>2 DEF Oldest
<1> QED BY <1>1, <1>2

\* MostRecent takes a tail, and at least the last.
LEMMA MostRecentIsTail ==
  ASSUME NEW S \in SUBSET Nat, IsFiniteSet(S), NEW b \in Nat, \A i \in S : i < b, NEW n \in Nat \ {0}
  PROVE  /\ \A j \in MostRecent(S, n) : \A i \in S : j <= i => i \in MostRecent(S, n)
         /\ S # {} => MostRecent(S, n) # {}
         /\ MostRecent(S, n) \subseteq S
<1>0. \A i \in S : i \in Nat
  OBVIOUS
<1>1. ASSUME NEW j \in MostRecent(S, n), NEW i \in S, j <= i PROVE i \in MostRecent(S, n)
  <2> DEFINE behind(x) == {k \in S : k > x}
  <2>1. behind(i) \subseteq behind(j) /\ behind(j) \subseteq S
    <3>1. j \in Nat /\ i \in Nat
      BY <1>0 DEF MostRecent
    <3>2. \A k \in S : k > i => k > j
      BY <3>1, <1>0, <1>1
    <3> QED BY <3>2
  <2>2. IsFiniteSet(behind(j))
    BY <2>1, FS_Subset
  <2>3. Cardinality(behind(i)) <= Cardinality(behind(j)) /\ IsFiniteSet(behind(i))
    BY <2>1, <2>2, FS_Subset
  <2>4. Cardinality(behind(i)) \in Nat /\ Cardinality(behind(j)) \in Nat /\ Cardinality(behind(j)) < n
    BY <2>2, <2>3, <1>1, FS_CardinalityType DEF MostRecent
  <2>5. Cardinality(behind(i)) < n
    BY <2>3, <2>4
  <2> QED BY <2>5 DEF MostRecent
<1>2. ASSUME S # {} PROVE MostRecent(S, n) # {}
  <2>1. Max(S) \in S /\ {k \in S : k > Max(S)} = {}
    <3>1. Max(S) \in S /\ Max(S) \in Nat /\ \A k \in S : k <= Max(S)
      BY <1>2, MaxOf
    <3>2. \A k \in S : ~(k > Max(S))
      BY <3>1, <1>0
    <3> QED BY <3>1, <3>2
  <2>2. Cardinality({k \in S : k > Max(S)}) = 0
    BY <2>1, FS_EmptySet
  <2> QED BY <2>1, <2>2 DEF MostRecent
<1> QED BY <1>1, <1>2 DEF MostRecent

\* What maybeCompress takes follows the cursor without a gap.
LEMMA ToSummarizeFolds ==
  ASSUME ChatShape, NEW cursor \in Nat, ToSummarize(cursor) # {}
  PROVE  Folds(cursor, ToSummarize(cursor))
<1> DEFINE S == After(cursor)
<1>1. HeadLimit \in Nat \ {0} /\ Keep \in Nat \ {0} /\ nextId \in Nat
  BY SecretaryChatAssumption DEF ChatShape
<1>2. S # {} /\ ToSummarize(cursor) = {i \in Oldest(S, HeadLimit) : i < Min(TailAfter(cursor))}
  BY DEF ToSummarize, ListAfter
<1>3. S \subseteq Nat /\ S \subseteq messages /\ IsFiniteSet(S) /\ \A i \in S : i < nextId /\ cursor < i
  BY MessagesFinite DEF After
<1>4. \A i \in messages : cursor < i => i \in S
  BY <1>3, MessagesFinite DEF After
<1> HIDE DEF S
<1>5. TailAfter(cursor) # {} /\ TailAfter(cursor) \subseteq Nat
  BY <1>1, <1>2, <1>3, MostRecentIsTail DEF TailAfter, S
<1>6. PICK m \in Nat : m = Min(TailAfter(cursor))
  BY <1>5, MinOf
<1>7. \A j \in Oldest(S, HeadLimit) : j \in S /\ \A i \in S : i <= j => i \in Oldest(S, HeadLimit)
  BY <1>1, <1>3, OldestIsHead DEF Oldest
<1>8. ToSummarize(cursor) = {i \in Oldest(S, HeadLimit) : i < m}
  BY <1>2, <1>6
<1> HIDE DEF S
<1>9. ASSUME NEW j \in ToSummarize(cursor), NEW i \in messages, cursor < i, i <= j PROVE i \in ToSummarize(cursor)
  <2>1. i \in S /\ j \in Oldest(S, HeadLimit) /\ j \in S /\ j < m
    BY <1>4, <1>7, <1>8, <1>9
  <2>2. i \in Oldest(S, HeadLimit)
    BY <2>1, <1>7, <1>9
  <2>3. i < m
    BY <2>1, <1>3, <1>9
  <2> QED BY <2>2, <2>3, <1>8
<1>10. \A j \in ToSummarize(cursor) : j \in Nat /\ cursor < j /\ j < nextId
  BY <1>3, <1>7, <1>8
<1> QED BY <1>9, <1>10 DEF Folds

\* When there is nothing to fold in, the tail is all there is after the cursor.
LEMMA NothingToSummarize ==
  ASSUME ChatShape, NEW cursor \in Nat, ToSummarize(cursor) = {}
  PROVE  After(cursor) \subseteq TailAfter(cursor)
<1> DEFINE S == After(cursor)
<1>1. HeadLimit \in Nat \ {0} /\ Keep \in Nat \ {0} /\ nextId \in Nat
  BY SecretaryChatAssumption DEF ChatShape
<1>2. S \subseteq Nat /\ IsFiniteSet(S) /\ \A i \in S : i < nextId
  BY MessagesFinite DEF After
<1>3. CASE S # {}
  <2>1. TailAfter(cursor) \subseteq S /\ TailAfter(cursor) # {}
        /\ \A j \in TailAfter(cursor) : \A i \in S : j <= i => i \in TailAfter(cursor)
    BY <1>1, <1>2, <1>3, MostRecentIsTail DEF TailAfter
  <2>2. Min(S) \in Oldest(S, HeadLimit) /\ Min(S) \in S /\ \A i \in S : Min(S) <= i
    BY <1>1, <1>2, <1>3, OldestIsHead, MinOf
  <2>3. Min(TailAfter(cursor)) \in TailAfter(cursor)
    BY <2>1, <1>2, MinOf
  <2>4. ~(Min(S) < Min(TailAfter(cursor)))
    BY <2>2, <1>3 DEF ToSummarize, ListAfter
  <2> HIDE DEF S
  <2>5. \A i \in S : Min(TailAfter(cursor)) <= i
    <3>1. Min(S) \in Nat /\ Min(TailAfter(cursor)) \in Nat /\ \A i \in S : i \in Nat
      BY <2>1, <2>2, <2>3, <1>2
    <3> QED BY <3>1, <2>2, <2>4
  <2> QED BY <2>1, <2>3, <2>5 DEF S
<1> QED BY <1>3

-----------------------------------------------------------------------------
(* The steps.                                                              *)

\* Of no messages, and of nothing.
LEMMA NothingExact ==
  ASSUME ChatShape
  PROVE  Exact(0, {})
<1>1. nextId \in Nat \ {0} /\ \A i \in messages : i \in Nat /\ ~(i <= 0)
  BY DEF ChatShape
<1> QED BY <1>1 DEF Exact

\* The latest record is exact.
LEMMA LatestExact ==
  ASSUME ChatShape, RecordsExact
  PROVE  Exact(LatestRecord.cursor, LatestRecord.covers)
<1>1. CASE records = <<>>
  <2>1. LatestRecord = [cursor |-> 0, covers |-> {}]
    BY <1>1 DEF LatestRecord, NoSummary
  <2>2. LatestRecord.cursor = 0 /\ LatestRecord.covers = {}
    BY <2>1
  <2> QED BY <2>2, NothingExact
<1>2. CASE records # <<>>
  <2>1. Len(records) \in DOMAIN records
    BY <1>2 DEF ChatShape
  <2>2. LatestRecord = records[Len(records)]
    BY <1>2 DEF LatestRecord, Last
  <2> QED BY <2>1, <2>2 DEF RecordsExact
<1> QED BY <1>1, <1>2

\* A turn that only goes on: what it has in hand stays.
LEMMA TurnMoves ==
  ASSUME ChatInv, NEW w \in Writer, NEW to \in WriterPc \ {"summarising", "prompt"},
         writerPc' = [writerPc EXCEPT ![w] = to], UNCHANGED <<messages, nextId, records, mine>>, LockHeld'
  PROVE  ChatInv'
<1>1. nextId \in Nat /\ messages \subseteq Nat /\ ChatShape /\ writerPc \in [Writer -> WriterPc]
  BY DEF ChatInv, ChatShape
<1>2. ChatShape'
  BY <1>1 DEF ChatShape
<1>3. RecordsExact'
  BY DEF ChatInv, RecordsExact, Exact
<1>4. \A v \in Writer : TurnExact(v)'
  <2> TAKE v \in Writer
  <2>1. CASE v = w
    <3>1. writerPc'[w] = to /\ mine'[w] = mine[w] /\ TurnExact(w)
      BY <1>1 DEF ChatInv
    <3> QED BY <2>1, <3>1 DEF TurnExact, Exact
  <2>2. CASE v # w
    <3>1. writerPc'[v] = writerPc[v] /\ mine'[v] = mine[v]
      BY <1>1, <2>2
    <3> QED BY <1>1, <3>1, TurnKept
  <2> QED BY <2>1, <2>2
<1>5. PromptComplete'
  <2>1. writerPc'[Sender] = writerPc[Sender] \/ writerPc'[Sender] = to
    BY <1>1 DEF Writer
  <2>2. writerPc'[Sender] # "prompt" \/ writerPc'[Sender] = writerPc[Sender]
    BY <2>1
  <2> QED BY <2>2 DEF ChatInv, PromptComplete, TailAfter, After
<1> QED BY <1>2, <1>3, <1>4, <1>5 DEF ChatInv

\* The lock: who takes it finds it free, and who writes has it.
LEMMA LockKept ==
  ASSUME ChatInv, NEW w \in Writer, NEW to,
         writerPc' = [writerPc EXCEPT ![w] = to],
         \/ /\ chatMu' = chatMu
            /\ w = Sender => writerPc[Sender] # "idle"
            /\ w \in Callback /\ to \in {"writing", "prune"} => writerPc[w] \in {"writing", "prune"}
         \/ chatMu = "free" /\ chatMu' = w
         \/ writerPc[w] \in {"writing", "prune"} /\ to = "idle" /\ chatMu' = "free"
  PROVE  LockHeld'
<1>1. writerPc \in [Writer -> WriterPc] /\ Sender \in Writer /\ Callback \subseteq Writer
  BY DEF ChatInv, ChatShape, Writer
<1>2. /\ writerPc[Sender] # "idle" => chatMu = Sender
      /\ \A v \in Callback : writerPc[v] \in {"writing", "prune"} => chatMu = v
  BY DEF ChatInv, LockHeld
<1>3. Sender \notin Callback /\ "free" \notin Writer
  BY SecretaryChatAssumption
<1>4. writerPc'[w] = to /\ \A v \in Writer : v # w => writerPc'[v] = writerPc[v]
  BY <1>1
<1>5. CASE /\ chatMu' = chatMu
           /\ w = Sender => writerPc[Sender] # "idle"
           /\ w \in Callback /\ to \in {"writing", "prune"} => writerPc[w] \in {"writing", "prune"}
  BY <1>1, <1>2, <1>4, <1>5 DEF LockHeld
<1>6. CASE chatMu = "free" /\ chatMu' = w
  <2>1. \A v \in Writer : v # chatMu
    BY <1>3, <1>6
  <2>2. writerPc[Sender] = "idle" /\ \A v \in Callback : writerPc[v] \notin {"writing", "prune"}
    BY <1>1, <1>2, <2>1
  <2> QED BY <1>1, <1>4, <1>6, <2>2 DEF LockHeld
<1>7. CASE writerPc[w] \in {"writing", "prune"} /\ to = "idle" /\ chatMu' = "free"
  <2>1. chatMu = w
    BY <1>2, <1>7 DEF Writer
  <2>2. \A v \in Callback : v # w => writerPc[v] \notin {"writing", "prune"}
    BY <1>2, <2>1
  <2>3. w # Sender => writerPc[Sender] = "idle"
    BY <1>2, <2>1
  <2> QED BY <1>1, <1>4, <1>7, <2>2, <2>3 DEF LockHeld
<1> QED BY <1>5, <1>6, <1>7

\* A turn starts, shows the model its prompt, answers, or gets the lock.
LEMMA TurnGoesOn ==
  ASSUME ChatInv, NEW w \in Writer,
         \/ w = Sender /\ (SendStarts \/ SendReplies)
         \/ w \in Callback /\ (CallbackStarts(w) \/ CallbackReplies(w) \/ CallbackLocks(w))
         \/ ReadTail(w)
  PROVE  ChatInv'
<1>1. PICK to \in WriterPc \ {"summarising", "prompt"} :
        /\ writerPc' = [writerPc EXCEPT ![w] = to]
        /\ \/ /\ chatMu' = chatMu
              /\ w = Sender => writerPc[Sender] # "idle"
              /\ w \in Callback /\ to \in {"writing", "prune"} => writerPc[w] \in {"writing", "prune"}
           \/ chatMu = "free" /\ chatMu' = w
  <2>1. CASE w = Sender /\ (SendStarts \/ SendReplies)
    <3>1. w \notin Callback
      BY <2>1, SecretaryChatAssumption
    <3> QED BY <2>1, <3>1 DEF SendStarts, SendReplies, Step, LockSend, WriterPc
  <2>2. CASE w \in Callback /\ (CallbackStarts(w) \/ CallbackReplies(w) \/ CallbackLocks(w))
    <3>1. w # Sender
      BY <2>2, SecretaryChatAssumption
    <3> QED BY <2>2, <3>1 DEF CallbackStarts, CallbackReplies, CallbackLocks, Step, LockSend, WriterPc
  <2>3. CASE ReadTail(w)
    <3>1. "thinking" \in WriterPc \ {"summarising", "prompt"}
      BY DEF WriterPc
    <3>2. writerPc[w] = "prompt" /\ writerPc' = [writerPc EXCEPT ![w] = "thinking"] /\ chatMu' = chatMu
      BY <2>3 DEF ReadTail, Step
    <3> QED BY <3>1, <3>2
  <2> QED BY <2>1, <2>2, <2>3
<1>2. UNCHANGED <<messages, nextId, records, mine>>
  BY DEF SendStarts, SendReplies, CallbackStarts, CallbackReplies, CallbackLocks, ReadTail
<1>3. LockHeld'
  BY <1>1, LockKept
<1> QED BY <1>1, <1>2, <1>3, TurnMoves

\* A turn that writes to its hand only: what it holds then is exact.
LEMMA HandChanges ==
  ASSUME ChatInv, NEW w \in Writer, NEW to \in WriterPc,
         NEW hand \in [cursor : Nat, covers : SUBSET Nat, part : SUBSET Nat, steps : Nat, failed : BOOLEAN],
         mine' = [mine EXCEPT ![w] = hand], writerPc' = [writerPc EXCEPT ![w] = to],
         UNCHANGED <<messages, nextId, chatMu>>, writerPc[w] \notin {"idle", "writing", "prune"}, to \notin {"writing", "prune"},
         Exact(hand.cursor, hand.covers), to = "summarising" => Folds(hand.cursor, hand.part),
         to # "prompt" \/ hand.failed \/ ~(hand.steps < MaxLoopSteps) \/ After(hand.cursor) \subseteq TailAfter(hand.cursor),
         \/ records' = records
         \/ RecordedExact
  PROVE  ChatInv'
<1>1. /\ nextId \in Nat /\ nextId' = nextId /\ messages' = messages /\ messages \subseteq Nat /\ ChatShape
      /\ writerPc \in [Writer -> WriterPc] /\ RecordsExact
      /\ mine \in [Writer -> [cursor : Nat, covers : SUBSET Nat, part : SUBSET Nat, steps : Nat, failed : BOOLEAN]]
      /\ records \in Seq([cursor : Nat, covers : SUBSET Nat])
  BY DEF ChatInv, ChatShape
<1>2. mine'[w] = hand /\ writerPc'[w] = to
  BY <1>1
<1>3. records' \in Seq([cursor : Nat, covers : SUBSET Nat]) /\ RecordsExact'
  <2>1. CASE records' = records
    BY <1>1, <2>1 DEF RecordsExact, Exact
  <2>2. CASE RecordedExact
    <3>1. PICK r \in [cursor : Nat, covers : SUBSET Nat] : Exact(r.cursor, r.covers) /\ records' = Append(records, r)
      BY <2>2 DEF RecordedExact
    <3>4. PICK n \in Nat : n = Len(records)
      BY <1>1
    <3>5. /\ records' \in Seq([cursor : Nat, covers : SUBSET Nat])
          /\ DOMAIN records' = 1 .. n + 1 /\ DOMAIN records = 1 .. n
          /\ records'[n + 1] = r /\ \A k \in 1 .. n : records'[k] = records[k]
      BY <1>1, <3>1, <3>4
    <3>6. ASSUME NEW k \in 1 .. n + 1 PROVE Exact(records'[k].cursor, records'[k].covers)
      <4>1. CASE k = n + 1
        BY <4>1, <3>1, <3>5
      <4>2. CASE k # n + 1
        <5>1. k \in 1 .. n
          BY <4>2, <3>4
        <5> QED BY <5>1, <3>5, <1>1 DEF RecordsExact
      <4> QED BY <4>1, <4>2
    <3> QED BY <3>5, <3>6, <1>1 DEF RecordsExact, Exact
  <2> QED BY <2>1, <2>2
<1>4. ChatShape'
  BY <1>1, <1>3 DEF ChatShape
<1>5. \A v \in Writer : TurnExact(v)'
  <2> TAKE v \in Writer
  <2>1. CASE v = w
    BY <1>1, <1>2, <2>1 DEF TurnExact, Exact, Folds
  <2>2. CASE v # w
    <3>1. writerPc'[v] = writerPc[v] /\ mine'[v] = mine[v]
      BY <1>1, <2>2
    <3> QED BY <1>1, <3>1, TurnKept
  <2> QED BY <2>1, <2>2
<1>6. LockHeld'
  BY LockKept
<1>7. PromptComplete'
  <2>1. CASE w = Sender
    <3>1. SUFFICES ASSUME to = "prompt", ~hand.failed, hand.steps < MaxLoopSteps
                   PROVE  messages \subseteq hand.covers \cup TailAfter(hand.cursor)
      BY <1>1, <1>2, <2>1 DEF PromptComplete, TailAfter, After
    <3>2. After(hand.cursor) \subseteq TailAfter(hand.cursor)
      BY <3>1
    <3>3. \A i \in messages : i \in Nat /\ (i <= hand.cursor => i \in hand.covers)
      BY <1>1 DEF Exact
    <3>4. \A i \in messages : i > hand.cursor => i \in After(hand.cursor)
      BY DEF After
    <3>5. hand.cursor \in Nat
      OBVIOUS
    <3> QED BY <3>2, <3>3, <3>4, <3>5
  <2>2. CASE w # Sender
    <3>1. writerPc'[Sender] = writerPc[Sender] /\ mine'[Sender] = mine[Sender]
      BY <1>1, <2>2 DEF Writer
    <3> QED BY <1>1, <3>1 DEF ChatInv, PromptComplete, TailAfter, After
  <2> QED BY <2>1, <2>2
<1> QED BY <1>3, <1>4, <1>5, <1>6, <1>7 DEF ChatInv

\* promptHistory takes the latest record.
LEMMA ReadLatestStep ==
  ASSUME ChatInv, NEW w \in Writer, ReadLatest(w)
  PROVE  ChatInv'
<1>1. PICK hand : hand = [Nothing EXCEPT !.cursor = LatestRecord.cursor, !.covers = LatestRecord.covers]
  OBVIOUS
<1>2. Exact(LatestRecord.cursor, LatestRecord.covers)
  BY LatestExact DEF ChatInv
<1>3. LatestRecord.cursor \in Nat /\ LatestRecord.covers \in SUBSET Nat
  BY <1>2 DEF Exact
<1>4. /\ hand \in [cursor : Nat, covers : SUBSET Nat, part : SUBSET Nat, steps : Nat, failed : BOOLEAN]
      /\ hand.cursor = LatestRecord.cursor /\ hand.covers = LatestRecord.covers
  BY <1>1, <1>3 DEF Nothing
<1>5. /\ mine' = [mine EXCEPT ![w] = hand] /\ writerPc[w] = "latest"
      /\ writerPc' = [writerPc EXCEPT ![w] = "compress"] /\ UNCHANGED <<messages, nextId, chatMu, records>>
  BY <1>1 DEF ReadLatest, Step
<1>6. "compress" \in WriterPc
  BY DEF WriterPc
<1> QED BY <1>2, <1>4, <1>5, <1>6, HandChanges

\* A round of maybeCompress: what it takes follows the cursor, and if it takes
\* nothing the tail is all.
LEMMA CompressReadsStep ==
  ASSUME ChatInv, NEW w \in Writer, CompressReads(w)
  PROVE  ChatInv'
<1>1. PICK m \in [cursor : Nat, covers : SUBSET Nat, part : SUBSET Nat, steps : Nat, failed : BOOLEAN] : m = mine[w]
  BY DEF ChatInv, ChatShape
<1>2. Exact(m.cursor, m.covers) /\ ChatShape
  BY <1>1 DEF ChatInv, TurnExact
<1>3. PICK part : part = IF m.steps < MaxLoopSteps THEN ToSummarize(m.cursor) ELSE {}
  OBVIOUS
<1>4. PICK to : to = IF part = {} THEN "prompt" ELSE "summarising"
  OBVIOUS
<1>5. PICK hand : hand = [m EXCEPT !.part = part]
  OBVIOUS
<1>6. /\ writerPc[w] = "compress" /\ writerPc' = [writerPc EXCEPT ![w] = to]
      /\ mine' = [mine EXCEPT ![w] = hand] /\ UNCHANGED <<messages, nextId, records, chatMu>>
  <2>1. mine' = [mine EXCEPT ![w].part = part] /\ writerPc[w] = "compress"
        /\ writerPc' = [writerPc EXCEPT ![w] = to] /\ UNCHANGED <<messages, nextId, records, chatMu>>
    BY <1>1, <1>3, <1>4 DEF CompressReads, Step
  <2> QED BY <2>1, <1>1, <1>5
<1>7. part # {} => Folds(m.cursor, part)
  BY <1>2, <1>3, ToSummarizeFolds
<1>8. part \subseteq Nat
  BY <1>7 DEF Folds
<1>9. /\ hand \in [cursor : Nat, covers : SUBSET Nat, part : SUBSET Nat, steps : Nat, failed : BOOLEAN]
      /\ hand.cursor = m.cursor /\ hand.covers = m.covers /\ hand.part = part /\ hand.steps = m.steps
  BY <1>5, <1>8
<1>10. to # "prompt" \/ ~(hand.steps < MaxLoopSteps) \/ After(hand.cursor) \subseteq TailAfter(hand.cursor)
  BY <1>2, <1>3, <1>4, <1>9, NothingToSummarize
<1>11. to \in WriterPc /\ to \notin {"writing", "prune"} /\ (to = "summarising" => part # {})
  BY <1>4 DEF WriterPc
<1> QED BY <1>2, <1>6, <1>7, <1>9, <1>10, <1>11, HandChanges

\* A summary with what was folded in is exact again.
LEMMA FoldedExact ==
  ASSUME ChatShape, NEW cursor, NEW covers, NEW part, Exact(cursor, covers), Folds(cursor, part)
  PROVE  Max(part) \in Nat /\ Exact(Max(part), covers \cup part)
<1>1. nextId \in Nat /\ part \subseteq Nat /\ part # {} /\ \A j \in part : j \in Nat /\ j < nextId /\ cursor < j
  BY DEF ChatShape, Folds
<1>2. Max(part) \in part /\ \A j \in part : j <= Max(part)
  BY <1>1, MaxOf
<1>3. PICK m \in Nat : m = Max(part)
  BY <1>1, <1>2
<1>4. cursor \in Nat /\ covers \subseteq 1 .. cursor /\ m \in part /\ cursor < m /\ m < nextId /\ \A j \in part : j <= m
  BY <1>1, <1>2, <1>3 DEF Exact
<1>5. covers \cup part \subseteq 1 .. m
  BY <1>1, <1>4
<1>6. ASSUME NEW i \in messages, i <= m PROVE i \in covers \cup part
  <2>1. i \in Nat
    BY DEF ChatShape
  <2>2. CASE i <= cursor
    BY <2>2 DEF Exact
  <2>3. CASE cursor < i
    BY <2>3, <1>4, <1>6 DEF Folds
  <2> QED BY <2>1, <2>2, <2>3, <1>4
<1> QED BY <1>3, <1>4, <1>5, <1>6 DEF Exact

\* The summary is folded into what was in hand, and recorded.
LEMMA SummaryComesStep ==
  ASSUME ChatInv, NEW w \in Writer, SummaryComes(w)
  PROVE  ChatInv'
<1>1. PICK m \in [cursor : Nat, covers : SUBSET Nat, part : SUBSET Nat, steps : Nat, failed : BOOLEAN] : m = mine[w]
  BY DEF ChatInv, ChatShape
<1>2. ChatShape /\ Exact(m.cursor, m.covers) /\ Folds(m.cursor, m.part)
  BY <1>1 DEF ChatInv, TurnExact, SummaryComes, Step
<1>3. PICK cursor : cursor = Max(m.part)
  OBVIOUS
<1>4. PICK covers : covers = m.covers \cup m.part
  OBVIOUS
<1>5. cursor \in Nat /\ Exact(cursor, covers) /\ covers \subseteq Nat
  BY <1>2, <1>3, <1>4, FoldedExact
<1>6. PICK hand : hand = [m EXCEPT !.cursor = cursor, !.covers = covers, !.steps = @ + 1]
  OBVIOUS
<1>7. /\ hand \in [cursor : Nat, covers : SUBSET Nat, part : SUBSET Nat, steps : Nat, failed : BOOLEAN]
      /\ hand.cursor = cursor /\ hand.covers = covers
  <2>1. m.steps + 1 \in Nat /\ m.part \in SUBSET Nat /\ m.failed \in BOOLEAN
    OBVIOUS
  <2>2. hand = [cursor |-> cursor, covers |-> covers, part |-> m.part, steps |-> m.steps + 1, failed |-> m.failed]
    BY <1>6
  <2> QED BY <1>5, <2>1, <2>2
<1>8. /\ writerPc[w] = "summarising" /\ writerPc' = [writerPc EXCEPT ![w] = "compress"]
      /\ AddRecord(cursor, covers) /\ UNCHANGED <<messages, nextId, chatMu>>
      /\ mine' = [mine EXCEPT ![w].cursor = cursor, ![w].covers = covers, ![w].steps = @ + 1]
  BY <1>1, <1>3, <1>4 DEF SummaryComes, Step
<1>9. mine' = [mine EXCEPT ![w] = hand]
  BY <1>1, <1>6, <1>8 DEF ChatInv, ChatShape
<1>10. "compress" \in WriterPc /\ RecordedExact
  <2> DEFINE r == [cursor |-> cursor, covers |-> covers]
  <2>1. r \in [cursor : Nat, covers : SUBSET Nat] /\ Exact(r.cursor, r.covers)
    BY <1>5
  <2>2. records' = Append(records, r)
    BY <1>8 DEF AddRecord
  <2> HIDE DEF r
  <2> QED BY <2>1, <2>2 DEF WriterPc, RecordedExact
<1>11. Exact(hand.cursor, hand.covers)
  BY <1>5, <1>7
<1>12. /\ writerPc[w] \notin {"idle", "writing", "prune"} /\ writerPc' = [writerPc EXCEPT ![w] = "compress"]
       /\ UNCHANGED <<messages, nextId, chatMu>>
  BY <1>8
<1> QED BY <1>7, <1>9, <1>10, <1>11, <1>12, HandChanges

\* A failed one leaves a record of what was in hand.
LEMMA SummaryFailsStep ==
  ASSUME ChatInv, NEW w \in Writer, SummaryFails(w)
  PROVE  ChatInv'
<1>1. PICK m \in [cursor : Nat, covers : SUBSET Nat, part : SUBSET Nat, steps : Nat, failed : BOOLEAN] : m = mine[w]
  BY DEF ChatInv, ChatShape
<1>2. Exact(m.cursor, m.covers)
  BY <1>1 DEF ChatInv, TurnExact
<1>3. PICK hand : hand = [m EXCEPT !.failed = TRUE]
  OBVIOUS
<1>4. /\ hand \in [cursor : Nat, covers : SUBSET Nat, part : SUBSET Nat, steps : Nat, failed : BOOLEAN]
      /\ hand.cursor = m.cursor /\ hand.covers = m.covers /\ hand.failed
  BY <1>3
<1>5. /\ writerPc[w] = "summarising" /\ writerPc' = [writerPc EXCEPT ![w] = "prompt"]
      /\ AddRecord(m.cursor, m.covers) /\ UNCHANGED <<messages, nextId, chatMu>>
      /\ mine' = [mine EXCEPT ![w].failed = TRUE]
  BY <1>1 DEF SummaryFails, Step
<1>6. mine' = [mine EXCEPT ![w] = hand]
  BY <1>1, <1>3, <1>5
<1>7. "prompt" \in WriterPc /\ RecordedExact
  <2> DEFINE r == [cursor |-> m.cursor, covers |-> m.covers]
  <2>1. r \in [cursor : Nat, covers : SUBSET Nat] /\ Exact(r.cursor, r.covers)
    BY <1>2
  <2>2. records' = Append(records, r)
    BY <1>5 DEF AddRecord
  <2> HIDE DEF r
  <2> QED BY <2>1, <2>2 DEF WriterPc, RecordedExact
<1>8. Exact(hand.cursor, hand.covers)
  BY <1>2, <1>4
<1>9. /\ writerPc[w] \notin {"idle", "writing", "prune"} /\ writerPc' = [writerPc EXCEPT ![w] = "prompt"]
      /\ UNCHANGED <<messages, nextId, chatMu>>
  BY <1>5
<1> QED BY <1>4, <1>6, <1>7, <1>8, <1>9, HandChanges

\* A turn that holds the lock writes: the user's turn is that one or rests.
LEMMA WriterAlone ==
  ASSUME ChatInv, NEW w \in Writer, writerPc[w] \in {"writing", "prune"}
  PROVE  w # Sender => writerPc[Sender] = "idle"
<1>1. w # Sender => w \in Callback
  BY DEF Writer
<1> QED BY <1>1 DEF ChatInv, LockHeld

\* The messages written, given up or pruned.
LEMMA WriteSteps ==
  ASSUME ChatInv, NEW w \in Writer, AppendMessage(w) \/ WriteFails(w) \/ Prune(w)
  PROVE  ChatInv'
<1>1. /\ nextId \in Nat \ {0} /\ messages \subseteq 1 .. nextId - 1 /\ ChatShape
      /\ writerPc \in [Writer -> WriterPc] /\ RecordsExact
      /\ mine \in [Writer -> [cursor : Nat, covers : SUBSET Nat, part : SUBSET Nat, steps : Nat, failed : BOOLEAN]]
  BY DEF ChatInv, ChatShape
<1>2. /\ writerPc[w] \in {"writing", "prune"} /\ records' = records
      /\ nextId' \in {nextId, nextId + 1} /\ messages' \subseteq messages \cup {nextId} /\ messages' \subseteq 1 .. nextId' - 1
  <2>1. CASE AppendMessage(w)
    BY <1>1, <2>1 DEF AppendMessage
  <2>2. CASE WriteFails(w)
    BY <1>1, <2>2 DEF WriteFails, Step
  <2>3. CASE Prune(w)
    BY <1>1, <2>3 DEF Prune, Step, MostRecent
  <2> QED BY <2>1, <2>2, <2>3
<1>3. PICK to \in {"writing", "prune", "idle"} :
        /\ writerPc' = [writerPc EXCEPT ![w] = to]
        /\ \/ chatMu' = chatMu /\ to # "idle" /\ mine' = mine
           \/ chatMu' = "free" /\ to = "idle" /\ mine' = [mine EXCEPT ![w] = Nothing]
  <2>1. CASE AppendMessage(w)
    <3>1. PICK to : to = IF left[w] = 1 THEN "prune" ELSE "writing"
      OBVIOUS
    <3>2. writerPc' = [writerPc EXCEPT ![w] = to] /\ chatMu' = chatMu /\ mine' = mine
      BY <2>1, <3>1 DEF AppendMessage
    <3> QED BY <3>1, <3>2
  <2>2. CASE WriteFails(w)
    BY <2>2 DEF WriteFails, Step
  <2>3. CASE Prune(w)
    BY <2>3 DEF Prune, Step
  <2> QED BY <2>1, <2>2, <2>3
<1>4. LockHeld'
  BY <1>2, <1>3, LockKept
<1>5. /\ nextId' \in Nat \ {0} /\ nextId <= nextId' /\ messages \subseteq Nat /\ messages' \subseteq Nat
      /\ \A i \in messages' : i \in messages \/ nextId <= i
  BY <1>1, <1>2
<1>6. \A cursor, covers : Exact(cursor, covers) => Exact(cursor, covers)'
  BY <1>1, <1>5, ExactKept
<1>7. RecordsExact'
  BY <1>1, <1>2, <1>6 DEF RecordsExact
<1>8. ChatShape'
  <2>1. Nothing \in [cursor : Nat, covers : SUBSET Nat, part : SUBSET Nat, steps : Nat, failed : BOOLEAN]
    BY DEF Nothing
  <2>2. to \in WriterPc
    BY DEF WriterPc
  <2>3. writerPc' \in [Writer -> WriterPc]
    BY <1>1, <1>3, <2>2
  <2>4. mine' \in [Writer -> [cursor : Nat, covers : SUBSET Nat, part : SUBSET Nat, steps : Nat, failed : BOOLEAN]]
    BY <1>1, <1>3, <2>1
  <2> QED BY <1>1, <1>2, <1>5, <2>3, <2>4 DEF ChatShape
<1>9. \A v \in Writer : TurnExact(v)'
  <2> TAKE v \in Writer
  <2>1. CASE v = w /\ mine' # mine
    <3>1. mine'[w] = Nothing /\ writerPc'[w] # "summarising"
      BY <1>1, <1>3, <2>1
    <3>2. mine'[w].cursor = 0 /\ mine'[w].covers = {}
      BY <3>1 DEF Nothing
    <3>3. Exact(0, {})'
      BY <1>6, <1>1, NothingExact
    <3> QED BY <2>1, <3>1, <3>2, <3>3 DEF TurnExact
  <2>2. CASE v = w /\ mine' = mine
    <3>1. writerPc'[w] # "summarising" /\ TurnExact(w)
      BY <1>1, <1>3 DEF ChatInv
    <3> QED BY <2>2, <3>1, <1>6 DEF TurnExact
  <2>3. CASE v # w
    <3>1. writerPc'[v] = writerPc[v] /\ mine'[v] = mine[v]
      BY <1>1, <1>3, <2>3
    <3> QED BY <1>5, <3>1, TurnKept
  <2> QED BY <2>1, <2>2, <2>3
<1>10. PromptComplete'
  <2>1. writerPc'[Sender] # "prompt"
    BY <1>1, <1>2, <1>3, WriterAlone DEF Writer
  <2> QED BY <2>1 DEF PromptComplete
<1> QED BY <1>4, <1>7, <1>8, <1>9, <1>10 DEF ChatInv

\* The user clears the chat, whoever is in the middle of what.
LEMMA ClearStep ==
  ASSUME ChatInv, ClearConversation
  PROVE  ChatInv'
<1>1. /\ nextId \in Nat \ {0} /\ messages \subseteq Nat /\ messages' = {}
      /\ UNCHANGED <<nextId, records, writerPc, mine, chatMu>> /\ nextId <= nextId'
  BY DEF ChatInv, ChatShape, ClearConversation
<1>2. \A cursor, covers : Exact(cursor, covers) => Exact(cursor, covers)'
  BY <1>1, ExactKept
<1>3. RecordsExact'
  BY <1>1, <1>2 DEF ChatInv, RecordsExact
<1>4. \A v \in Writer : TurnExact(v)'
  BY <1>1, TurnKept
<1>5. ChatShape' /\ LockHeld' /\ PromptComplete'
  BY <1>1 DEF ChatInv, ChatShape, LockHeld, PromptComplete
<1> QED BY <1>3, <1>4, <1>5 DEF ChatInv

\* The invariant is inductive.
LEMMA ChatInvInductive ==
  /\ ChatInit => ChatInv
  /\ ChatInv /\ [ChatNext]_chatVars => ChatInv'
<1>1. ASSUME ChatInit PROVE ChatInv
  <2>1. /\ messages = {} /\ nextId = 1 /\ records = <<>> /\ chatMu = "free"
        /\ writerPc = [w \in Writer |-> "idle"] /\ mine = [w \in Writer |-> Nothing]
    BY <1>1 DEF ChatInit
  <2>2. ChatShape
    BY <2>1 DEF ChatShape, Nothing, WriterPc
  <2>3. RecordsExact /\ LockHeld /\ PromptComplete
    BY <2>1 DEF RecordsExact, LockHeld, PromptComplete, Writer
  <2>4. ASSUME NEW w \in Writer PROVE TurnExact(w)
    <3>1. mine[w].cursor = 0 /\ mine[w].covers = {} /\ writerPc[w] # "summarising"
      BY <2>1 DEF Nothing
    <3> QED BY <3>1, <2>2, NothingExact DEF TurnExact
  <2> QED BY <2>2, <2>3, <2>4 DEF ChatInv
<1>2. ASSUME ChatInv, [ChatNext]_chatVars PROVE ChatInv'
  <2>1. CASE SendStarts \/ SendReplies
    <3>1. Sender \in Writer
      BY DEF Writer
    <3> QED BY <1>2, <2>1, <3>1, TurnGoesOn
  <2>2. CASE \E w \in Callback : CallbackStarts(w) \/ CallbackReplies(w) \/ CallbackLocks(w)
    <3>1. Callback \subseteq Writer
      BY DEF Writer
    <3> QED BY <1>2, <2>2, <3>1, TurnGoesOn
  <2>3. ASSUME NEW w \in Writer,
               \/ ReadLatest(w) \/ CompressReads(w) \/ SummaryComes(w) \/ SummaryFails(w)
               \/ ReadTail(w) \/ AppendMessage(w) \/ WriteFails(w) \/ Prune(w)
        PROVE  ChatInv'
    BY <1>2, <2>3, ReadLatestStep, CompressReadsStep, SummaryComesStep, SummaryFailsStep, TurnGoesOn, WriteSteps
  <2>4. CASE ClearConversation
    BY <1>2, <2>4, ClearStep
  <2>5. CASE UNCHANGED chatVars
    BY <1>2, <2>5 DEF chatVars, ChatInv, ChatShape, RecordsExact, TurnExact, Exact, Folds, LockHeld,
      PromptComplete, TailAfter, After
  <2> QED BY <1>2, <2>1, <2>2, <2>3, <2>4, <2>5 DEF ChatNext
<1> QED BY <1>1, <1>2

\* The rolling summary: every record covers the messages up to its cursor and
\* nothing beyond, though the compressions of a user's turn and of any number
\* of callbacks overlap, and messages are pruned and cleared meanwhile
\* (maybeCompress, SaveCompression).
THEOREM SummariesStayExact == ChatSpec => []SummaryExact
<1>1. ChatInv => SummaryExact
  <2> SUFFICES ASSUME ChatInv, NEW r \in ToSet(records)
               PROVE  r.covers \subseteq 1 .. r.cursor /\ {i \in messages : i <= r.cursor} \subseteq r.covers
    BY DEF SummaryExact
  <2>1. PICK k \in DOMAIN records : r = records[k]
    BY DEF ToSet
  <2>2. Exact(r.cursor, r.covers)
    BY <2>1 DEF ChatInv, RecordsExact
  <2> QED BY <2>2 DEF Exact
<1> QED BY <1>1, ChatInvInductive, PTL DEF ChatSpec

\* The prompt of a user's turn: it holds sendMu, so the callback that wants to
\* write waits, and what the turn did not fold in is in the tail it shows
\* (promptHistory, runScheduleCallback).
THEOREM PromptsAreComplete == ChatSpec => []PromptComplete
<1>1. ChatInv => PromptComplete
  BY DEF ChatInv
<1> QED BY <1>1, ChatInvInductive, PTL DEF ChatSpec

-----------------------------------------------------------------------------
(* The orders of the audit log.                                            *)

\* A finite set has a last element in any strict order.
LEMMA LastOf ==
  ASSUME NEW T, IsFiniteSet(T), T # {}, NEW R \in SUBSET (T \X T),
         \A a \in T : <<a, a>> \notin R,
         \A a, b, c \in T : <<a, b>> \in R /\ <<b, c>> \in R => <<a, c>> \in R
  PROVE  \E e \in T : \A o \in T : <<e, o>> \notin R
<1> DEFINE behind(e) == {o \in T : <<e, o>> \in R}
           Ranks == {Cardinality(behind(e)) : e \in T}
<1>0. \A e \in T : Cardinality(behind(e)) \in Ranks
  <2> HIDE DEF behind
  <2> QED OBVIOUS
<1>1. \A e \in T : IsFiniteSet(behind(e)) /\ Cardinality(behind(e)) \in Nat
  <2> TAKE e \in T
  <2>1. behind(e) \subseteq T
    OBVIOUS
  <2> HIDE DEF behind
  <2> QED BY <2>1, FS_Subset, FS_CardinalityType
<1>2. Ranks \subseteq Nat /\ Ranks # {}
  <2>1. PICK e \in T : TRUE
    OBVIOUS
  <2>2. Cardinality(behind(e)) \in Ranks
    BY <1>0
  <2>3. ASSUME NEW x \in Ranks PROVE x \in Nat
    <3>1. PICK d \in T : x = Cardinality(behind(d))
      OBVIOUS
    <3> HIDE DEF behind
    <3> QED BY <1>1, <3>1
  <2> QED BY <2>2, <2>3
<1>3. PICK m \in Ranks : \A n \in Ranks : m <= n
  BY <1>2, LeastOf
<1>4. PICK e \in T : m = Cardinality(behind(e))
  BY <1>3
<1>5. ASSUME NEW o \in T, <<e, o>> \in R PROVE FALSE
  <2>1. behind(o) \subseteq behind(e) /\ o \in behind(e) /\ o \notin behind(o)
    BY <1>5
  <2>3. Cardinality(behind(o)) \in Ranks
    BY <1>0
  <2> HIDE DEF behind, Ranks
  <2>2. Cardinality(behind(o)) <= Cardinality(behind(e)) /\ Cardinality(behind(o)) # Cardinality(behind(e))
    BY <1>1, <2>1, FS_Subset
  <2>4. m <= Cardinality(behind(o)) /\ m \in Nat /\ Cardinality(behind(o)) \in Nat
    BY <1>1, <1>2, <1>3, <2>3
  <2> QED BY <1>4, <2>2, <2>4
<1> QED BY <1>5

\* Rows of a table by time and id: what comes after a row that is not newer comes after.
LEMMA NewerOrder ==
  ASSUME NEW a \in AuditRow, NEW b \in AuditRow, NEW c \in AuditRow
  PROVE  /\ ~NewerRow(a, a)
         /\ NewerRow(a, b) /\ NewerRow(b, c) => NewerRow(a, c)
         /\ NewerRow(a, c) /\ ~NewerRow(b, c) => NewerRow(a, b)
<1>1. /\ a.at \in Nat /\ b.at \in Nat /\ c.at \in Nat
      /\ a.id \in Nat /\ b.id \in Nat /\ c.id \in Nat
  BY DEF AuditRow
<1> QED BY <1>1 DEF NewerRow

\* Entries of the merged list: the same of their order, by time, source and
\* the id as a text.
LEMMA ListedOrder ==
  ASSUME NEW a \in AuditRow, NEW b \in AuditRow, NEW c \in AuditRow
  PROVE  /\ ~ListedBefore(a, a)
         /\ ListedBefore(a, b) /\ ListedBefore(b, c) => ListedBefore(a, c)
         /\ ListedBefore(a, c) /\ ~ListedBefore(b, c) => ListedBefore(a, b)
<1>1. /\ a.at \in Nat /\ b.at \in Nat /\ c.at \in Nat
      /\ a.id \in Nat /\ b.id \in Nat /\ c.id \in Nat
      /\ a.source \in Source /\ b.source \in Source /\ c.source \in Source
  BY DEF AuditRow
<1>2. \A s \in Source : SourceRank(s) \in Nat
  BY DEF Source, SourceRank
<1>3. \A s, t \in Source : SourceRank(s) = SourceRank(t) => s = t
  BY DEF Source, SourceRank
<1>4. \A n \in Nat : Digits(n) \in Int
  BY DEF Digits
<1>5. PICK x \in Int, y \in Int, z \in Int : x = Digits(a.id) /\ y = Digits(b.id) /\ z = Digits(c.id)
  BY <1>1, <1>4
<1>6. PICK k \in Nat, l \in Nat, m \in Nat :
        /\ k = SourceRank(a.source) /\ l = SourceRank(b.source) /\ m = SourceRank(c.source)
        /\ (a.source = b.source <=> k = l) /\ (b.source = c.source <=> l = m) /\ (a.source = c.source <=> k = m)
  BY <1>1, <1>2, <1>3
<1>7. /\ ListedBefore(a, b) <=> a.at > b.at \/ (a.at = b.at /\ (k > l \/ (k = l /\ x > y)))
      /\ ListedBefore(b, c) <=> b.at > c.at \/ (b.at = c.at /\ (l > m \/ (l = m /\ y > z)))
      /\ ListedBefore(a, c) <=> a.at > c.at \/ (a.at = c.at /\ (k > m \/ (k = m /\ x > z)))
      /\ ListedBefore(a, a) <=> a.at > a.at \/ (a.at = a.at /\ (k > k \/ (k = k /\ x > x)))
  BY <1>5, <1>6 DEF ListedBefore, GreaterId
<1> QED BY <1>1, <1>7

\* A query that takes as many rows as there are takes them all.
LEMMA NewestAll ==
  ASSUME NEW rows \in SUBSET AuditRow, IsFiniteSet(rows), NEW n \in Nat, Cardinality(rows) <= n
  PROVE  NewestRows(rows, n) = rows
<1>1. ASSUME NEW r \in rows PROVE Cardinality({o \in rows : NewerRow(o, r)}) < n
  <2> DEFINE newer == {o \in rows : NewerRow(o, r)}
  <2>1. newer \subseteq rows /\ r \in rows /\ r \notin newer
    BY NewerOrder
  <2> HIDE DEF newer
  <2>2. Cardinality(newer) <= Cardinality(rows) /\ Cardinality(newer) # Cardinality(rows) /\ IsFiniteSet(newer)
    BY <2>1, FS_Subset
  <2>3. Cardinality(newer) \in Nat /\ Cardinality(rows) \in Nat
    BY <2>2, FS_CardinalityType
  <2> QED BY <2>2, <2>3 DEF newer
<1> QED BY <1>1 DEF NewestRows

-----------------------------------------------------------------------------
(* The pages of the audit log.                                             *)

PageField == {"query", "cursor", "more", "asking", "left", "got", "base", "shown", "fits", "open"}

\* A page under way, however many rows there are.
PageShape(p) ==
  /\ p = [f \in PageField |-> p[f]]
  /\ p.cursor \in AuditRow \cup {NoRow} /\ p.left \in Seq(Source)
  /\ p.more \in BOOLEAN /\ p.asking \in BOOLEAN /\ p.fits \in BOOLEAN
  /\ IsFiniteSet(p.got) /\ p.got \subseteq AuditRow

\* Where an entry of the first page may be: shown, or beyond the cursor, which
\* is there once a page has been answered; and while the sources are read, in
\* what was got or in a source yet to be read.
Ahead(p, e)   == e \in p.shown \/ OlderThanCursor(e, p.cursor)
Reached(p, e) == e \in p.got \/ \E i \in DOMAIN p.left : p.left[i] = e.source
Answered(p, e) == e \in p.shown \/ (p.more /\ OlderThanCursor(e, p.cursor) /\ p.cursor # NoRow)

PageHeld(p) ==
  /\ \A e \in p.base : e \in auRows /\ e.source \in Listed /\ e \in Matches(p.query, e.source)
  /\ p.fits /\ p.asking => \A e \in p.base : Ahead(p, e) /\ Reached(p, e)
  /\ p.fits /\ ~p.asking => \A e \in p.base : Answered(p, e)

\* The rows: a task has one trace, and what was ever written includes what is there.
RowsShape ==
  /\ auNow \in 1 .. MaxTime /\ auWritten \in Nat
  /\ auEver \subseteq AuditRow /\ IsFiniteSet(auEver) /\ auRows \subseteq auEver
  /\ \A a, b \in auEver : a.source = "task_trace" /\ b.source = "task_trace" /\ a.id = b.id => a = b

PagesShape == /\ auPage = [r \in Reader |-> auPage[r]]
              /\ \A r \in Reader : PageShape(auPage[r]) /\ PageHeld(auPage[r])

\* The retention loop: when it is about to delete by count, the rows that are
\* not older than the cutoff are enough.
NotOlder(cut, s) == {o \in InTable(s) : ~NewerRow(cut, o)}
GcShape ==
  /\ auGc \in [left : Seq(Source), at : {"age", "cutoff", "count"}, cut : AuditRow \cup {NoRow}]
  /\ auGc.left # << >> /\ auGc.at = "count" =>
       auGc.cut \in AuditRow /\ Cardinality(NotOlder(auGc.cut, Head(auGc.left))) >= RowsKept

AuditInv == RowsShape /\ PagesShape /\ GcShape /\ RecentRowsStay

\* What a query matches in a source is rows of that source, and it goes on
\* matching them as long as they are there.
LEMMA MatchesKept ==
  ASSUME NEW q, NEW s \in Source
  PROVE  /\ Matches(q, s) \subseteq auRows
         /\ \A e \in Matches(q, s) : e.source = s
         /\ \A e \in Matches(q, s) : e \in auRows' => e \in Matches(q, s)'
<1>1. \A o : TableRows(q, s, o) \subseteq auRows /\ \A e \in TableRows(q, s, o) : e.source = s /\ (e \in auRows' => e \in TableRows(q, s, o)')
  BY DEF TableRows, InRange
<1>2. CASE s = "task_log"
  BY <1>1, <1>2 DEF Matches, TaskLogs
<1>3. CASE s = "task_trace"
  BY <1>1, <1>3 DEF Matches, TaskTrace
<1>4. CASE s = "secretary_event"
  BY <1>1, <1>4 DEF Matches, SecretaryEvents
<1>5. CASE s = "secretary_compression"
  BY <1>1, <1>5 DEF Matches, SecretaryCompressions
<1>6. CASE s = "secretary_chat"
  BY <1>1, <1>6 DEF Matches, SecretaryChats
<1> QED BY <1>2, <1>3, <1>4, <1>5, <1>6 DEF Source

\* A page that is left alone but for rows that are gone still holds.
LEMMA PageKept ==
  ASSUME NEW p, NEW q, PageShape(p), PageHeld(p), RowsShape, PageShape(q),
         q.base \subseteq p.base, q.base \subseteq auRows',
         q.query = p.query, q.cursor = p.cursor, q.more = p.more, q.asking = p.asking, q.left = p.left,
         q.got = p.got, q.shown = p.shown, q.fits = p.fits
  PROVE  PageHeld(q)'
<1>1. ASSUME NEW e \in q.base PROVE e \in auRows' /\ e.source \in Listed /\ e \in Matches(q.query, e.source)'
  <2>1. e \in p.base /\ e \in auRows'
    OBVIOUS
  <2>2. e \in auRows /\ e.source \in Listed /\ e \in Matches(q.query, e.source)
    BY <2>1 DEF PageHeld
  <2>3. e.source \in Source
    BY <2>2 DEF RowsShape, AuditRow
  <2> QED BY <2>1, <2>2, <2>3, MatchesKept
<1>2. q.fits /\ q.asking => \A e \in q.base : Ahead(q, e) /\ Reached(q, e)
  BY DEF PageHeld, Ahead, Reached
<1>3. q.fits /\ ~q.asking => \A e \in q.base : Answered(q, e)
  BY DEF PageHeld, Answered
<1> QED BY <1>1, <1>2, <1>3 DEF PageHeld, Listed

\* All pages: the rows that are gone are those that leave their base.
LEMMA PagesKept ==
  ASSUME AuditInv, NEW gone, auRows \ gone \subseteq auRows',
         Gone(gone) \/ (gone = {} /\ auPage' = auPage)
  PROVE  PagesShape'
<1>1. CASE gone = {} /\ auPage' = auPage
  <2>1. ASSUME NEW r \in Reader PROVE PageShape(auPage[r]) /\ PageHeld(auPage[r])'
    <3>1. PageShape(auPage[r]) /\ PageHeld(auPage[r]) /\ RowsShape
      BY DEF AuditInv, PagesShape
    <3>2. auPage[r].base \subseteq auRows'
      BY <3>1, <1>1 DEF PageHeld
    <3>3. PICK p : p = auPage[r]
      OBVIOUS
    <3>4. PageHeld(p)'
      BY <3>1, <3>2, <3>3, PageKept
    <3> QED BY <3>1, <3>3, <3>4, <1>1
  <2> QED BY <1>1, <2>1 DEF PagesShape, AuditInv, PageShape
<1>2. CASE Gone(gone)
  <2>1. auPage' = [r \in Reader |-> [auPage[r] EXCEPT !.base = @ \ gone]]
    BY <1>2 DEF Gone
  <2>2. ASSUME NEW r \in Reader PROVE PageShape(auPage'[r]) /\ PageHeld(auPage[r])'
    <3>1. PICK p : p = auPage[r] /\ PageShape(p) /\ PageHeld(p) /\ RowsShape
      BY DEF AuditInv, PagesShape
    <3>2. PICK q : q = auPage'[r] /\ q = [p EXCEPT !.base = @ \ gone]
      BY <2>1, <3>1
    <3>3. /\ q.base = p.base \ gone /\ q.query = p.query /\ q.cursor = p.cursor /\ q.more = p.more
          /\ q.asking = p.asking /\ q.left = p.left /\ q.got = p.got /\ q.shown = p.shown /\ q.fits = p.fits
          /\ q = [f \in PageField |-> q[f]]
      BY <3>1, <3>2 DEF PageShape, PageField
    <3>4. PageShape(q)
      BY <3>1, <3>3 DEF PageShape
    <3>5. q.base \subseteq auRows'
      BY <3>1, <3>3 DEF PageHeld
    <3>6. PageHeld(q)'
      BY <3>1, <3>3, <3>4, <3>5, PageKept
    <3> QED BY <3>2, <3>4, <3>6
  <2>3. auPage' = [r \in Reader |-> auPage'[r]]
    BY <2>1
  <2> QED BY <2>2, <2>3 DEF PagesShape, PageShape
<1> QED BY <1>1, <1>2

\* A reader's step changes its own page.
LEMMA PageChanges ==
  ASSUME AuditInv, NEW r \in Reader, NEW q, PageShape(q), PageHeld(q),
         auPage' = [auPage EXCEPT ![r] = q], auRows' = auRows
  PROVE  PagesShape'
<1>1. /\ auPage = [x \in Reader |-> auPage[x]] /\ \A x \in Reader : PageShape(auPage[x]) /\ PageHeld(auPage[x])
  BY DEF AuditInv, PagesShape
<1>2. auPage' = [x \in Reader |-> auPage'[x]] /\ auPage'[r] = q /\ \A x \in Reader : x # r => auPage'[x] = auPage[x]
  BY <1>1
<1>3. \A p : PageHeld(p) <=> PageHeld(p)'
  BY DEF PageHeld, Matches, TaskLogs, TaskTrace, SecretaryEvents, SecretaryCompressions, SecretaryChats, TableRows,
    InRange, Listed
<1>4. \A x \in Reader : PageShape(auPage'[x]) /\ PageHeld(auPage'[x])
  BY <1>1, <1>2
<1>5. \A x \in Reader : PageHeld(auPage[x])'
  BY <1>3, <1>4
<1> QED BY <1>2, <1>4, <1>5 DEF PagesShape, PageShape

\* A first page: all that matches has yet to be read.
LEMMA AskFirstStep ==
  ASSUME AuditInv, NEW r \in Reader, NEW y, AskFirst(r, y, Sources)
  PROVE  PagesShape'
<1> DEFINE base == UNION {Matches(y, Sources[i]) : i \in DOMAIN Sources}
<1>1. PICK q : q = [query |-> y, cursor |-> NoRow, more |-> FALSE, asking |-> TRUE, left |-> Sources, got |-> {},
                    base |-> base, shown |-> {}, fits |-> TRUE, open |-> NoRow]
  OBVIOUS
<1>2. /\ q.query = y /\ q.cursor = NoRow /\ q.more = FALSE /\ q.asking = TRUE /\ q.left = Sources /\ q.got = {}
      /\ q.base = base /\ q.fits = TRUE /\ q = [f \in PageField |-> q[f]]
  BY <1>1 DEF PageField
<1>3. PageShape(q)
  BY <1>2, AuditConstants, FS_EmptySet DEF PageShape
<1>4. ASSUME NEW e \in q.base
      PROVE  e \in auRows /\ e.source \in Listed /\ e \in Matches(q.query, e.source) /\ Ahead(q, e) /\ Reached(q, e)
  <2>1. PICK i \in DOMAIN Sources : e \in Matches(y, Sources[i])
    BY <1>2
  <2>2. Sources[i] \in Source
    BY AuditConstants
  <2>3. e \in auRows /\ e.source = Sources[i]
    BY <2>1, <2>2, MatchesKept
  <2> QED BY <1>2, <2>1, <2>3 DEF Listed, Ahead, Reached, OlderThanCursor
<1>5. PageHeld(q)
  BY <1>2, <1>4 DEF PageHeld
<1>6. auPage' = [auPage EXCEPT ![r] = q] /\ auRows' = auRows
  BY <1>1 DEF AskFirst
<1> QED BY <1>3, <1>5, <1>6, PageChanges

\* The next page: what was not shown is beyond the cursor.
LEMMA AskNextStep ==
  ASSUME AuditInv, NEW r \in Reader, AskNext(r, Sources)
  PROVE  PagesShape'
<1>1. PICK p : p = auPage[r] /\ PageShape(p) /\ PageHeld(p) /\ ~p.asking
  BY DEF AuditInv, PagesShape, AskNext
<1>2. PICK q : q = [p EXCEPT !.asking = TRUE, !.left = Sources, !.got = {}, !.open = NoRow]
  OBVIOUS
<1>3. /\ q.query = p.query /\ q.cursor = p.cursor /\ q.more = p.more /\ q.asking = TRUE /\ q.left = Sources
      /\ q.got = {} /\ q.base = p.base /\ q.shown = p.shown /\ q.fits = p.fits /\ q = [f \in PageField |-> q[f]]
  BY <1>1, <1>2 DEF PageShape, PageField
<1>4. PageShape(q)
  BY <1>1, <1>3, AuditConstants, FS_EmptySet DEF PageShape
<1>5. \A e \in p.base : e \in auRows /\ e.source \in Listed /\ e \in Matches(p.query, e.source)
  BY <1>1 DEF PageHeld
<1>6. ASSUME q.fits, NEW e \in q.base PROVE Ahead(q, e) /\ Reached(q, e)
  <2>1. Answered(p, e) /\ e.source \in Listed
    BY <1>1, <1>3, <1>5, <1>6 DEF PageHeld
  <2>2. Ahead(q, e)
    BY <2>1, <1>3 DEF Answered, Ahead
  <2>3. Reached(q, e)
    BY <2>1, <1>3 DEF Reached, Listed
  <2> QED BY <2>2, <2>3
<1>7. PageHeld(q)
  BY <1>3, <1>5, <1>6 DEF PageHeld
<1>8. auPage' = [auPage EXCEPT ![r] = q] /\ auRows' = auRows
  BY <1>1, <1>2 DEF AskNext, AuditInv, PagesShape
<1> QED BY <1>4, <1>7, <1>8, PageChanges

\* One source is read: unless it holds too much, all it matches is got.
LEMMA FetchStep ==
  ASSUME AuditInv, NEW r \in Reader, FetchSource(r)
  PROVE  PagesShape'
<1>1. PICK p : p = auPage[r] /\ PageShape(p) /\ PageHeld(p) /\ p.asking /\ p.left # << >>
  BY DEF AuditInv, PagesShape, FetchSource
<1>2. PICK s \in Source : s = Head(p.left)
  BY <1>1 DEF PageShape
<1>3. PICK rows : rows = Matches(p.query, s)
  OBVIOUS
<1>4. PICK fits \in BOOLEAN : fits <=> p.fits /\ Cardinality(rows) <= Fetch
  OBVIOUS
<1>4a. PICK taken, rest : taken = NewestRows(rows, Fetch) /\ rest = Tail(p.left)
  OBVIOUS
<1>5. PICK q : q = [p EXCEPT !.left = rest, !.got = p.got \cup taken, !.fits = fits]
  OBVIOUS
<1>6. /\ q.query = p.query /\ q.cursor = p.cursor /\ q.more = p.more /\ q.asking = p.asking /\ q.left = rest
      /\ q.got = p.got \cup taken
      /\ q.base = p.base /\ q.shown = p.shown /\ q.fits = fits /\ q = [f \in PageField |-> q[f]]
  BY <1>1, <1>5 DEF PageShape, PageField
<1>7. rows \subseteq auRows /\ rows \subseteq AuditRow /\ IsFiniteSet(rows) /\ taken \subseteq rows
  <2>1. rows \subseteq auRows
    BY <1>3, MatchesKept
  <2>2. auRows \subseteq auEver /\ auEver \subseteq AuditRow /\ IsFiniteSet(auEver)
    BY DEF AuditInv, RowsShape
  <2>3. IsFiniteSet(rows)
    BY <2>1, <2>2, FS_Subset
  <2> QED BY <2>1, <2>2, <2>3, <1>4a DEF NewestRows
<1>8. PageShape(q)
  <2>1. IsFiniteSet(taken) /\ taken \subseteq AuditRow
    BY <1>7, FS_Subset
  <2>2. IsFiniteSet(p.got \cup taken) /\ p.got \cup taken \subseteq AuditRow
    BY <1>1, <2>1, FS_Union DEF PageShape
  <2>3. rest \in Seq(Source)
    BY <1>1, <1>4a DEF PageShape
  <2> QED BY <1>1, <1>6, <2>2, <2>3 DEF PageShape
<1>9. \A e \in p.base : e \in auRows /\ e.source \in Listed /\ e \in Matches(p.query, e.source)
  BY <1>1 DEF PageHeld
<1>10. ASSUME fits, NEW e \in q.base PROVE Ahead(q, e) /\ Reached(q, e)
  <2>1. Ahead(p, e) /\ Reached(p, e)
    BY <1>1, <1>4, <1>6, <1>10 DEF PageHeld
  <2>2. Ahead(q, e)
    BY <2>1, <1>6 DEF Ahead
  <2>3. CASE e \in p.got
    <3>1. e \in q.got
      BY <2>3, <1>6
    <3> QED BY <2>2, <3>1 DEF Reached
  <2>4. CASE e.source = s
    <3>1. e \in rows
      BY <1>3, <1>6, <1>9, <2>4
    <3>2. taken = rows
      BY <1>4, <1>4a, <1>7, <1>10, NewestAll, AuditConstants
    <3>3. e \in q.got
      BY <3>1, <3>2, <1>6
    <3> QED BY <2>2, <3>3 DEF Reached
  <2>5. CASE e.source # s /\ \E i \in DOMAIN p.left : p.left[i] = e.source
    <3>1. PICK n \in Nat : n = Len(p.left) /\ DOMAIN p.left = 1 .. n /\ p.left \in Seq(Source)
      BY <1>1 DEF PageShape
    <3>2. PICK i \in 1 .. n : p.left[i] = e.source
      BY <2>5, <3>1
    <3>3. i # 1 /\ n > 0
      BY <1>2, <2>5, <3>1, <3>2
    <3>4. i - 1 \in DOMAIN rest /\ rest[i - 1] = p.left[i]
      BY <1>1, <1>4a, <3>1, <3>3
    <3>5. q.left = rest
      BY <1>6
    <3> QED BY <2>2, <3>2, <3>4, <3>5 DEF Reached
  <2> QED BY <2>1, <2>2, <2>3, <2>4, <2>5 DEF Reached
<1>11. PageHeld(q)
  BY <1>1, <1>6, <1>9, <1>10 DEF PageHeld
<1>12. auPage' = [auPage EXCEPT ![r] = q] /\ auRows' = auRows
  <2>1. auPage' = [auPage EXCEPT ![r].left = Tail(@), ![r].got = @ \cup NewestRows(rows, Fetch),
                                 ![r].fits = @ /\ Cardinality(rows) <= Fetch] /\ auRows' = auRows
    BY <1>1, <1>2, <1>3 DEF FetchSource
  <2>2. (p.fits /\ Cardinality(rows) <= Fetch) = fits
    BY <1>4
  <2> QED BY <2>1, <2>2, <1>1, <1>4a, <1>5 DEF AuditInv, PagesShape, PageShape, PageField
<1> QED BY <1>8, <1>11, <1>12, PageChanges

\* The entries of a page come before those that are left for the next.
LEMMA PageCut ==
  ASSUME NEW older \in SUBSET AuditRow, IsFiniteSet(older), NEW page,
         page = {e \in older : Cardinality({o \in older : ListedBefore(o, e)}) < Limit}, page # older
  PROVE  /\ \E e \in page : \A o \in page : ~ListedBefore(e, o)
         /\ \A last \in page : (\A o \in page : ~ListedBefore(last, o)) => \A e \in older \ page : ListedBefore(last, e)
<1> DEFINE before(e) == {o \in older : ListedBefore(o, e)}
           R == {z \in page \X page : ListedBefore(z[1], z[2])}
           L == {z \in older \X older : ListedBefore(z[2], z[1])}
<1>1. \A e \in older : IsFiniteSet(before(e)) /\ Cardinality(before(e)) \in Nat
  <2> TAKE e \in older
  <2>1. IsFiniteSet(before(e))
    BY FS_Subset
  <2> QED BY <2>1, FS_CardinalityType
<1>2. /\ R \in SUBSET (page \X page) /\ \A a, b \in page : <<a, b>> \in R <=> ListedBefore(a, b)
      /\ L \in SUBSET (older \X older) /\ \A a, b \in older : <<a, b>> \in L <=> ListedBefore(b, a)
  OBVIOUS
<1>3. /\ \A a \in older : ~ListedBefore(a, a)
      /\ \A a, b, c \in older : ListedBefore(a, b) /\ ListedBefore(b, c) => ListedBefore(a, c)
      /\ \A a, b, c \in older : ListedBefore(a, c) /\ ~ListedBefore(b, c) => ListedBefore(a, b)
  BY ListedOrder
<1>4. page \subseteq older /\ older # {} /\ IsFiniteSet(page)
  BY FS_Subset
<1> HIDE DEF R, L
<1>5. page # {}
  <2>1. PICK e \in older : \A o \in older : <<e, o>> \notin L
    <3>1. \A a \in older : <<a, a>> \notin L
      BY <1>2, <1>3
    <3>2. \A a, b, c \in older : <<a, b>> \in L /\ <<b, c>> \in L => <<a, c>> \in L
      BY <1>2, <1>3
    <3> QED BY <1>1, <1>2, <1>4, <3>1, <3>2, LastOf
  <2>2. before(e) = {}
    BY <1>2, <2>1
  <2>3. Cardinality(before(e)) < Limit
    BY <2>2, FS_EmptySet, AuditConstants
  <2> QED BY <2>3
<1>6. \E e \in page : \A o \in page : ~ListedBefore(e, o)
  <2>1. R \in SUBSET (page \X page) /\ \A a, b \in page : (<<a, b>> \in R <=> ListedBefore(a, b))
    BY <1>2
  <2>2. /\ \A a \in page : <<a, a>> \notin R
        /\ \A a, b, c \in page : <<a, b>> \in R /\ <<b, c>> \in R => <<a, c>> \in R
    BY <2>1, <1>3, <1>4
  <2>3. \E e \in page : \A o \in page : <<e, o>> \notin R
    BY <1>4, <1>5, <2>1, <2>2, LastOf
  <2> QED BY <2>1, <2>3
<1>7. ASSUME NEW last \in page, \A o \in page : ~ListedBefore(last, o), NEW e \in older \ page, ~ListedBefore(last, e)
      PROVE  FALSE
  <2>1. last \in older
    BY <1>4
  <2>2. before(e) \subseteq before(last)
    BY <1>3, <1>7, <2>1
  <2>3. Cardinality(before(e)) <= Cardinality(before(last))
    BY <1>1, <2>1, <2>2, FS_Subset
  <2>4. Cardinality(before(last)) < Limit /\ ~(Cardinality(before(e)) < Limit)
    OBVIOUS
  <2>5. Cardinality(before(e)) \in Nat /\ Cardinality(before(last)) \in Nat /\ Limit \in Nat
    BY <1>1, <2>1, AuditConstants
  <2> QED BY <2>3, <2>4, <2>5
<1> QED BY <1>6, <1>7

\* The answer: what it does not show and still owes is beyond the next cursor.
LEMMA AnswerStep ==
  ASSUME AuditInv, NEW r \in Reader, AnswerPage(r)
  PROVE  PagesShape'
<1>1. PICK p : p = auPage[r] /\ PageShape(p) /\ PageHeld(p) /\ p.asking /\ p.left = << >>
  BY DEF AuditInv, PagesShape, AnswerPage
<1> DEFINE older0 == {e \in auPage[r].got : OlderThanCursor(e, auPage[r].cursor)}
           page0 == {e \in older0 : Cardinality({o \in older0 : ListedBefore(o, e)}) < Limit}
           last0 == CHOOSE e \in page0 : \A o \in page0 : ~ListedBefore(e, o)
<1>0. /\ auPage' = [auPage EXCEPT ![r].asking = FALSE, ![r].got = {}, ![r].shown = @ \cup page0,
                                  ![r].more = (page0 # older0), ![r].cursor = IF page0 # older0 THEN last0 ELSE @]
      /\ auRows' = auRows
  BY DEF AnswerPage
<1>2. PICK older : older = older0 /\ older = {e \in p.got : OlderThanCursor(e, p.cursor)}
  BY <1>1
<1>3. PICK page : page = page0 /\ page = {e \in older : Cardinality({o \in older : ListedBefore(o, e)}) < Limit}
  BY <1>2
<1>4. PICK more \in BOOLEAN : more <=> page # older
  OBVIOUS
<1>5. PICK last : last = last0
  OBVIOUS
<1>5a. last0 = CHOOSE e \in page0 : \A o \in page0 : ~ListedBefore(e, o)
  OBVIOUS
<1> HIDE DEF older0, page0, last0
<1>6. PICK cursor : cursor = IF more THEN last ELSE p.cursor
  OBVIOUS
<1>7. PICK q : q = [p EXCEPT !.asking = FALSE, !.got = {}, !.shown = p.shown \cup page, !.more = more, !.cursor = cursor]
  OBVIOUS
<1>8. /\ q.query = p.query /\ q.cursor = cursor /\ q.more = more /\ q.asking = FALSE /\ q.left = p.left
      /\ q.got = {} /\ q.base = p.base /\ q.shown = p.shown \cup page /\ q.fits = p.fits /\ q = [f \in PageField |-> q[f]]
  BY <1>1, <1>7 DEF PageShape, PageField
<1>9. older \subseteq AuditRow /\ IsFiniteSet(older) /\ page \subseteq older
  <2>1. older \subseteq p.got /\ page \subseteq older
    BY <1>2, <1>3
  <2>2. IsFiniteSet(p.got) /\ p.got \subseteq AuditRow
    BY <1>1 DEF PageShape
  <2> QED BY <2>1, <2>2, FS_Subset
<1>10. more => last \in page /\ \A e \in older \ page : ListedBefore(last, e)
  <2> SUFFICES ASSUME more PROVE last \in page /\ \A e \in older \ page : ListedBefore(last, e)
    OBVIOUS
  <2>1. page # older /\ older \in SUBSET AuditRow /\ IsFiniteSet(older)
    BY <1>4, <1>9
  <2>2. /\ \E e \in page : \A o \in page : ~ListedBefore(e, o)
        /\ \A l \in page : (\A o \in page : ~ListedBefore(l, o)) => \A e \in older \ page : ListedBefore(l, e)
    BY <1>3, <2>1, PageCut
  <2>3. last \in page /\ \A o \in page : ~ListedBefore(last, o)
    BY <1>3, <1>5, <1>5a, <2>2
  <2> QED BY <2>2, <2>3
<1>11. NoRow \notin AuditRow /\ (more => cursor \in AuditRow /\ cursor # NoRow) /\ (~more => cursor = p.cursor)
  <2>1. NoRow \notin AuditRow
    BY AuditConstants DEF NoRow, AuditRow
  <2> QED BY <1>6, <1>9, <1>10, <2>1
<1>12. PageShape(q)
  BY <1>1, <1>8, <1>11, FS_EmptySet DEF PageShape
<1>13. \A e \in p.base : e \in auRows /\ e.source \in Listed /\ e \in Matches(p.query, e.source)
  BY <1>1 DEF PageHeld
<1>14. ASSUME q.fits, NEW e \in q.base PROVE Answered(q, e)
  <2>1. Ahead(p, e) /\ Reached(p, e)
    BY <1>1, <1>8, <1>14 DEF PageHeld
  <2>2. e \in p.got
    BY <2>1, <1>1 DEF Reached
  <2>3. CASE e \in p.shown \/ e \in page
    BY <2>3, <1>8 DEF Answered
  <2>4. CASE e \notin p.shown /\ e \notin page
    <3>1. e \in older \ page
      BY <1>2, <2>1, <2>2, <2>4 DEF Ahead
    <3>2. more /\ ListedBefore(last, e)
      BY <1>4, <1>10, <3>1
    <3> QED BY <1>6, <1>8, <1>11, <3>2 DEF Answered, OlderThanCursor
  <2> QED BY <2>3, <2>4
<1>15. PageHeld(q)
  BY <1>8, <1>13, <1>14 DEF PageHeld
<1>16. auPage' = [auPage EXCEPT ![r] = q] /\ auRows' = auRows
  <2>1. /\ auPage' = [auPage EXCEPT ![r].asking = FALSE, ![r].got = {}, ![r].shown = @ \cup page,
                                    ![r].more = more, ![r].cursor = IF more THEN last ELSE @]
        /\ auRows' = auRows
    <3>1. (page # older) = more
      BY <1>4
    <3>2. /\ auPage' = [auPage EXCEPT ![r].asking = FALSE, ![r].got = {}, ![r].shown = @ \cup page,
                                       ![r].more = (page # older), ![r].cursor = IF page # older THEN last ELSE @]
          /\ auRows' = auRows
      BY <1>0, <1>2, <1>3, <1>5
    <3> QED BY <3>1, <3>2
  <2> QED BY <2>1, <1>1, <1>6, <1>7 DEF AuditInv, PagesShape, PageShape, PageField
<1> QED BY <1>12, <1>15, <1>16, PageChanges

\* The details of an entry are read beside the list.
LEMMA OpenStep ==
  ASSUME AuditInv, NEW r \in Reader, NEW e, OpenEntry(r, e)
  PROVE  PagesShape'
<1>1. PICK p : p = auPage[r] /\ PageShape(p) /\ PageHeld(p)
  BY DEF AuditInv, PagesShape
<1>2. PICK row : auPage' = [auPage EXCEPT ![r].open = row] /\ auRows' = auRows
  BY DEF OpenEntry
<1>3. PICK q : q = [p EXCEPT !.open = row]
  OBVIOUS
<1>4. /\ q.query = p.query /\ q.cursor = p.cursor /\ q.more = p.more /\ q.asking = p.asking /\ q.left = p.left
      /\ q.got = p.got /\ q.base = p.base /\ q.shown = p.shown /\ q.fits = p.fits /\ q = [f \in PageField |-> q[f]]
  BY <1>1, <1>3 DEF PageShape, PageField
<1>5. PageShape(q)
  BY <1>1, <1>4 DEF PageShape
<1>6. PageHeld(q)
  BY <1>1, <1>4 DEF PageHeld, Ahead, Reached, Answered
<1>7. auPage' = [auPage EXCEPT ![r] = q]
  BY <1>1, <1>2, <1>3
<1> QED BY <1>2, <1>5, <1>6, <1>7, PageChanges

-----------------------------------------------------------------------------
(* The rows and the retention loop.                                        *)

\* A table is finite, and so is every part of it.
LEMMA TableFinite ==
  ASSUME RowsShape, NEW s
  PROVE  /\ InTable(s) \subseteq AuditRow /\ InTable(s) \subseteq auRows /\ IsFiniteSet(InTable(s))
         /\ \A S \in SUBSET InTable(s) : IsFiniteSet(S) /\ Cardinality(S) \in Nat
<1>1. InTable(s) \subseteq auRows /\ auRows \subseteq auEver /\ auEver \subseteq AuditRow /\ IsFiniteSet(auEver)
  BY DEF RowsShape, InTable
<1>2. IsFiniteSet(InTable(s))
  BY <1>1, FS_Subset
<1>3. \A S \in SUBSET InTable(s) : IsFiniteSet(S)
  BY <1>2, FS_Subset
<1>4. \A S \in SUBSET InTable(s) : Cardinality(S) \in Nat
  BY <1>3, FS_CardinalityType
<1> QED BY <1>1, <1>2, <1>3, <1>4

\* The same after a step.
LEMMA TableFiniteNext ==
  ASSUME RowsShape'
  PROVE  \A x : \A T \in SUBSET InTable(x)' : IsFiniteSet(T) /\ Cardinality(T) \in Nat
<1> TAKE x
<1> TAKE T \in SUBSET InTable(x)'
<1>1. InTable(x)' \subseteq auEver' /\ IsFiniteSet(auEver')
  BY DEF RowsShape, InTable
<1>2. IsFiniteSet(T)
  BY <1>1, FS_Subset
<1> QED BY <1>2, FS_CardinalityType

\* A set in which one element at most is replaced by another is not smaller.
LEMMA Replaced ==
  ASSUME NEW S, IsFiniteSet(S), NEW T, IsFiniteSet(T), NEW old, NEW row,
         S \ old \subseteq T, \A a, b \in S \cap old : a = b,
         S \cap old # {} => row \in T, row \notin S \ old
  PROVE  Cardinality(S) <= Cardinality(T)
<1>1. CASE S \cap old = {}
  <2>1. S \subseteq T
    BY <1>1
  <2> QED BY <2>1, FS_Subset
<1>2. CASE S \cap old # {}
  <2>1. PICK a \in S : a \in old
    BY <1>2
  <2>2. S \ old = S \ {a}
    BY <2>1
  <2>3. /\ IsFiniteSet(S \ old) /\ Cardinality(S \ old) = Cardinality(S) - 1
        /\ Cardinality(S \ old) \in Nat /\ Cardinality(S) \in Nat
    BY <2>1, <2>2, FS_RemoveElement, FS_CardinalityType
  <2>4. Cardinality((S \ old) \cup {row}) = Cardinality(S \ old) + 1 /\ IsFiniteSet((S \ old) \cup {row})
    BY <2>3, FS_AddElement
  <2>5. (S \ old) \cup {row} \subseteq T
    BY <1>2
  <2>6. Cardinality((S \ old) \cup {row}) <= Cardinality(T)
    BY <2>5, FS_Subset
  <2> QED BY <2>3, <2>4, <2>6
<1> QED BY <1>1, <1>2

Newer(e) == {o \in InTable(e.source) : NewerRow(o, e)}

\* What is left of RecentRowsStay to show: of each row that is gone.
LEMMA StayOf ==
  ASSUME \A e \in auEver' \ auRows' : e.at + Days < auNow' \/ Cardinality(Newer(e)') >= RowsKept
  PROVE  RecentRowsStay'
BY DEF RecentRowsStay, Newer, InTable

\* A reader's step, or the clock, leaves the rows alone.
LEMMA RowsAlone ==
  ASSUME AuditInv, UNCHANGED <<auRows, auEver, auWritten, auGc>>,
         auNow' \in {auNow, auNow + 1}, auNow' <= MaxTime
  PROVE  RowsShape' /\ GcShape' /\ RecentRowsStay'
<1>1. auNow \in Nat /\ auNow' \in 1 .. MaxTime /\ auNow <= auNow' /\ MaxTime \in Nat
  BY AuditConstants DEF AuditInv, RowsShape
<1>2. RowsShape'
  BY <1>1 DEF AuditInv, RowsShape
<1>3. GcShape'
  BY DEF AuditInv, GcShape, NotOlder, InTable
<1>4. RecentRowsStay'
  <2> SUFFICES ASSUME NEW e \in auEver' \ auRows'
               PROVE  e.at + Days < auNow' \/ Cardinality(Newer(e)') >= RowsKept
    BY StayOf
  <2>1. e.at + Days < auNow \/ Cardinality(Newer(e)) >= RowsKept
    BY DEF AuditInv, RecentRowsStay, Newer
  <2>2. e.at \in Nat /\ Days \in Nat
    BY AuditConstants DEF AuditInv, RowsShape, AuditRow
  <2>3. Newer(e)' = Newer(e)
    BY DEF Newer, InTable
  <2> QED BY <1>1, <2>1, <2>2, <2>3
<1> QED BY <1>2, <1>3, <1>4

\* A row that is inserted.
LEMMA AppendRowStep ==
  ASSUME AuditInv, NEW s \in Listed, NEW of \in Owner \cup {0}, NEW t \in {auNow - 1, auNow} \ {0},
         AppendRow(s, of, t)
  PROVE  AuditInv'
<1>1. PICK row : row = [source |-> s, id |-> FirstId + auWritten, at |-> t, of |-> of]
  OBVIOUS
<1>2. /\ auRows' = auRows \cup {row} /\ auEver' = auEver \cup {row} /\ auWritten' = auWritten + 1
      /\ UNCHANGED <<auNow, auPage, auGc>> /\ s # "task_trace"
  BY <1>1 DEF AppendRow
<1>3. row \in AuditRow /\ row.source = s
  <2>1. s \in Source
    BY AuditConstants DEF Listed
  <2>2. FirstId + auWritten \in Nat /\ t \in 1 .. MaxTime /\ of \in Owner \cup {0}
    BY AuditConstants DEF AuditInv, RowsShape
  <2> QED BY <1>1, <2>1, <2>2 DEF AuditRow
<1>4. RowsShape'
  <2>1. IsFiniteSet(auEver \cup {row})
    BY FS_AddElement DEF AuditInv, RowsShape
  <2>2. auWritten' \in Nat
    BY <1>2 DEF AuditInv, RowsShape
  <2> QED BY <1>2, <1>3, <2>1, <2>2 DEF AuditInv, RowsShape
<1>4a. \A x : \A T \in SUBSET InTable(x)' : IsFiniteSet(T) /\ Cardinality(T) \in Nat
  BY <1>4, TableFiniteNext
<1>5. PagesShape'
  <2>1. auRows \ {} \subseteq auRows' /\ auPage' = auPage
    BY <1>2
  <2> QED BY <2>1, PagesKept
<1>6. \A x : InTable(x) \subseteq InTable(x)'
  BY <1>2 DEF InTable
<1>7. ASSUME NEW x, NEW S \in SUBSET InTable(x), NEW T \in SUBSET InTable(x)', S \subseteq T, Cardinality(S) >= RowsKept
      PROVE  Cardinality(T) >= RowsKept
  <2>1. Cardinality(S) \in Nat
    BY TableFinite DEF AuditInv
  <2>2. IsFiniteSet(T) /\ Cardinality(T) \in Nat
    BY <1>4a
  <2>3. Cardinality(S) <= Cardinality(T)
    BY <1>7, <2>2, FS_Subset
  <2> QED BY <1>7, <2>1, <2>2, <2>3, AuditConstants
<1>8. GcShape'
  <2>1. \A cut, x : NotOlder(cut, x) \subseteq NotOlder(cut, x)' /\ NotOlder(cut, x) \in SUBSET InTable(x) /\ NotOlder(cut, x)' \in SUBSET InTable(x)'
    BY <1>6 DEF NotOlder
  <2>2. ASSUME auGc.left # << >> /\ auGc.at = "count"
        PROVE  Cardinality(NotOlder(auGc.cut, Head(auGc.left))') >= RowsKept
    <3>1. PICK cut, x : cut = auGc.cut /\ x = Head(auGc.left)
      OBVIOUS
    <3>2. Cardinality(NotOlder(cut, x)) >= RowsKept
      BY <2>2, <3>1 DEF AuditInv, GcShape
    <3>3. Cardinality(NotOlder(cut, x)') >= RowsKept
      BY <2>1, <3>2, <1>7
    <3> QED BY <1>2, <3>1, <3>3
  <2> QED BY <1>2, <2>2 DEF AuditInv, GcShape
<1>9. RecentRowsStay'
  <2> SUFFICES ASSUME NEW e \in auEver' \ auRows'
               PROVE  e.at + Days < auNow' \/ Cardinality(Newer(e)') >= RowsKept
    BY StayOf
  <2>1. e.at + Days < auNow \/ Cardinality(Newer(e)) >= RowsKept
    BY <1>2 DEF AuditInv, RecentRowsStay, Newer
  <2>2. Newer(e) \subseteq Newer(e)' /\ Newer(e) \in SUBSET InTable(e.source) /\ Newer(e)' \in SUBSET InTable(e.source)'
    BY <1>6 DEF Newer
  <2>3. Cardinality(Newer(e)) >= RowsKept => Cardinality(Newer(e)') >= RowsKept
    BY <2>2, <1>7
  <2> QED BY <1>2, <2>1, <2>3
<1> QED BY <1>4, <1>5, <1>8, <1>9 DEF AuditInv

\* The trace of a task is replaced: it is the newest row of the task, and
\* stands in for the one that was counted.
LEMMA RecordInvocationStep ==
  ASSUME AuditInv, NEW task \in Owner, NEW t \in {auNow - 1, auNow} \ {0}, RecordInvocation(task, t)
  PROVE  AuditInv'
<1>1. PICK row : row = [source |-> "task_trace", id |-> task, at |-> t, of |-> task]
  OBVIOUS
<1>2. PICK old : old = {r \in auEver : r.source = "task_trace" /\ r.id = task}
  OBVIOUS
<1>3. /\ auRows' = (auRows \ old) \cup {row} /\ auEver' = (auEver \ old) \cup {row} /\ Gone(old \ {row})
      /\ auWritten' = auWritten + 1 /\ UNCHANGED <<auNow, auGc>> /\ \A r \in old : r.at <= t
  BY <1>1, <1>2 DEF RecordInvocation
<1>4. row \in AuditRow /\ row.source = "task_trace" /\ row.id = task /\ row.at = t
  <2>1. "task_trace" \in Source /\ task \in Nat /\ t \in 1 .. MaxTime
    BY AuditConstants DEF AuditInv, RowsShape, Source
  <2> QED BY <1>1, <2>1 DEF AuditRow
<1>5. auEver \subseteq AuditRow /\ IsFiniteSet(auEver) /\ auRows \subseteq auEver /\ auWritten \in Nat
  BY DEF AuditInv, RowsShape
<1>6. /\ \A a \in old : a \in auEver /\ a.source = "task_trace" /\ a.id = task /\ a.at <= t
      /\ \A a, b \in old : a = b
      /\ \A a \in auEver : a.source = "task_trace" /\ a.id = task => a \in old
  BY <1>2, <1>3 DEF AuditInv, RowsShape
<1>7. RowsShape'
  <2>1. IsFiniteSet(auEver \ old)
    BY <1>5, FS_Subset
  <2>2. IsFiniteSet((auEver \ old) \cup {row})
    BY <2>1, FS_AddElement
  <2>3. \A a, b \in auEver' : a.source = "task_trace" /\ b.source = "task_trace" /\ a.id = b.id => a = b
    <3>1. \A a, b \in auEver : a.source = "task_trace" /\ b.source = "task_trace" /\ a.id = b.id => a = b
      BY DEF AuditInv, RowsShape
    <3>2. \A a \in auEver \ old : ~(a.source = "task_trace" /\ a.id = row.id)
      BY <1>4, <1>6
    <3> QED BY <1>3, <3>1, <3>2
  <2>4. auWritten' \in Nat /\ auNow' \in 1 .. MaxTime
    BY <1>3, <1>5 DEF AuditInv, RowsShape
  <2> QED BY <1>3, <1>4, <1>5, <2>2, <2>3, <2>4 DEF RowsShape
<1>8. PagesShape'
  <2>1. auRows \ (old \ {row}) \subseteq auRows'
    BY <1>3
  <2> QED BY <2>1, <1>3, PagesKept
<1>9. \A x : \A T \in SUBSET InTable(x)' : IsFiniteSet(T) /\ Cardinality(T) \in Nat
  BY <1>7, TableFiniteNext
\* A part of a table that holds the row if it held the replaced one is as large as before.
<1>10. ASSUME NEW x, NEW S \in SUBSET InTable(x), NEW T \in SUBSET InTable(x)', S \ old \subseteq T,
              \A o \in S : o \in old => row \in T, Cardinality(S) >= RowsKept
       PROVE  Cardinality(T) >= RowsKept
  <2>1. S \subseteq auEver /\ IsFiniteSet(S) /\ Cardinality(S) \in Nat
    BY <1>5, TableFinite DEF AuditInv
  <2>2. IsFiniteSet(T) /\ Cardinality(T) \in Nat
    BY <1>9
  <2>3. row \notin S \ old
    BY <1>4, <1>6, <2>1
  <2>4. \A a, b \in S \cap old : a = b
    BY <1>6
  <2>5. S \cap old # {} => row \in T
    BY <1>10
  <2>6. Cardinality(S) <= Cardinality(T)
    BY <1>10, <2>1, <2>2, <2>3, <2>4, <2>5, Replaced
  <2> QED BY <1>10, <2>1, <2>2, <2>6, AuditConstants
<1>11. ASSUME NEW x, NEW o \in InTable(x), o \in old
       PROVE  /\ row \in InTable(x)' /\ o \in AuditRow
              /\ \A e \in AuditRow : (NewerRow(o, e) => NewerRow(row, e)) /\ (NewerRow(e, row) => NewerRow(e, o))
  <2>1. o.source = x /\ x = "task_trace" /\ o.id = task /\ o.at <= t /\ o \in AuditRow
    BY <1>5, <1>6, <1>11 DEF InTable
  <2>2. row \in InTable(x)'
    BY <1>3, <1>4, <2>1 DEF InTable
  <2>3. \A e \in AuditRow : e.at \in Nat /\ e.id \in Nat
    BY DEF AuditRow
  <2>4. ASSUME NEW e \in AuditRow
        PROVE  (NewerRow(o, e) => NewerRow(row, e)) /\ (NewerRow(e, row) => NewerRow(e, o))
    <3>1. e.at \in Nat /\ e.id \in Nat /\ o.at \in Nat /\ o.id \in Nat /\ row.at \in Nat /\ row.id \in Nat
      BY <1>4, <2>1, <2>3
    <3>2. o.at <= row.at /\ o.id = row.id
      BY <1>4, <2>1
    <3> QED BY <3>1, <3>2 DEF NewerRow
  <2> QED BY <2>1, <2>2, <2>4
<1>12. \A x : InTable(x) \ old \subseteq InTable(x)'
  BY <1>3 DEF InTable
<1>13. GcShape'
  <2>1. ASSUME auGc.left # << >> /\ auGc.at = "count"
        PROVE  Cardinality(NotOlder(auGc.cut, Head(auGc.left))') >= RowsKept
    <3>1. PICK cut, x : cut = auGc.cut /\ x = Head(auGc.left)
      OBVIOUS
    <3>2. Cardinality(NotOlder(cut, x)) >= RowsKept /\ cut \in AuditRow
      BY <2>1, <3>1 DEF AuditInv, GcShape
    <3>3. NotOlder(cut, x) \in SUBSET InTable(x) /\ NotOlder(cut, x)' \in SUBSET InTable(x)'
      BY DEF NotOlder
    <3>4. NotOlder(cut, x) \ old \subseteq NotOlder(cut, x)'
      BY <1>12 DEF NotOlder
    <3>5. \A o \in NotOlder(cut, x) : o \in old => row \in NotOlder(cut, x)'
      <4> TAKE o \in NotOlder(cut, x)
      <4>1. o \in InTable(x) /\ ~NewerRow(cut, o)
        BY DEF NotOlder
      <4>2. ASSUME o \in old PROVE row \in InTable(x)' /\ ~NewerRow(cut, row)
        BY <1>11, <3>2, <4>1, <4>2
      <4> QED BY <4>2 DEF NotOlder
    <3>6. Cardinality(NotOlder(cut, x)') >= RowsKept
      BY <1>10, <3>2, <3>3, <3>4, <3>5
    <3> QED BY <1>3, <3>1, <3>6
  <2> QED BY <1>3, <2>1 DEF AuditInv, GcShape
<1>14. RecentRowsStay'
  <2> SUFFICES ASSUME NEW e \in auEver' \ auRows'
               PROVE  e.at + Days < auNow' \/ Cardinality(Newer(e)') >= RowsKept
    BY StayOf
  <2>1. e \in auEver \ auRows /\ e \in AuditRow
    BY <1>3, <1>5
  <2>2. e.at + Days < auNow \/ Cardinality(Newer(e)) >= RowsKept
    BY <2>1 DEF AuditInv, RecentRowsStay, Newer
  <2>3. Newer(e) \in SUBSET InTable(e.source) /\ Newer(e)' \in SUBSET InTable(e.source)'
    BY DEF Newer
  <2>4. Newer(e) \ old \subseteq Newer(e)'
    BY <1>12 DEF Newer
  <2>5. \A o \in Newer(e) : o \in old => row \in Newer(e)'
    <3> TAKE o \in Newer(e)
    <3>1. o \in InTable(e.source) /\ NewerRow(o, e)
      BY DEF Newer
    <3>2. ASSUME o \in old PROVE row \in InTable(e.source)' /\ NewerRow(row, e)
      BY <1>11, <2>1, <3>1, <3>2
    <3> QED BY <3>2 DEF Newer
  <2>6. Cardinality(Newer(e)) >= RowsKept => Cardinality(Newer(e)') >= RowsKept
    BY <1>10, <2>3, <2>4, <2>5
  <2> QED BY <1>3, <2>2, <2>6
<1> QED BY <1>7, <1>8, <1>13, <1>14 DEF AuditInv

\* Rows are deleted, by age or by count: the rest of the invariant stays, if
\* what is gone is too old or has enough newer rows that stay.
LEMMA DeleteStep ==
  ASSUME AuditInv, NEW gone \in SUBSET auRows, auRows' = auRows \ gone, Gone(gone),
         UNCHANGED <<auEver, auNow, auWritten>>, GcShape',
         \A e \in gone : e.at + Days < auNow \/ Cardinality(Newer(e)') >= RowsKept
  PROVE  AuditInv'
<1>1. auEver \subseteq AuditRow /\ auRows \subseteq auEver
  BY DEF AuditInv, RowsShape
<1>2. RowsShape'
  BY DEF AuditInv, RowsShape
<1>3. PagesShape'
  BY PagesKept
<1>4. RecentRowsStay'
  <2> SUFFICES ASSUME NEW e \in auEver' \ auRows'
               PROVE  e.at + Days < auNow' \/ Cardinality(Newer(e)') >= RowsKept
    BY StayOf
  <2>1. CASE e \in gone
    BY <2>1
  <2>2. CASE e \notin gone
    <3>1. e \in auEver \ auRows /\ e \in AuditRow
      BY <2>2, <1>1
    <3>2. e.at + Days < auNow \/ Cardinality(Newer(e)) >= RowsKept
      BY <3>1 DEF AuditInv, RecentRowsStay, Newer
    <3>3. CASE Newer(e) \cap gone = {}
      <4>1. Newer(e)' = Newer(e)
        BY <3>3 DEF Newer, InTable
      <4> QED BY <3>2, <4>1
    <3>4. CASE Newer(e) \cap gone # {}
      <4>1. PICK o \in gone : o \in AuditRow /\ o.source = e.source /\ NewerRow(o, e)
        BY <3>4, <1>1 DEF Newer, InTable
      <4>2. CASE o.at + Days < auNow
        <5>1. o.at \in Nat /\ e.at \in Nat /\ auNow \in Nat /\ Days \in Nat /\ e.at <= o.at
          BY <3>1, <4>1, AuditConstants DEF AuditRow, NewerRow, AuditInv, RowsShape
        <5> QED BY <4>2, <5>1
      <4>3. CASE Cardinality(Newer(o)') >= RowsKept
        <5>1. Newer(o)' \subseteq Newer(e)'
          <6> SUFFICES ASSUME NEW x \in Newer(o)' PROVE x \in Newer(e)'
            OBVIOUS
          <6>1. x \in auRows' /\ x.source = o.source /\ NewerRow(x, o)
            BY DEF Newer, InTable
          <6>1a. x \in AuditRow
            BY <1>1, <6>1
          <6>2. NewerRow(x, e)
            BY <3>1, <4>1, <6>1, <6>1a, NewerOrder
          <6> QED BY <4>1, <6>1, <6>2 DEF Newer, InTable
        <5>2. Newer(e)' \in SUBSET InTable(e.source)' /\ Newer(o)' \in SUBSET InTable(o.source)'
          BY DEF Newer
        <5>3. IsFiniteSet(Newer(e)') /\ Cardinality(Newer(e)') \in Nat /\ Cardinality(Newer(o)') \in Nat
          BY <1>2, <5>2, TableFiniteNext
        <5>4. Cardinality(Newer(o)') <= Cardinality(Newer(e)')
          BY <5>1, <5>3, FS_Subset
        <5> QED BY <4>3, <5>3, <5>4, AuditConstants
      <4> QED BY <4>1, <4>2, <4>3
    <3> QED BY <3>3, <3>4
  <2> QED BY <2>1, <2>2
<1> QED BY <1>2, <1>3, <1>4 DEF AuditInv

\* Where the loop goes on, it has no cutoff to keep.
LEMMA GcGoesOn ==
  ASSUME AuditInv, NEW rest \in Seq(Source), NEW at0 \in {"age", "cutoff"}, NEW cut \in AuditRow \cup {NoRow},
         auGc' = [left |-> rest, at |-> at0, cut |-> cut]
  PROVE  GcShape'
BY DEF GcShape

\* By age: what is gone is too old.
LEMMA PruneByAgeStep ==
  ASSUME AuditInv, PruneByAge
  PROVE  AuditInv'
<1>1. PICK old : /\ old = {r \in InTable(Head(auGc.left)) : r.at + Days < auNow} /\ auRows' = auRows \ old /\ Gone(old)
                 /\ auGc' = [auGc EXCEPT !.at = "cutoff"] /\ UNCHANGED <<auEver, auNow, auWritten>>
  BY DEF PruneByAge
<1>2. old \in SUBSET auRows /\ \A e \in old : e.at + Days < auNow
  BY <1>1 DEF InTable
<1>3. PICK g \in [left : Seq(Source), at : {"age", "cutoff", "count"}, cut : AuditRow \cup {NoRow}] : g = auGc
  BY DEF AuditInv, GcShape
<1>4. auGc' = [left |-> g.left, at |-> "cutoff", cut |-> g.cut]
  BY <1>1, <1>3
<1>5. GcShape'
  BY <1>3, <1>4, GcGoesOn
<1> QED BY <1>1, <1>2, <1>5, DeleteStep

\* The cutoff is read: the rows not older than it are those to keep.
LEMMA ReadCutoffStep ==
  ASSUME AuditInv, ReadCutoff
  PROVE  AuditInv'
<1>1. PICK s : s = Head(auGc.left)
  OBVIOUS
<1> DEFINE kept == NewestRows(InTable(s), RowsKept)
<1>2. UNCHANGED <<auRows, auEver, auNow, auWritten, auPage>>
  BY DEF ReadCutoff
<1>3. PICK g \in [left : Seq(Source), at : {"age", "cutoff", "count"}, cut : AuditRow \cup {NoRow}] : g = auGc /\ g.left # << >>
  BY DEF AuditInv, GcShape, ReadCutoff
<1>4. kept \subseteq InTable(s) /\ kept \subseteq AuditRow /\ IsFiniteSet(kept) /\ Cardinality(kept) \in Nat
  <2>1. kept \subseteq InTable(s)
    BY DEF NewestRows
  <2> QED BY <2>1, TableFinite DEF AuditInv
<1>5. GcShape'
  <2>1. CASE Cardinality(kept) < RowsKept
    <3>1. auGc' = [left |-> Tail(g.left), at |-> "age", cut |-> NoRow]
      BY <1>1, <1>3, <2>1 DEF ReadCutoff, GcNextSource
    <3>2. Tail(g.left) \in Seq(Source)
      BY <1>3
    <3> QED BY <3>1, <3>2, GcGoesOn
  <2>2. CASE ~(Cardinality(kept) < RowsKept)
    <3>1. PICK cut : cut = CHOOSE r \in kept : \A o \in kept : ~NewerRow(r, o)
      OBVIOUS
    <3>2. auGc' = [auGc EXCEPT !.at = "count", !.cut = cut]
      <4>1. auGc' = [auGc EXCEPT !.at = "count", !.cut = CHOOSE r \in kept : \A o \in kept : ~NewerRow(r, o)]
        <5>1. kept = NewestRows(InTable(Head(auGc.left)), RowsKept)
          BY <1>1
        <5>2. ~(Cardinality(NewestRows(InTable(Head(auGc.left)), RowsKept)) < RowsKept)
          BY <2>2, <5>1
        <5>3. auGc' = [auGc EXCEPT !.at = "count",
                         !.cut = CHOOSE r \in NewestRows(InTable(Head(auGc.left)), RowsKept) :
                                   \A o \in NewestRows(InTable(Head(auGc.left)), RowsKept) : ~NewerRow(r, o)]
          BY <5>2 DEF ReadCutoff
        <5> HIDE DEF kept
        <5> QED BY <5>1, <5>3
      <4> QED BY <3>1, <4>1
    <3>3. \E r \in kept : \A o \in kept : ~NewerRow(r, o)
      <4> DEFINE R == {z \in kept \X kept : NewerRow(z[1], z[2])}
      <4>1. R \in SUBSET (kept \X kept) /\ \A a, b \in kept : <<a, b>> \in R <=> NewerRow(a, b)
        OBVIOUS
      <4>2. /\ \A a \in kept : ~NewerRow(a, a)
            /\ \A a, b, c \in kept : NewerRow(a, b) /\ NewerRow(b, c) => NewerRow(a, c)
        BY <1>4, NewerOrder
      <4>3. kept # {}
        <5> HIDE DEF kept
        <5>1. ASSUME kept = {} PROVE Cardinality(kept) = 0
          BY <5>1, FS_EmptySet
        <5> QED BY <5>1, <2>2, AuditConstants
      <4> HIDE DEF R, kept
      <4>4. /\ \A a \in kept : <<a, a>> \notin R
            /\ \A a, b, c \in kept : <<a, b>> \in R /\ <<b, c>> \in R => <<a, c>> \in R
        BY <4>1, <4>2
      <4>5. \E e \in kept : \A o \in kept : <<e, o>> \notin R
        BY <1>4, <4>1, <4>3, <4>4, LastOf
      <4> QED BY <4>1, <4>5
    <3>4. cut \in kept /\ \A o \in kept : ~NewerRow(cut, o)
      <4> HIDE DEF kept
      <4> QED BY <3>1, <3>3
    <3>5. kept \subseteq NotOlder(cut, s)
      BY <1>4, <3>4 DEF NotOlder
    <3>6. NotOlder(cut, s) \in SUBSET InTable(s)
      BY DEF NotOlder
    <3>7. IsFiniteSet(NotOlder(cut, s)) /\ Cardinality(NotOlder(cut, s)) \in Nat
      BY <3>6, TableFinite DEF AuditInv
    <3>8. Cardinality(kept) <= Cardinality(NotOlder(cut, s))
      BY <3>5, <3>7, FS_Subset
    <3>9. Cardinality(NotOlder(cut, s)) >= RowsKept
      BY <1>4, <2>2, <3>7, <3>8, AuditConstants
    <3>10. auGc' = [left |-> g.left, at |-> "count", cut |-> cut] /\ cut \in AuditRow
      BY <1>3, <1>4, <3>2, <3>4
    <3>11. NotOlder(cut, s)' = NotOlder(cut, s)
      BY <1>2 DEF NotOlder, InTable
    <3>12. auGc'.left = g.left /\ auGc'.cut = cut /\ Head(auGc'.left) = s
      BY <1>1, <1>3, <3>10
    <3>13. Cardinality(NotOlder(auGc.cut, Head(auGc.left))') >= RowsKept
      BY <3>9, <3>11, <3>12
    <3> QED BY <3>10, <3>12, <3>13, <1>3 DEF GcShape
  <2> QED BY <2>1, <2>2
<1>6. RowsShape' /\ RecentRowsStay'
  BY <1>2 DEF AuditInv, RowsShape, RecentRowsStay, InTable
<1>7. PagesShape'
  <2>1. auRows \ {} \subseteq auRows' /\ auPage' = auPage
    BY <1>2
  <2> QED BY <2>1, PagesKept
<1> QED BY <1>5, <1>6, <1>7 DEF AuditInv

\* By count: what is gone is older than the cutoff, and the rows that are not stay.
LEMMA PruneByCountStep ==
  ASSUME AuditInv, PruneByCount
  PROVE  AuditInv'
<1>1. PICK g \in [left : Seq(Source), at : {"age", "cutoff", "count"}, cut : AuditRow \cup {NoRow}] :
        g = auGc /\ g.left # << >> /\ g.at = "count"
  BY DEF AuditInv, GcShape, PruneByCount
<1>2. PICK s, cut : s = Head(g.left) /\ cut = g.cut
  OBVIOUS
<1>3. PICK old : /\ old = {r \in InTable(s) : NewerRow(cut, r)} /\ auRows' = auRows \ old /\ Gone(old)
                 /\ GcNextSource /\ UNCHANGED <<auEver, auNow, auWritten>>
  BY <1>1, <1>2 DEF PruneByCount
<1>4. cut \in AuditRow /\ Cardinality(NotOlder(cut, s)) >= RowsKept
  BY <1>1, <1>2 DEF AuditInv, GcShape
<1>5. old \in SUBSET auRows /\ auRows \subseteq AuditRow
  BY <1>3 DEF InTable, AuditInv, RowsShape
<1>6. GcShape'
  <2>1. auGc' = [left |-> Tail(g.left), at |-> "age", cut |-> NoRow] /\ Tail(g.left) \in Seq(Source)
    BY <1>1, <1>3 DEF GcNextSource
  <2> QED BY <2>1, GcGoesOn
<1>7. ASSUME NEW e \in old PROVE Cardinality(Newer(e)') >= RowsKept
  <2>1. e \in AuditRow /\ e.source = s /\ NewerRow(cut, e)
    BY <1>3, <1>5 DEF InTable
  <2>2. NotOlder(cut, s) \subseteq Newer(e)'
    <3> SUFFICES ASSUME NEW x \in NotOlder(cut, s) PROVE x \in Newer(e)'
      OBVIOUS
    <3>1. x \in InTable(s) /\ ~NewerRow(cut, x) /\ x \in AuditRow
      BY <1>5 DEF NotOlder, InTable
    <3>2. x \in InTable(s)'
      BY <1>3, <3>1 DEF InTable
    <3>3. NewerRow(x, e)
      BY <1>4, <2>1, <3>1, NewerOrder
    <3>4. x \in auRows' /\ x.source = e.source
      BY <2>1, <3>2 DEF InTable
    <3> QED BY <3>3, <3>4 DEF Newer, InTable
  <2>3. RowsShape'
    BY <1>3 DEF AuditInv, RowsShape
  <2>4. Newer(e)' \in SUBSET InTable(e.source)' /\ NotOlder(cut, s) \in SUBSET InTable(s)
    BY DEF Newer, NotOlder
  <2>5. IsFiniteSet(Newer(e)') /\ Cardinality(Newer(e)') \in Nat /\ Cardinality(NotOlder(cut, s)) \in Nat
    <3>1. IsFiniteSet(Newer(e)') /\ Cardinality(Newer(e)') \in Nat
      BY <2>3, <2>4, TableFiniteNext
    <3>2. Cardinality(NotOlder(cut, s)) \in Nat
      BY <2>4, TableFinite DEF AuditInv
    <3> QED BY <3>1, <3>2
  <2>6. Cardinality(NotOlder(cut, s)) <= Cardinality(Newer(e)')
    BY <2>2, <2>5, FS_Subset
  <2> QED BY <1>4, <2>5, <2>6, AuditConstants
<1> QED BY <1>3, <1>5, <1>6, <1>7, DeleteStep

\* The invariant is inductive.
LEMMA AuditInvInductive ==
  /\ AuditInit => AuditInv
  /\ AuditInv /\ [AuditNext]_auditVars => AuditInv'
<1>1. ASSUME AuditInit PROVE AuditInv
  <2>1. /\ auRows = {} /\ auEver = {} /\ auNow = 1 /\ auWritten = 0
        /\ auPage = [r \in Reader |-> [query |-> NoQuery, cursor |-> NoRow, more |-> FALSE, asking |-> FALSE,
                                       left |-> << >>, got |-> {}, base |-> {}, shown |-> {}, fits |-> TRUE,
                                       open |-> NoRow]]
        /\ auGc = [left |-> << >>, at |-> "age", cut |-> NoRow]
    BY <1>1 DEF AuditInit
  <2>2. RowsShape /\ RecentRowsStay /\ GcShape
    BY <2>1, FS_EmptySet, AuditConstants DEF RowsShape, RecentRowsStay, GcShape
  <2>3. ASSUME NEW r \in Reader PROVE PageShape(auPage[r]) /\ PageHeld(auPage[r])
    <3>1. PICK p : p = auPage[r]
      OBVIOUS
    <3>2. p = [query |-> NoQuery, cursor |-> NoRow, more |-> FALSE, asking |-> FALSE, left |-> << >>, got |-> {},
               base |-> {}, shown |-> {}, fits |-> TRUE, open |-> NoRow]
      BY <2>1, <3>1
    <3>3. /\ p.cursor = NoRow /\ p.more = FALSE /\ p.asking = FALSE /\ p.left = << >> /\ p.got = {} /\ p.base = {}
          /\ p.fits = TRUE /\ p = [f \in PageField |-> p[f]]
      BY <3>2 DEF PageField
    <3>4. PageShape(p)
      <4>1. p.left \in Seq(Source) /\ IsFiniteSet(p.got) /\ p.got \subseteq AuditRow
        BY <3>3, FS_EmptySet
      <4> QED BY <3>3, <4>1 DEF PageShape
    <3>5. PageHeld(p)
      BY <3>3 DEF PageHeld
    <3> QED BY <3>1, <3>4, <3>5
  <2> QED BY <2>1, <2>2, <2>3 DEF AuditInv, PagesShape
<1>2. ASSUME AuditInv, [AuditNext]_auditVars PROVE AuditInv'
  <2>1. ASSUME NEW r \in Reader,
               \/ FetchSource(r) \/ AnswerPage(r) \/ AskNext(r, Sources)
               \/ \E e \in auPage[r].shown : OpenEntry(r, e)
               \/ \E q \in Query : AskFirst(r, q, Sources)
        PROVE  AuditInv'
    <3>1. PagesShape'
      BY <1>2, <2>1, FetchStep, AnswerStep, AskNextStep, OpenStep, AskFirstStep
    <3>2. UNCHANGED <<auRows, auEver, auNow, auWritten, auGc>>
      BY <2>1 DEF FetchSource, AnswerPage, AskNext, OpenEntry, AskFirst
    <3>3. auNow <= MaxTime
      BY <1>2 DEF AuditInv, RowsShape
    <3> QED BY <1>2, <3>1, <3>2, <3>3, RowsAlone DEF AuditInv
  <2>2. CASE \E s \in Listed, of \in Owner \cup {0}, t \in {auNow - 1, auNow} \ {0} : AppendRow(s, of, t)
    BY <1>2, <2>2, AppendRowStep
  <2>3. CASE \E task \in Owner, t \in {auNow - 1, auNow} \ {0} : "task_trace" \in Listed /\ RecordInvocation(task, t)
    BY <1>2, <2>3, RecordInvocationStep
  <2>4. CASE AuditTime \/ UNCHANGED auditVars
    <3>1. UNCHANGED <<auRows, auEver, auWritten, auGc, auPage>> /\ auNow' \in {auNow, auNow + 1} /\ auNow' <= MaxTime
      BY <1>2, <2>4, AuditConstants DEF AuditTime, auditVars, AuditInv, RowsShape
    <3>2. PagesShape'
      <4>1. auRows \ {} \subseteq auRows' /\ auPage' = auPage
        BY <3>1
      <4> QED BY <1>2, <4>1, PagesKept
    <3> QED BY <1>2, <3>1, <3>2, RowsAlone DEF AuditInv
  <2>5. CASE GcStarts \/ PruneFails
    <3>1. UNCHANGED <<auRows, auEver, auNow, auWritten, auPage>>
      BY <2>5 DEF GcStarts, PruneFails
    <3>2. PICK g \in [left : Seq(Source), at : {"age", "cutoff", "count"}, cut : AuditRow \cup {NoRow}] : g = auGc
      BY <1>2 DEF AuditInv, GcShape
    <3>3. PICK rest \in Seq(Source) : auGc' = [left |-> rest, at |-> "age", cut |-> NoRow]
      <4>1. CASE GcStarts
        BY <4>1, AuditConstants DEF GcStarts
      <4>2. CASE PruneFails
        <5>1. g.left # << >> /\ auGc' = [left |-> Tail(g.left), at |-> "age", cut |-> NoRow]
          BY <3>2, <4>2 DEF PruneFails, GcNextSource
        <5>2. Tail(g.left) \in Seq(Source)
          BY <3>2, <5>1
        <5> QED BY <5>1, <5>2
      <4> QED BY <2>5, <4>1, <4>2
    <3>4. GcShape'
      BY <1>2, <3>3, GcGoesOn
    <3>5. RowsShape' /\ RecentRowsStay'
      BY <1>2, <3>1 DEF AuditInv, RowsShape, RecentRowsStay, InTable
    <3>6. PagesShape'
      <4>1. auRows \ {} \subseteq auRows' /\ auPage' = auPage
        BY <3>1
      <4> QED BY <1>2, <4>1, PagesKept
    <3> QED BY <3>4, <3>5, <3>6 DEF AuditInv
  <2>6. CASE PruneByAge \/ ReadCutoff \/ PruneByCount
    BY <1>2, <2>6, PruneByAgeStep, ReadCutoffStep, PruneByCountStep
  <2> QED BY <1>2, <2>1, <2>2, <2>3, <2>4, <2>5, <2>6 DEF AuditNext
<1> QED BY <1>1, <1>2

\* The audit log: paging shows every entry of the first page's time that is
\* not deleted meanwhile, and the retention loop deletes only what is old or
\* has enough newer rows, with any readers, tables, limits and writers
\* (audit.Service.Query, RunRetention).
THEOREM AuditIsComplete == AuditSpec => []AuditComplete
<1>1. AuditInv => AuditComplete
  <2> SUFFICES ASSUME AuditInv PROVE PagesAreGapless /\ RecentRowsStay
    BY DEF AuditComplete
  <2>1. ASSUME NEW r \in Reader, auPage[r].fits, ~auPage[r].asking, NEW e \in auPage[r].base
        PROVE  e \in auPage[r].shown \/ (auPage[r].more /\ OlderThanCursor(e, auPage[r].cursor) /\ auPage[r].cursor # NoRow)
    BY <2>1 DEF AuditInv, PagesShape, PageHeld, Answered
  <2>2. PagesAreGapless
    BY <2>1 DEF PagesAreGapless
  <2> QED BY <2>2 DEF AuditInv
<1> QED BY <1>1, AuditInvInductive, PTL DEF AuditSpec

-----------------------------------------------------------------------------
(* What is stored under a session's key. *)

Conversation == {Unset} \cup ({"new", "run"} \X Nat) \cup ({"session"} \X SessionId)
RunRow == [session : SessionId \cup {Unset}, over : BOOLEAN, conversation : Conversation]

\* The database is what its processes take it for.
IsDatabase(f) ==
  /\ f \in [version : {f.version}, columns : {f.columns}, runs : {f.runs}, meta : {f.meta},
            workspaces : {f.workspaces}, acceptance : {f.acceptance}]
  /\ f.runs \in Seq(RunRow)
  /\ f.columns \subseteq Columns
  /\ \A k \in DOMAIN f.acceptance : f.acceptance[k].iteration \in {1, 2}

OpenersShape ==
  opener \in [Opener -> [at : {"down", "opened", "migrating", "ensuring", "serving"},
                         seen : {0, schemaVersion}, stale : BOOLEAN]]

\* What a process has done to the database, or has found done, stays done.
Upgraded ==
  \A p \in Opener :
    /\ opener[p].seen = schemaVersion => file.version = schemaVersion
    /\ opener[p].at \in {"ensuring", "serving"} => file.version = schemaVersion /\ file.columns = Columns
    /\ opener[p].at = "serving" => Legacy(file) = {}

KeyInv == IsDatabase(file) /\ OpenersShape /\ Upgraded

\* The conversation of a session's latest run is one.
LEMMA KnownConversation ==
  ASSUME NEW f, IsDatabase(f), NEW s
  PROVE  ConversationIDForSessionID(f, s) \in Conversation
<1> DEFINE runs == OfConversation(f, s)
<1>1. runs \subseteq 1 .. Len(f.runs) /\ Len(f.runs) \in Nat
  BY DEF OfConversation, IsDatabase
<1>2. CASE runs = {}
  BY <1>2 DEF ConversationIDForSessionID, Conversation
<1>3. CASE runs # {}
  <2>1. \E i \in runs : \A j \in runs : j <= i
    <3> DEFINE S == {Len(f.runs) - i : i \in runs}
    <3>1. S \subseteq Nat /\ S # {}
      BY <1>1, <1>3
    <3>2. PICK m \in S : \A n \in S : m <= n
      BY <3>1, LeastOf
    <3>3. PICK i \in runs : m = Len(f.runs) - i
      BY <3>2
    <3>4. \A j \in runs : Len(f.runs) - i <= Len(f.runs) - j
      BY <3>2, <3>3
    <3> HIDE DEF runs
    <3>5. \A j \in runs : j <= i
      BY <3>4, <1>1, <3>3
    <3> QED BY <3>5
  <2>2. (CHOOSE i \in runs : \A j \in runs : j <= i) \in runs
    <3> HIDE DEF runs
    <3> QED BY <2>1
  <2>3. ConversationIDForSessionID(f, s) = f.runs[CHOOSE i \in runs : \A j \in runs : j <= i].conversation
    BY <1>3 DEF ConversationIDForSessionID
  <2>4. \A i \in 1 .. Len(f.runs) : f.runs[i] \in RunRow
    BY DEF IsDatabase
  <2> HIDE DEF runs
  <2> QED BY <1>1, <2>2, <2>3, <2>4 DEF RunRow
<1> QED BY <1>2, <1>3

\* Every run gets a conversation.
LEMMA ConversationGiven ==
  ASSUME NEW f, IsDatabase(f), NEW id \in DOMAIN f.runs
  PROVE  ConversationFor(f, id) \in Conversation /\ ConversationFor(f, id) # Unset
<1>1. f.runs[id].session \in SessionId \cup {Unset} /\ id \in Nat
  <2>1. f.runs \in Seq(RunRow)
    BY DEF IsDatabase
  <2>2. id \in 1 .. Len(f.runs) /\ Len(f.runs) \in Nat /\ f.runs[id] \in RunRow
    BY <2>1
  <2> QED BY <2>2 DEF RunRow
<1>2. ConversationIDForSessionID(f, f.runs[id].session) \in Conversation
  BY KnownConversation
<1>3. << "run", id >> \in Conversation /\ << "run", id >> # Unset
  BY <1>1 DEF Conversation, Unset
<1>4. CASE f.runs[id].session = Unset
  BY <1>3, <1>4 DEF ConversationFor
<1>5. CASE f.runs[id].session # Unset
  <2>1. << "session", f.runs[id].session >> \in Conversation /\ << "session", f.runs[id].session >> # Unset
    BY <1>1, <1>5 DEF Conversation, Unset
  <2> QED BY <1>2, <1>5, <2>1 DEF ConversationFor
<1> QED BY <1>4, <1>5

\* WithConversations leaves none without.
LEMMA AllConversations ==
  ASSUME NEW f, IsDatabase(f)
  PROVE  /\ WithConversations(f) \in Seq(RunRow)
         /\ DOMAIN WithConversations(f) = DOMAIN f.runs
         /\ \A i \in DOMAIN f.runs :
              /\ WithConversations(f)[i].conversation
                   = IF f.runs[i].conversation = Unset THEN ConversationFor(f, i) ELSE f.runs[i].conversation
              /\ WithConversations(f)[i].conversation # Unset
<1>1. DOMAIN WithConversations(f) = 1 .. Len(f.runs) /\ DOMAIN f.runs = 1 .. Len(f.runs) /\ Len(f.runs) \in Nat
  BY DEF WithConversations, IsDatabase
<1>2. ASSUME NEW i \in 1 .. Len(f.runs)
      PROVE  /\ WithConversations(f)[i] \in RunRow
             /\ WithConversations(f)[i].conversation
                   = IF f.runs[i].conversation = Unset THEN ConversationFor(f, i) ELSE f.runs[i].conversation
             /\ WithConversations(f)[i].conversation # Unset
  <2>1. f.runs[i] \in RunRow
    BY DEF IsDatabase
  <2>2. ConversationFor(f, i) \in Conversation /\ ConversationFor(f, i) # Unset
    BY <1>1, ConversationGiven
  <2>3. WithConversations(f)[i] = [f.runs[i] EXCEPT !.conversation = IF @ = Unset THEN ConversationFor(f, i) ELSE @]
    BY <1>1 DEF WithConversations
  <2> QED BY <2>1, <2>2, <2>3 DEF RunRow
<1>3. WithConversations(f) = [i \in 1 .. Len(f.runs) |-> WithConversations(f)[i]]
  BY <1>1 DEF WithConversations
<1>4. WithConversations(f) \in [1 .. Len(f.runs) -> RunRow]
  BY <1>2, <1>3
<1>5. WithConversations(f) \in Seq(RunRow)
  BY <1>1, <1>4, SeqDef
<1> QED BY <1>1, <1>2, <1>5

-----------------------------------------------------------------------------
(* Moving rows. *)

\* A row arrives at the key it is moved to, or stays where it is.
LEMMA Arriving ==
  ASSUME NEW keys, NEW moves, NEW from \in keys, NEW to,
         (from = to /\ \A m \in moves : m[1] # from) \/ << from, to >> \in moves
  PROVE  to \in DOMAIN Arrivals(keys, moves) /\ from \in Arrivals(keys, moves)[to]
<1> DEFINE reached == {k \in keys : \A m \in moves : m[1] # k} \cup {m[2] : m \in {n \in moves : n[1] \in keys}}
<1>1. to \in reached
  <2>1. CASE << from, to >> \in moves
    <3>1. << from, to >>[1] = from /\ << from, to >>[2] = to
      OBVIOUS
    <3>2. << from, to >> \in {n \in moves : n[1] \in keys}
      BY <2>1, <3>1
    <3> QED BY <3>1, <3>2
  <2>2. CASE from = to /\ \A m \in moves : m[1] # from
    BY <2>2
  <2> QED BY <2>1, <2>2
<1>2. Arrivals(keys, moves) = [t \in reached |-> {k \in keys : k = t \/ << k, t >> \in moves}]
  BY DEF Arrivals
<1> HIDE DEF reached
<1> QED BY <1>1, <1>2

\* Where rows arrive some row comes from.
LEMMA ArrivedFrom ==
  ASSUME NEW keys, NEW moves, \A m \in moves : m = << m[1], m[2] >>,
         NEW to \in DOMAIN Arrivals(keys, moves)
  PROVE  Arrivals(keys, moves)[to] \subseteq keys /\ Arrivals(keys, moves)[to] # {}
<1>1. Arrivals(keys, moves)[to] = {k \in keys : k = to \/ << k, to >> \in moves}
  BY DEF Arrivals
<1>2. to \in {k \in keys : \A m \in moves : m[1] # k} \cup {m[2] : m \in {n \in moves : n[1] \in keys}}
  BY DEF Arrivals
<1>3. CASE to \in keys
  BY <1>1, <1>3
<1>4. ASSUME NEW m \in moves, m[1] \in keys, to = m[2]
      PROVE  m[1] \in Arrivals(keys, moves)[to]
  BY <1>1, <1>4
<1> QED BY <1>1, <1>2, <1>3, <1>4

\* A merged title is one of those that came together, if there is any, and
\* the one of the key itself before the others.
LEMMA TitleKept ==
  ASSUME NEW rows, NEW moves, NEW moved \in MovedMeta(rows, moves), NEW from \in DOMAIN rows, NEW to,
         (from = to /\ \A m \in moves : m[1] # from) \/ << from, to >> \in moves
  PROVE  /\ to \in DOMAIN moved
         /\ rows[from].title # "" => moved[to].title # "" /\ (from = to => moved[to].title = rows[from].title)
         /\ rows[from].deleted => moved[to].deleted
<1> DEFINE came == Arrivals(DOMAIN rows, moves)
<1>1. to \in DOMAIN came /\ from \in came[to]
  BY Arriving
<1>2. DOMAIN moved = DOMAIN came /\ \A t \in DOMAIN came : moved[t] \in MergedMeta(rows, t, came[t])
  BY DEF MovedMeta
<1>3. moved[to] \in MergedMeta(rows, to, came[to])
  BY <1>1, <1>2
<1>4. /\ moved[to].title \in MergedTitles(rows, to, came[to])
      /\ moved[to].deleted = \E k \in came[to] : rows[k].deleted
  BY <1>3 DEF MergedMeta
<1> DEFINE arriving == {rows[k].title : k \in came[to]} \ {""}
           own == {rows[k].title : k \in came[to] \cap {to}} \ {""}
<1>5. MergedTitles(rows, to, came[to]) = IF own # {} THEN own ELSE IF arriving # {} THEN arriving ELSE {""}
  BY DEF MergedTitles
<1>6. ASSUME rows[from].title # ""
      PROVE  moved[to].title # "" /\ (from = to => moved[to].title = rows[from].title)
  <2>1. rows[from].title \in arriving /\ (from = to => own = {rows[from].title})
    <3> HIDE DEF came
    <3> QED BY <1>1, <1>6
  <2>2. "" \notin own /\ "" \notin arriving
    OBVIOUS
  <2> HIDE DEF own, arriving, came
  <2> QED BY <1>4, <1>5, <2>1, <2>2
<1>7. rows[from].deleted => moved[to].deleted
  <2> HIDE DEF came, own, arriving
  <2> QED BY <1>1, <1>4
<1> HIDE DEF came, own, arriving
<1> QED BY <1>1, <1>2, <1>6, <1>7

\* The furthest of some iterations.
LEMMA Furthest ==
  ASSUME NEW rows, NEW keys, keys # {}, \A k \in keys : rows[k].iteration \in {1, 2}
  PROVE  /\ MergedAcceptance(rows, keys).iteration \in {1, 2}
         /\ \A k \in keys : rows[k].iteration <= MergedAcceptance(rows, keys).iteration
<1> DEFINE S == {rows[k].iteration : k \in keys}
           most(n) == \A k \in keys : rows[k].iteration <= n
<1>1. \E n \in S : most(n)
  <2>1. CASE \E k \in keys : rows[k].iteration = 2
    BY <2>1
  <2>2. CASE \A k \in keys : rows[k].iteration = 1
    BY <2>2
  <2> QED BY <2>1, <2>2
<1>2. MergedAcceptance(rows, keys).iteration = CHOOSE n \in S : most(n)
  BY DEF MergedAcceptance
<1>3. S \subseteq {1, 2}
  OBVIOUS
<1>4. (CHOOSE n \in S : most(n)) \in S /\ most(CHOOSE n \in S : most(n))
  <2> HIDE DEF S, most
  <2> QED BY <1>1
<1>5. MergedAcceptance(rows, keys).iteration \in S /\ most(MergedAcceptance(rows, keys).iteration)
  <2> HIDE DEF S, most
  <2> QED BY <1>2, <1>4
<1> QED BY <1>3, <1>5

\* So it is for an acceptance, wherever it moves.
LEMMA AcceptanceKept ==
  ASSUME NEW rows, \A k \in DOMAIN rows : rows[k].iteration \in {1, 2},
         NEW moves, \A m \in moves : m = << m[1], m[2] >>
  PROVE  /\ \A to \in DOMAIN MovedAcceptance(rows, moves) : MovedAcceptance(rows, moves)[to].iteration \in {1, 2}
         /\ \A from \in DOMAIN rows : \A to :
              (from = to /\ \A m \in moves : m[1] # from) \/ << from, to >> \in moves =>
                /\ to \in DOMAIN MovedAcceptance(rows, moves)
                /\ rows[from].iteration <= MovedAcceptance(rows, moves)[to].iteration
                /\ rows[from].report => MovedAcceptance(rows, moves)[to].report
<1> DEFINE came == Arrivals(DOMAIN rows, moves)
<1>1. MovedAcceptance(rows, moves) = [to \in DOMAIN came |-> MergedAcceptance(rows, came[to])]
  BY DEF MovedAcceptance
<1>2. \A to \in DOMAIN came : came[to] \subseteq DOMAIN rows /\ came[to] # {}
  BY ArrivedFrom
<1>3. ASSUME NEW to \in DOMAIN came
      PROVE  /\ MergedAcceptance(rows, came[to]).iteration \in {1, 2}
             /\ \A k \in came[to] : rows[k].iteration <= MergedAcceptance(rows, came[to]).iteration
  <2> HIDE DEF came
  <2>1. \A k \in came[to] : rows[k].iteration \in {1, 2}
    BY <1>2
  <2> QED BY <1>2, <2>1, Furthest
<1>4. ASSUME NEW from \in DOMAIN rows, NEW to,
             (from = to /\ \A m \in moves : m[1] # from) \/ << from, to >> \in moves
      PROVE  /\ to \in DOMAIN MovedAcceptance(rows, moves)
             /\ rows[from].iteration <= MovedAcceptance(rows, moves)[to].iteration
             /\ rows[from].report => MovedAcceptance(rows, moves)[to].report
  <2>1. to \in DOMAIN came /\ from \in came[to]
    BY <1>4, Arriving
  <2>2. MovedAcceptance(rows, moves)[to] = MergedAcceptance(rows, came[to])
    <3> HIDE DEF came
    <3> QED BY <1>1, <2>1
  <2>3. rows[from].iteration <= MergedAcceptance(rows, came[to]).iteration
    <3> HIDE DEF came
    <3> QED BY <1>3, <2>1
  <2>4. rows[from].report => MergedAcceptance(rows, came[to]).report
    <3> HIDE DEF came
    <3> QED BY <2>1 DEF MergedAcceptance
  <2> HIDE DEF came
  <2> QED BY <1>1, <2>1, <2>2, <2>3, <2>4
<1>5. \A to \in DOMAIN MovedAcceptance(rows, moves) : MovedAcceptance(rows, moves)[to].iteration \in {1, 2}
  <2> HIDE DEF came
  <2> QED BY <1>1, <1>3
<1> QED BY <1>4, <1>5

\* A move is a pair, away from a key of a session or a run.
LEMMA MovesAway ==
  ASSUME NEW f, NEW m \in Moves(f)
  PROVE  m = << m[1], m[2] >> /\ \A c : m[1] # ConversationKey(c)
<1>1. \A id, s : \A c : SessionKey(id, s) # ConversationKey(c)
  <2>1. \A x, y : << "s", x >> # << "c", y >> /\ << "t", x >> # << "c", y >>
    OBVIOUS
  <2> QED BY <2>1 DEF SessionKey, ConversationKey
<1>2. ASSUME NEW id, NEW s, NEW to, m = << SessionKey(id, s), to >>
      PROVE  m = << m[1], m[2] >> /\ \A c : m[1] # ConversationKey(c)
  <2>1. m[1] = SessionKey(id, s) /\ m[2] = to
    BY <1>2
  <2> QED BY <1>1, <1>2, <2>1
<1>3. \E id, s, to : m = << SessionKey(id, s), to >>
  BY DEF Moves
<1> QED BY <1>2, <1>3

\* What is stored for a run moves with it.
LEMMA RunsMove ==
  ASSUME NEW f, IsDatabase(f), NEW id \in DOMAIN f.runs
  PROVE  LET from == SessionKeyForTask(id, f.runs[id])
             to == SessionKeyForTask(id, WithConversations(f)[id])
         IN  IF f.runs[id].conversation = Unset
               THEN to = ConversationKey(ConversationFor(f, id)) /\ << from, to >> \in Moves(f)
               ELSE from = to /\ \A m \in Moves(f) : m[1] # from
<1>1. CASE f.runs[id].conversation = Unset
  <2>1. SessionKeyForTask(id, f.runs[id]) = SessionKey(id, f.runs[id].session)
    BY <1>1 DEF SessionKeyForTask
  <2>2. SessionKeyForTask(id, WithConversations(f)[id]) = ConversationKey(ConversationFor(f, id))
    BY <1>1, AllConversations DEF SessionKeyForTask
  <2>3. id \in Legacy(f)
    BY <1>1 DEF Legacy
  <2>4. << SessionKey(id, f.runs[id].session), ConversationKey(ConversationFor(f, id)) >> \in Moves(f)
    BY <2>3 DEF Moves
  <2> QED BY <1>1, <2>1, <2>2, <2>4
<1>2. CASE f.runs[id].conversation # Unset
  <2>1. SessionKeyForTask(id, f.runs[id]) = ConversationKey(f.runs[id].conversation)
    BY <1>2 DEF SessionKeyForTask
  <2>2. SessionKeyForTask(id, WithConversations(f)[id]) = ConversationKey(f.runs[id].conversation)
    BY <1>2, AllConversations DEF SessionKeyForTask
  <2> QED BY <1>2, <2>1, <2>2, MovesAway
<1> QED BY <1>1, <1>2

\* Runs of one session, or of one conversation, get one conversation.
LEMMA StayTogether ==
  ASSUME NEW f, IsDatabase(f), NEW g, g.runs = WithConversations(f),
         NEW id \in DOMAIN f.runs, NEW other \in DOMAIN f.runs, Together(f, id, other)
  PROVE  Together(g, id, other)
<1> DEFINE key(i) == SessionKeyForTask(i, f.runs[i])
           later(i) == SessionKeyForTask(i, WithConversations(f)[i])
<1>1. key(id) = key(other)
  BY DEF Together
<1>2. \A x, y : << "s", x >> # << "c", y >> /\ << "t", x >> # << "c", y >> /\ << "s", x >> # << "t", y >>
  OBVIOUS
<1>3. \A x, y : (<< "s", x >> = << "s", y >> => x = y) /\ (<< "t", x >> = << "t", y >> => x = y)
  OBVIOUS
<1>4. \A i \in DOMAIN f.runs :
        /\ f.runs[i].conversation # Unset => key(i) = << "c", f.runs[i].conversation >> /\ later(i) = key(i)
        /\ f.runs[i].conversation = Unset =>
             /\ key(i) = IF f.runs[i].session # Unset THEN << "s", f.runs[i].session >> ELSE << "t", i >>
             /\ later(i) = ConversationKey(ConversationFor(f, i))
  BY RunsMove DEF SessionKeyForTask, SessionKey, ConversationKey
<1>5. CASE f.runs[id].conversation # Unset
  <2>1. f.runs[other].conversation # Unset
    BY <1>1, <1>2, <1>4, <1>5
  <2>2. later(id) = later(other)
    BY <1>1, <1>4, <1>5, <2>1
  <2> QED BY <2>2 DEF Together
<1>6. CASE f.runs[id].conversation = Unset
  <2>1. f.runs[other].conversation = Unset
    BY <1>1, <1>2, <1>4, <1>6
  <2>2. f.runs[id].session = f.runs[other].session /\ (f.runs[id].session = Unset => id = other)
    <3>1. /\ key(id) = IF f.runs[id].session # Unset THEN << "s", f.runs[id].session >> ELSE << "t", id >>
          /\ key(other) = IF f.runs[other].session # Unset THEN << "s", f.runs[other].session >> ELSE << "t", other >>
      BY <1>4, <1>6, <2>1
    <3> HIDE DEF key
    <3>2. CASE f.runs[id].session # Unset
      <4>1. f.runs[other].session # Unset
        BY <1>1, <1>2, <3>1, <3>2
      <4>2. << "s", f.runs[id].session >> = << "s", f.runs[other].session >>
        BY <1>1, <3>1, <3>2, <4>1
      <4> QED BY <1>3, <3>2, <4>2
    <3>3. CASE f.runs[id].session = Unset
      <4>1. f.runs[other].session = Unset
        BY <1>1, <1>2, <3>1, <3>3
      <4>2. << "t", id >> = << "t", other >>
        BY <1>1, <3>1, <3>3, <4>1
      <4> QED BY <1>3, <3>3, <4>1, <4>2
    <3> QED BY <3>2, <3>3
  <2>3. ConversationFor(f, id) = ConversationFor(f, other)
    <3>1. CASE f.runs[id].session = Unset
      BY <2>2, <3>1
    <3>2. CASE f.runs[id].session # Unset
      BY <2>2, <3>2 DEF ConversationFor
    <3> QED BY <3>1, <3>2
  <2>4. later(id) = later(other)
    BY <1>4, <1>6, <2>1, <2>3
  <2> QED BY <2>4 DEF Together
<1> QED BY <1>5, <1>6

-----------------------------------------------------------------------------
(* What a step does to the database. *)

\* The columns of a database.
Holds(f, version, columns, runs, meta, workspaces, acceptance) ==
  /\ f \in [version : {version}, columns : {columns}, runs : {runs}, meta : {meta},
            workspaces : {workspaces}, acceptance : {acceptance}]
  /\ f.version = version /\ f.columns = columns /\ f.runs = runs /\ f.meta = meta
  /\ f.workspaces = workspaces /\ f.acceptance = acceptance

\* An update of some of them leaves the others.
LEMMA HasFields ==
  ASSUME NEW f, IsDatabase(f)
  PROVE  /\ \A v : Holds([f EXCEPT !.version = v], v, f.columns, f.runs, f.meta, f.workspaces, f.acceptance)
         /\ \A c : Holds([f EXCEPT !.columns = c], f.version, c, f.runs, f.meta, f.workspaces, f.acceptance)
         /\ \A r : Holds([f EXCEPT !.runs = r], f.version, f.columns, r, f.meta, f.workspaces, f.acceptance)
         /\ \A m : Holds([f EXCEPT !.meta = m], f.version, f.columns, f.runs, m, f.workspaces, f.acceptance)
         /\ \A w : Holds([f EXCEPT !.workspaces = w], f.version, f.columns, f.runs, f.meta, w, f.acceptance)
         /\ \A r, m, w, a : Holds([f EXCEPT !.runs = r, !.meta = m, !.workspaces = w, !.acceptance = a],
                                  f.version, f.columns, r, m, w, a)
<1>1. f \in [version : {f.version}, columns : {f.columns}, runs : {f.runs}, meta : {f.meta},
             workspaces : {f.workspaces}, acceptance : {f.acceptance}]
  BY DEF IsDatabase
<1>2. ASSUME NEW r, NEW m, NEW w, NEW a
      PROVE  Holds([f EXCEPT !.runs = r, !.meta = m, !.workspaces = w, !.acceptance = a],
                   f.version, f.columns, r, m, w, a)
  BY <1>1 DEF Holds
<1>3. \A v : Holds([f EXCEPT !.version = v], v, f.columns, f.runs, f.meta, f.workspaces, f.acceptance)
  BY <1>1 DEF Holds
<1>4. \A c : Holds([f EXCEPT !.columns = c], f.version, c, f.runs, f.meta, f.workspaces, f.acceptance)
  BY <1>1 DEF Holds
<1>5. \A r : Holds([f EXCEPT !.runs = r], f.version, f.columns, r, f.meta, f.workspaces, f.acceptance)
  BY <1>1 DEF Holds
<1>6. \A m : Holds([f EXCEPT !.meta = m], f.version, f.columns, f.runs, m, f.workspaces, f.acceptance)
  BY <1>1 DEF Holds
<1>7. \A w : Holds([f EXCEPT !.workspaces = w], f.version, f.columns, f.runs, f.meta, w, f.acceptance)
  BY <1>1 DEF Holds
<1> QED BY <1>2, <1>3, <1>4, <1>5, <1>6, <1>7

\* What a database holds makes it one.
LEMMA HoldsDatabase ==
  ASSUME NEW f, NEW v, NEW c, NEW r, NEW m, NEW w, NEW a, Holds(f, v, c, r, m, w, a),
         r \in Seq(RunRow), c \subseteq Columns, \A k \in DOMAIN a : a[k].iteration \in {1, 2}
  PROVE  IsDatabase(f)
BY DEF Holds, IsDatabase

\* What the migrations leave alone.
LEMMA MigrateKeeps ==
  ASSUME NEW f, IsDatabase(f), NEW seen \in {0, schemaVersion}
  PROVE  LET g == Migrate(f, seen) IN
         /\ IsDatabase(g)
         /\ Holds(g, IF seen = 0 THEN schemaVersion ELSE f.version, Columns, f.runs, f.meta, f.workspaces, f.acceptance)
<1> DEFINE version == IF seen = 0 THEN schemaVersion ELSE f.version
           Of(g, c) == IsDatabase(g) /\ Holds(g, version, c, f.runs, f.meta, f.workspaces, f.acceptance)
<1>1. /\ f.runs \in Seq(RunRow) /\ f.columns \subseteq Columns
      /\ \A k \in DOMAIN f.acceptance : f.acceptance[k].iteration \in {1, 2}
  BY DEF IsDatabase
<1>2. Of(CreateTables(f, seen), f.columns)
  <2>1. CASE seen = 0
    <3>1. Holds(CreateTables(f, seen), version, f.columns, f.runs, f.meta, f.workspaces, f.acceptance)
      BY <2>1, HasFields DEF CreateTables
    <3> HIDE DEF version
    <3> QED BY <1>1, <3>1, HoldsDatabase
  <2>2. CASE seen # 0
    <3>1. CreateTables(f, seen) = f /\ version = f.version
      BY <2>2 DEF CreateTables
    <3>2. Holds(f, f.version, f.columns, f.runs, f.meta, f.workspaces, f.acceptance)
      BY DEF IsDatabase, Holds
    <3> QED BY <3>1, <3>2
  <2> QED BY <2>1, <2>2
<1>3. ASSUME NEW g, NEW c, Of(g, c), NEW e, c \cup e \subseteq Columns
      PROVE  Of([g EXCEPT !.columns = @ \cup e], c \cup e)
  <2> DEFINE h == [g EXCEPT !.columns = c \cup e]
  <2>1. g.columns = c /\ g.version = version /\ g.runs = f.runs /\ g.meta = f.meta /\ g.workspaces = f.workspaces
        /\ g.acceptance = f.acceptance
    BY <1>3 DEF Holds
  <2>2. Holds(h, g.version, c \cup e, g.runs, g.meta, g.workspaces, g.acceptance)
    BY <1>3, HasFields
  <2> HIDE DEF version, h
  <2>3. Holds(h, version, c \cup e, f.runs, f.meta, f.workspaces, f.acceptance)
    BY <2>1, <2>2
  <2>4. IsDatabase(h)
    BY <1>1, <1>3, <2>3, HoldsDatabase
  <2> QED BY <2>1, <2>3, <2>4 DEF h
<1> DEFINE g1 == ensureTaskRunOptionsColumns(CreateTables(f, seen))
           g2 == ensureTasksColumns(g1)
           g3 == ensureChatMessagesColumns(g2)
           g4 == ensureSecretaryCompressionsColumns(g3)
<1>4. /\ \A g : ensureTaskRunOptionsColumns(g) = [g EXCEPT !.columns = @ \cup {"run_options"}]
      /\ \A g : ensureTasksColumns(g) = [g EXCEPT !.columns = @ \cup {"conversation_id"}]
      /\ \A g : ensureChatMessagesColumns(g) = [g EXCEPT !.columns = @ \cup {"chat_conversation_id"}]
      /\ \A g : ensureSecretaryCompressionsColumns(g) = [g EXCEPT !.columns = @ \cup {"compressions_conversation_id"}]
  BY DEF ensureTaskRunOptionsColumns, ensureTasksColumns, ensureChatMessagesColumns, ensureSecretaryCompressionsColumns
<1> HIDE DEF Of
<1>5. Of(g1, f.columns \cup {"run_options"})
  BY <1>1, <1>2, <1>3, <1>4 DEF Columns
<1> HIDE DEF g1
<1>6. Of(g2, f.columns \cup {"run_options"} \cup {"conversation_id"})
  BY <1>1, <1>3, <1>4, <1>5 DEF Columns
<1> HIDE DEF g2
<1>7. Of(g3, f.columns \cup {"run_options"} \cup {"conversation_id"} \cup {"chat_conversation_id"})
  BY <1>1, <1>3, <1>4, <1>6 DEF Columns
<1> HIDE DEF g3
<1>8. Of(g4, f.columns \cup {"run_options"} \cup {"conversation_id"} \cup {"chat_conversation_id"}
               \cup {"compressions_conversation_id"})
  BY <1>1, <1>3, <1>4, <1>7 DEF Columns
<1>9. f.columns \cup {"run_options"} \cup {"conversation_id"} \cup {"chat_conversation_id"}
        \cup {"compressions_conversation_id"} = Columns
  BY <1>1 DEF Columns
<1>10. Migrate(f, seen) = g4
  BY DEF Migrate, g3, g2, g1
<1>11. Of(Migrate(f, seen), Columns)
  <2> HIDE DEF g4
  <2> QED BY <1>8, <1>9, <1>10
<1> QED BY <1>11 DEF Of

\* What EnsureConversationIDs leaves.
LEMMA Ensured ==
  ASSUME NEW f, IsDatabase(f), NEW g \in EnsureConversationIDs(f)
  PROVE  /\ g.version = f.version /\ g.columns = f.columns
         /\ g.runs = WithConversations(f)
         /\ g.meta \in MovedMeta(f.meta, Moves(f))
         /\ g.workspaces = MovedWorkspaces(f.workspaces, Moves(f))
         /\ g.acceptance = MovedAcceptance(f.acceptance, Moves(f))
         /\ IsDatabase(g)
<1>1. PICK meta \in MovedMeta(f.meta, Moves(f)) :
        g = [f EXCEPT !.runs = WithConversations(f), !.meta = meta,
                      !.workspaces = MovedWorkspaces(f.workspaces, Moves(f)),
                      !.acceptance = MovedAcceptance(f.acceptance, Moves(f))]
  BY DEF EnsureConversationIDs
<1>2. Holds(g, f.version, f.columns, WithConversations(f), meta,
            MovedWorkspaces(f.workspaces, Moves(f)), MovedAcceptance(f.acceptance, Moves(f)))
  <2> DEFINE w == MovedWorkspaces(f.workspaces, Moves(f))
             a == MovedAcceptance(f.acceptance, Moves(f))
             r == WithConversations(f)
  <2>1. g = [f EXCEPT !.runs = r, !.meta = meta, !.workspaces = w, !.acceptance = a]
    BY <1>1
  <2> HIDE DEF w, a, r
  <2>2. Holds(g, f.version, f.columns, r, meta, w, a)
    BY <2>1, HasFields
  <2> QED BY <2>2 DEF w, a, r
<1>3. WithConversations(f) \in Seq(RunRow)
  BY AllConversations
<1>4. \A k \in DOMAIN MovedAcceptance(f.acceptance, Moves(f)) :
        MovedAcceptance(f.acceptance, Moves(f))[k].iteration \in {1, 2}
  <2>1. \A k \in DOMAIN f.acceptance : f.acceptance[k].iteration \in {1, 2}
    BY DEF IsDatabase
  <2>2. \A m \in Moves(f) : m = << m[1], m[2] >>
    BY MovesAway
  <2> QED BY <2>1, <2>2, AcceptanceKept
<1>5. f.columns \subseteq Columns
  BY DEF IsDatabase
<1>6. IsDatabase(g)
  BY <1>2, <1>3, <1>4, <1>5, HoldsDatabase
<1> QED BY <1>2, <1>6 DEF Holds

\* What users and runs do to a database in which every run has a conversation.
Edited(f, g) ==
  /\ IsDatabase(g)
  /\ g.version = f.version /\ g.columns = f.columns
  /\ DOMAIN f.runs \subseteq DOMAIN g.runs
  /\ \A i \in DOMAIN f.runs : g.runs[i].conversation = f.runs[i].conversation
  /\ \A i \in DOMAIN g.runs : g.runs[i].conversation # Unset
  /\ f.workspaces \subseteq g.workspaces /\ g.acceptance = f.acceptance
  /\ \A k \in DOMAIN f.meta : k \in DOMAIN g.meta /\ (f.meta[k].deleted => g.meta[k].deleted)
TitlesStay(f, g) == \A k \in DOMAIN f.meta : g.meta[k].title = f.meta[k].title

\* Of a run.
LEMMA RunsEdited ==
  ASSUME NEW f, IsDatabase(f), Legacy(f) = {}, NEW r \in Seq(RunRow),
         DOMAIN f.runs \subseteq DOMAIN r,
         \A i \in DOMAIN f.runs : r[i].conversation = f.runs[i].conversation,
         \A i \in DOMAIN r : i \in DOMAIN f.runs \/ r[i].conversation # Unset
  PROVE  Edited(f, [f EXCEPT !.runs = r]) /\ TitlesStay(f, [f EXCEPT !.runs = r])
<1> DEFINE g == [f EXCEPT !.runs = r]
<1>1. Holds(g, f.version, f.columns, r, f.meta, f.workspaces, f.acceptance)
  BY HasFields
<1>2. IsDatabase(g)
  <2>1. /\ f.runs \in Seq(RunRow) /\ f.columns \subseteq Columns
        /\ \A k \in DOMAIN f.acceptance : f.acceptance[k].iteration \in {1, 2}
    BY DEF IsDatabase
  <2> HIDE DEF g
  <2> QED BY <1>1, <2>1, HoldsDatabase
<1>3. \A i \in DOMAIN f.runs : f.runs[i].conversation # Unset
  BY DEF Legacy
<1>4. \A i \in DOMAIN r : r[i].conversation # Unset
  BY <1>3
<1> HIDE DEF g
<1>5. Edited(f, g) /\ TitlesStay(f, g)
  BY <1>1, <1>2, <1>4 DEF Edited, TitlesStay, Holds
<1> QED BY <1>5 DEF g

\* Of the title and deletion of a session.
LEMMA MetaEdited ==
  ASSUME NEW f, IsDatabase(f), Legacy(f) = {}, NEW key, NEW row,
         key \in DOMAIN f.meta /\ f.meta[key].deleted => row.deleted
  PROVE  Edited(f, [f EXCEPT !.meta = Put(f.meta, key, row)])
<1> DEFINE g == [f EXCEPT !.meta = Put(f.meta, key, row)]
<1>1. Holds(g, f.version, f.columns, f.runs, Put(f.meta, key, row), f.workspaces, f.acceptance)
  BY HasFields
<1>2. IsDatabase(g)
  <2>1. /\ f.runs \in Seq(RunRow) /\ f.columns \subseteq Columns
        /\ \A k \in DOMAIN f.acceptance : f.acceptance[k].iteration \in {1, 2}
    BY DEF IsDatabase
  <2> HIDE DEF g
  <2> QED BY <1>1, <2>1, HoldsDatabase
<1>3. \A i \in DOMAIN f.runs : f.runs[i].conversation # Unset
  BY DEF Legacy
<1>4. \A k \in DOMAIN f.meta : k \in DOMAIN Put(f.meta, key, row)
                               /\ (f.meta[k].deleted => Put(f.meta, key, row)[k].deleted)
  BY DEF Put
<1> HIDE DEF g
<1>5. Edited(f, g)
  BY <1>1, <1>2, <1>3, <1>4 DEF Edited, Holds
<1> QED BY <1>5 DEF g

\* Of a workspace.
LEMMA WorkspaceEdited ==
  ASSUME NEW f, IsDatabase(f), Legacy(f) = {}, NEW key
  PROVE  LET g == [f EXCEPT !.workspaces = f.workspaces \cup {key}] IN Edited(f, g) /\ TitlesStay(f, g)
<1> DEFINE g == [f EXCEPT !.workspaces = f.workspaces \cup {key}]
<1>1. Holds(g, f.version, f.columns, f.runs, f.meta, f.workspaces \cup {key}, f.acceptance)
  BY HasFields
<1>2. IsDatabase(g)
  <2>1. /\ f.runs \in Seq(RunRow) /\ f.columns \subseteq Columns
        /\ \A k \in DOMAIN f.acceptance : f.acceptance[k].iteration \in {1, 2}
    BY DEF IsDatabase
  <2> HIDE DEF g
  <2> QED BY <1>1, <2>1, HoldsDatabase
<1>3. \A i \in DOMAIN f.runs : f.runs[i].conversation # Unset
  BY DEF Legacy
<1> HIDE DEF g
<1>4. Edited(f, g) /\ TitlesStay(f, g)
  BY <1>1, <1>2, <1>3 DEF Edited, TitlesStay, Holds
<1> QED BY <1>4 DEF g

-----------------------------------------------------------------------------
(* What users see of a session. *)

\* An edit keeps it.
LEMMA EditKeeps ==
  ASSUME IsDatabase(file), Legacy(file) = {}, Edited(file, file'), UserEdits \/ TitlesStay(file, file')
  PROVE  SessionsStay
<1>1. \A id \in DOMAIN file.runs :
        /\ id \in DOMAIN file'.runs /\ file.runs[id].conversation # Unset
        /\ SessionKeyForTask(id, file'.runs[id]) = SessionKeyForTask(id, file.runs[id])
  BY DEF Edited, Legacy, SessionKeyForTask
<1>2. ASSUME NEW id \in DOMAIN file.runs
      PROVE  ShownStays(id)
  <2> DEFINE key == SessionKeyForTask(id, file.runs[id])
  <2>1. SessionKeyForTask(id, file'.runs[id]) = key
    BY <1>1
  <2>2. /\ Shown(file, id).title = IF key \in DOMAIN file.meta THEN file.meta[key].title ELSE ""
        /\ Shown(file, id).deleted = (key \in DOMAIN file.meta /\ file.meta[key].deleted)
        /\ Shown(file, id).workspace = (key \in file.workspaces)
        /\ Shown(file, id).iteration = IF key \in DOMAIN file.acceptance THEN file.acceptance[key].iteration ELSE 0
        /\ Shown(file, id).report = (key \in DOMAIN file.acceptance /\ file.acceptance[key].report)
    BY DEF Shown, Has
  <2>3. /\ Shown(file', id).title = IF key \in DOMAIN file'.meta THEN file'.meta[key].title ELSE ""
        /\ Shown(file', id).deleted = (key \in DOMAIN file'.meta /\ file'.meta[key].deleted)
        /\ Shown(file', id).workspace = (key \in file'.workspaces)
        /\ Shown(file', id).iteration = IF key \in DOMAIN file'.acceptance THEN file'.acceptance[key].iteration ELSE 0
        /\ Shown(file', id).report = (key \in DOMAIN file'.acceptance /\ file'.acceptance[key].report)
    BY <2>1 DEF Shown, Has
  <2> HIDE DEF key
  <2>4. Shown(file, id).deleted => Shown(file', id).deleted
    BY <2>2, <2>3 DEF Edited
  <2>5. Shown(file, id).workspace => Shown(file', id).workspace
    BY <2>2, <2>3 DEF Edited
  <2>6. file'.acceptance = file.acceptance
    BY DEF Edited
  <2>7. Shown(file, id).iteration <= Shown(file', id).iteration
    <3>1. Shown(file', id).iteration = Shown(file, id).iteration
      BY <2>2, <2>3, <2>6
    <3>2. Shown(file, id).iteration \in {0, 1, 2}
      BY <2>2 DEF IsDatabase
    <3> QED BY <3>1, <3>2
  <2>8. Shown(file, id).report => Shown(file', id).report
    BY <2>2, <2>3, <2>6
  <2>9. ASSUME ~UserEdits, Shown(file, id).title # ""
        PROVE  Shown(file', id).title = Shown(file, id).title
    <3>1. TitlesStay(file, file')
      BY <2>9
    <3> QED BY <2>2, <2>3, <2>9, <3>1 DEF TitlesStay, Edited
  <2> QED BY <1>1, <2>4, <2>5, <2>7, <2>8, <2>9 DEF ShownStays
<1>3. \A id, other \in DOMAIN file.runs : Together(file, id, other) => Together(file', id, other)
  BY <1>1 DEF Together
<1> QED BY <1>2, <1>3 DEF SessionsStay

\* Moving everything to the keys of conversations keeps it.
LEMMA EnsureKeeps ==
  ASSUME IsDatabase(file), file' \in EnsureConversationIDs(file)
  PROVE  SessionsStay
<1>1. /\ file'.runs = WithConversations(file)
      /\ file'.meta \in MovedMeta(file.meta, Moves(file))
      /\ file'.workspaces = MovedWorkspaces(file.workspaces, Moves(file))
      /\ file'.acceptance = MovedAcceptance(file.acceptance, Moves(file))
  BY Ensured
<1>2. ASSUME NEW id \in DOMAIN file.runs
      PROVE  ShownStays(id)
  <2> DEFINE from == SessionKeyForTask(id, file.runs[id])
             to == SessionKeyForTask(id, file'.runs[id])
  <2>1. (from = to /\ \A m \in Moves(file) : m[1] # from) \/ << from, to >> \in Moves(file)
    BY <1>1, RunsMove
  <2>2. file.runs[id].conversation # Unset => from = to
    BY <1>1, RunsMove
  <2>3. /\ Shown(file, id).title = IF from \in DOMAIN file.meta THEN file.meta[from].title ELSE ""
        /\ Shown(file, id).deleted = (from \in DOMAIN file.meta /\ file.meta[from].deleted)
        /\ Shown(file, id).workspace = (from \in file.workspaces)
        /\ Shown(file, id).iteration = IF from \in DOMAIN file.acceptance THEN file.acceptance[from].iteration ELSE 0
        /\ Shown(file, id).report = (from \in DOMAIN file.acceptance /\ file.acceptance[from].report)
    BY DEF Shown, Has
  <2>4. /\ Shown(file', id).title = IF to \in DOMAIN file'.meta THEN file'.meta[to].title ELSE ""
        /\ Shown(file', id).deleted = (to \in DOMAIN file'.meta /\ file'.meta[to].deleted)
        /\ Shown(file', id).workspace = (to \in file'.workspaces)
        /\ Shown(file', id).iteration = IF to \in DOMAIN file'.acceptance THEN file'.acceptance[to].iteration ELSE 0
        /\ Shown(file', id).report = (to \in DOMAIN file'.acceptance /\ file'.acceptance[to].report)
    BY DEF Shown, Has
  <2> HIDE DEF from, to
  <2>5. from \in DOMAIN file.meta =>
          /\ to \in DOMAIN file'.meta
          /\ file.meta[from].title # "" => file'.meta[to].title # "" /\ (from = to => file'.meta[to].title = file.meta[from].title)
          /\ file.meta[from].deleted => file'.meta[to].deleted
    BY <1>1, <2>1, TitleKept
  <2>6. from \in file.workspaces => to \in file'.workspaces
    BY <1>1, <2>1, Arriving DEF MovedWorkspaces
  <2>7. /\ \A k \in DOMAIN file.acceptance : file.acceptance[k].iteration \in {1, 2}
        /\ \A m \in Moves(file) : m = << m[1], m[2] >>
    BY MovesAway DEF IsDatabase
  <2>8. /\ \A k \in DOMAIN file'.acceptance : file'.acceptance[k].iteration \in {1, 2}
        /\ from \in DOMAIN file.acceptance =>
             /\ to \in DOMAIN file'.acceptance
             /\ file.acceptance[from].iteration <= file'.acceptance[to].iteration
             /\ file.acceptance[from].report => file'.acceptance[to].report
    BY <1>1, <2>1, <2>7, AcceptanceKept
  <2>9. Shown(file, id).iteration <= Shown(file', id).iteration
    <3>1. /\ Shown(file, id).iteration = IF from \in DOMAIN file.acceptance THEN file.acceptance[from].iteration ELSE 0
          /\ Shown(file', id).iteration = IF to \in DOMAIN file'.acceptance THEN file'.acceptance[to].iteration ELSE 0
      BY <2>3, <2>4
    <3>2. CASE from \in DOMAIN file.acceptance
      BY <2>8, <3>1, <3>2
    <3>3. CASE from \notin DOMAIN file.acceptance
      <4>1. Shown(file', id).iteration \in {0, 1, 2}
        BY <2>8, <3>1
      <4> QED BY <3>1, <3>3, <4>1
    <3> QED BY <3>2, <3>3
  <2>10. Shown(file, id).title # "" =>
           IF file.runs[id].conversation = Unset THEN Shown(file', id).title # ""
           ELSE Shown(file', id).title = Shown(file, id).title
    BY <2>2, <2>3, <2>4, <2>5
  <2>11. Shown(file, id).deleted => Shown(file', id).deleted
    BY <2>3, <2>4, <2>5
  <2>12. Shown(file, id).workspace => Shown(file', id).workspace
    BY <2>3, <2>4, <2>6
  <2>13. Shown(file, id).report => Shown(file', id).report
    BY <2>3, <2>4, <2>8
  <2> QED BY <2>9, <2>10, <2>11, <2>12, <2>13 DEF ShownStays
<1>3. ASSUME NEW id \in DOMAIN file.runs, NEW other \in DOMAIN file.runs, Together(file, id, other)
      PROVE  Together(file', id, other)
  BY <1>1, <1>3, StayTogether
<1> QED BY <1>2, <1>3 DEF SessionsStay

\* A step that leaves the rows alone keeps it.
LEMMA SameKeeps ==
  ASSUME IsDatabase(file), file'.runs = file.runs, file'.meta = file.meta,
         file'.workspaces = file.workspaces, file'.acceptance = file.acceptance
  PROVE  SessionsStay
<1>1. \A id \in DOMAIN file.runs : Shown(file', id) = Shown(file, id)
  BY DEF Shown
<1>2. ASSUME NEW id \in DOMAIN file.runs
      PROVE  Shown(file, id).iteration \in {0, 1, 2}
  BY DEF Shown, Has, IsDatabase
<1>3. ASSUME NEW id \in DOMAIN file.runs
      PROVE  ShownStays(id)
  <2>1. Shown(file, id).iteration <= Shown(file', id).iteration
    BY <1>1, <1>2
  <2> QED BY <1>1, <2>1 DEF ShownStays
<1>4. \A id, other \in DOMAIN file.runs : Together(file, id, other) => Together(file', id, other)
  BY DEF Together
<1> QED BY <1>3, <1>4 DEF SessionsStay

-----------------------------------------------------------------------------
(* Every step. *)

\* A run that serves finds no run without a conversation.
LEMMA ServingComplete ==
  ASSUME KeyInv, NEW p \in Opener, opener[p].at = "serving"
  PROVE  Legacy(file) = {} /\ \A id \in DOMAIN file.runs : file.runs[id].conversation # Unset
BY DEF KeyInv, Upgraded, Legacy

\* A new run is a row of its own.
LEMMA CreateEdits ==
  ASSUME KeyInv, NEW p \in Opener, NEW session \in SessionId \cup {Unset},
         NEW conversation \in Conversation, conversation # Unset, CreateTask(p, session, conversation)
  PROVE  Edited(file, file') /\ TitlesStay(file, file')
<1> DEFINE row == [session |-> session, conversation |-> conversation, over |-> FALSE]
           r == Append(file.runs, row)
<1>1. Legacy(file) = {} /\ IsDatabase(file) /\ file.runs \in Seq(RunRow)
  BY ServingComplete DEF CreateTask, Writes, At, KeyInv, IsDatabase
<1>2. file' = [file EXCEPT !.runs = r]
  BY DEF CreateTask, Writes
<1>3. row \in RunRow
  BY DEF RunRow
<1> HIDE DEF row
<1>4. /\ r \in Seq(RunRow) /\ DOMAIN file.runs \subseteq DOMAIN r
      /\ \A i \in DOMAIN file.runs : r[i] = file.runs[i]
      /\ \A i \in DOMAIN r : i \in DOMAIN file.runs \/ r[i] = row
  BY <1>1, <1>3
<1>5. row.conversation # Unset
  BY DEF row
<1> HIDE DEF r
<1> QED BY <1>1, <1>2, <1>4, <1>5, RunsEdited

\* A run that changes keeps its conversation.
LEMMA RunEdits ==
  ASSUME KeyInv, NEW p \in Opener, opener[p].at = "serving", NEW id \in DOMAIN file.runs,
         NEW row \in RunRow, row.conversation = file.runs[id].conversation,
         file' = [file EXCEPT !.runs = [file.runs EXCEPT ![id] = row]]
  PROVE  Edited(file, file') /\ TitlesStay(file, file')
<1> DEFINE r == [file.runs EXCEPT ![id] = row]
<1>1. Legacy(file) = {} /\ IsDatabase(file) /\ file.runs \in Seq(RunRow)
  BY ServingComplete DEF KeyInv, IsDatabase
<1>2. r \in Seq(RunRow) /\ DOMAIN r = DOMAIN file.runs
  BY <1>1
<1>3. \A i \in DOMAIN file.runs : r[i].conversation = file.runs[i].conversation
  BY <1>2
<1> HIDE DEF r
<1> QED BY <1>1, <1>2, <1>3, RunsEdited DEF r

\* A run that already has a conversation takes nothing along to its session.
LEMMA NothingFollows ==
  ASSUME KeyInv, NEW p \in Opener, opener[p].at = "serving", NEW id \in DOMAIN file.runs, NEW f, NEW session
  PROVE  Follow(f, id, session) = {f}
BY ServingComplete DEF Follow

\* What a process that serves does to the database.
LEMMA ServingEdits ==
  ASSUME KeyInv, NEW p \in Opener, NEW id \in DOMAIN file.runs,
         \/ Continue(p, id) \/ EnsureForTask(p, id)
         \/ \E session \in SessionId : SetSessionID(p, id, session)
         \/ \E session \in SessionId \cup {Unset} : FinishTask(p, id, session)
  PROVE  Edited(file, file') /\ TitlesStay(file, file')
<1>1. file.runs[id] \in RunRow /\ IsDatabase(file) /\ file.runs \in Seq(RunRow)
  BY DEF KeyInv, IsDatabase
<1>2. CASE Continue(p, id)
  <2>1. CreateTask(p, file.runs[id].session, file.runs[id].conversation)
    BY <1>2 DEF Continue
  <2>2. opener[p].at = "serving"
    BY <2>1 DEF CreateTask, Writes, At
  <2>3. file.runs[id].conversation \in Conversation /\ file.runs[id].session \in SessionId \cup {Unset}
        /\ file.runs[id].conversation # Unset
    BY <1>1, <2>2, ServingComplete DEF RunRow
  <2> QED BY <2>1, <2>3, CreateEdits
<1>3. CASE EnsureForTask(p, id)
  <2>1. /\ opener[p].at = "serving"
        /\ file' = [file EXCEPT !.workspaces = file.workspaces \cup {SessionKeyForTask(id, file.runs[id])}]
    BY <1>3 DEF EnsureForTask, Writes, At
  <2> QED BY <1>1, <2>1, ServingComplete, WorkspaceEdited
<1>4. ASSUME NEW session \in SessionId, SetSessionID(p, id, session)
      PROVE  Edited(file, file') /\ TitlesStay(file, file')
  <2> DEFINE row == [file.runs[id] EXCEPT !.session = session]
  <2>1. PICK f \in Follow([file EXCEPT !.runs[id].session = session], id, session) : Writes(p, f)
    BY <1>4 DEF SetSessionID
  <2>2. opener[p].at = "serving" /\ file' = f
    BY <2>1 DEF Writes, At
  <2>3. f = [file EXCEPT !.runs[id].session = session]
    BY <2>1, <2>2, NothingFollows
  <2>4. [file EXCEPT !.runs[id].session = session] = [file EXCEPT !.runs = [file.runs EXCEPT ![id] = row]]
    BY <1>1
  <2>5. row \in RunRow /\ row.conversation = file.runs[id].conversation
    BY <1>1 DEF RunRow
  <2> HIDE DEF row
  <2> QED BY <2>2, <2>3, <2>4, <2>5, RunEdits
<1>5. ASSUME NEW session \in SessionId \cup {Unset}, FinishTask(p, id, session)
      PROVE  Edited(file, file') /\ TitlesStay(file, file')
  <2> DEFINE later == IF session # Unset THEN session ELSE file.runs[id].session
             row == [[file.runs[id] EXCEPT !.over = TRUE] EXCEPT !.session = later]
             new == [file EXCEPT !.runs[id].over = TRUE, !.runs[id].session = IF session # Unset THEN session ELSE @]
  <2>1. PICK f \in Follow(new, id, session) : Writes(p, f)
    BY <1>5 DEF FinishTask
  <2>2. opener[p].at = "serving" /\ file' = f
    BY <2>1 DEF Writes, At
  <2>3. f = new
    BY <2>1, <2>2, NothingFollows
  <2>4. new = [file EXCEPT !.runs = [file.runs EXCEPT ![id] = row]]
    BY <1>1
  <2>5. row \in RunRow /\ row.conversation = file.runs[id].conversation
    BY <1>1 DEF RunRow
  <2> HIDE DEF row, new
  <2> QED BY <2>2, <2>3, <2>4, <2>5, RunEdits
<1> QED BY <1>2, <1>3, <1>4, <1>5

\* Users rename and delete.
LEMMA UsersEdit ==
  ASSUME KeyInv, UserEdits
  PROVE  \E p \in Opener : /\ opener[p].at = "serving" /\ opener' = Onlookers(p, file' # file)
                           /\ Edited(file, file')
<1>1. IsDatabase(file)
  BY DEF KeyInv
<1>2. PICK p \in Opener, id \in DOMAIN file.runs :
        DeleteSession(p, id) \/ \E title \in {"", "B"} : RenameSession(p, id, title)
  BY DEF UserEdits
<1> DEFINE key == SessionKeyForTask(id, file.runs[id])
<1>3. \E row : /\ Writes(p, [file EXCEPT !.meta = Put(file.meta, key, row)])
               /\ key \in DOMAIN file.meta /\ file.meta[key].deleted => row.deleted
  <2>1. CASE DeleteSession(p, id)
    <3> DEFINE row == [title |-> IF Has(file.meta, key) THEN file.meta[key].title ELSE "", deleted |-> TRUE]
    <3>1. Writes(p, [file EXCEPT !.meta = Put(file.meta, key, row)]) /\ row.deleted
      BY <2>1 DEF DeleteSession
    <3> HIDE DEF row
    <3> QED BY <3>1
  <2>2. ASSUME NEW title \in {"", "B"}, RenameSession(p, id, title)
        PROVE  \E row : /\ Writes(p, [file EXCEPT !.meta = Put(file.meta, key, row)])
                        /\ key \in DOMAIN file.meta /\ file.meta[key].deleted => row.deleted
    <3> DEFINE row == [title |-> title, deleted |-> Has(file.meta, key) /\ file.meta[key].deleted]
    <3>1. Writes(p, [file EXCEPT !.meta = Put(file.meta, key, row)])
      BY <2>2 DEF RenameSession
    <3>2. key \in DOMAIN file.meta /\ file.meta[key].deleted => row.deleted
      BY DEF Has
    <3> HIDE DEF row
    <3> QED BY <3>1, <3>2
  <2> QED BY <1>2, <2>1, <2>2
<1>4. PICK row : /\ Writes(p, [file EXCEPT !.meta = Put(file.meta, key, row)])
                 /\ key \in DOMAIN file.meta /\ file.meta[key].deleted => row.deleted
  BY <1>3
<1> HIDE DEF key
<1>5. opener[p].at = "serving" /\ file' = [file EXCEPT !.meta = Put(file.meta, key, row)]
      /\ opener' = Onlookers(p, file' # file)
  BY <1>4 DEF Writes, At
<1>6. Edited(file, file')
  BY <1>1, <1>4, <1>5, ServingComplete, MetaEdited
<1> QED BY <1>5, <1>6

\* Those who look on only learn that their snapshot is stale.
LEMMA OnlookersKeep ==
  ASSUME OpenersShape, NEW p \in Opener, NEW wrote \in BOOLEAN
  PROVE  /\ Onlookers(p, wrote) \in [Opener -> [at : {"down", "opened", "migrating", "ensuring", "serving"},
                                                seen : {0, schemaVersion}, stale : BOOLEAN]]
         /\ \A q \in Opener : Onlookers(p, wrote)[q].at = opener[q].at /\ Onlookers(p, wrote)[q].seen = opener[q].seen
<1>1. \A q \in Opener : InTransaction(q) \in BOOLEAN
  BY DEF InTransaction
<1>2. ASSUME NEW q \in Opener
      PROVE  /\ Onlookers(p, wrote)[q] \in [at : {"down", "opened", "migrating", "ensuring", "serving"},
                                            seen : {0, schemaVersion}, stale : BOOLEAN]
             /\ Onlookers(p, wrote)[q].at = opener[q].at /\ Onlookers(p, wrote)[q].seen = opener[q].seen
  <2> DEFINE late == wrote /\ InTransaction(q) /\ q # p
  <2>1. Onlookers(p, wrote)[q] = [opener[q] EXCEPT !.stale = @ \/ late]
    BY DEF Onlookers
  <2>2. opener[q] \in [at : {"down", "opened", "migrating", "ensuring", "serving"},
                       seen : {0, schemaVersion}, stale : BOOLEAN]
    BY DEF OpenersShape
  <2>3. opener[q].stale \in BOOLEAN /\ late \in BOOLEAN
    BY <1>1, <2>2
  <2> HIDE DEF late
  <2> QED BY <2>1, <2>2, <2>3
<1> QED BY <1>2 DEF Onlookers

\* A write of a process that serves keeps the invariant.
LEMMA EditInv ==
  ASSUME KeyInv, NEW p \in Opener, opener[p].at = "serving", Edited(file, file'),
         opener' = Onlookers(p, file' # file)
  PROVE  KeyInv'
<1>1. /\ OpenersShape'
      /\ \A q \in Opener : opener'[q].at = opener[q].at /\ opener'[q].seen = opener[q].seen
  BY OnlookersKeep DEF KeyInv, OpenersShape
<1>2. IsDatabase(file') /\ file'.version = file.version /\ file'.columns = file.columns
  BY DEF Edited
<1>3. Legacy(file') = {}
  BY DEF Edited, Legacy
<1> QED BY <1>1, <1>2, <1>3 DEF KeyInv, Upgraded

\* A commit of an upgrade.
LEMMA CommitInv ==
  ASSUME KeyInv, NEW p \in Opener, NEW f, NEW next \in {"ensuring", "serving"}, Commits(p, f, next),
         IsDatabase(f), f.version = schemaVersion, f.columns = Columns,
         Legacy(file) = {} => Legacy(f) = {}, next = "serving" => Legacy(f) = {}
  PROVE  KeyInv'
<1> DEFINE wrote == f # file \/ opener[p].seen = 0
           seen == Onlookers(p, wrote)
           Kind == [at : {"down", "opened", "migrating", "ensuring", "serving"},
                    seen : {0, schemaVersion}, stale : BOOLEAN]
<1>1. file' = f /\ opener' = [seen EXCEPT ![p].at = next, ![p].stale = FALSE, ![p].seen = schemaVersion]
  BY DEF Commits
<1>2. /\ seen \in [Opener -> Kind]
      /\ \A q \in Opener : seen[q].at = opener[q].at /\ seen[q].seen = opener[q].seen
  BY OnlookersKeep DEF KeyInv
<1> HIDE DEF seen
<1>3. opener' \in [Opener -> Kind]
  <2> DEFINE placed == [seen EXCEPT ![p].at = next]
             fresh == [placed EXCEPT ![p].stale = FALSE]
  <2>1. placed \in [Opener -> Kind]
    BY <1>2
  <2> HIDE DEF placed
  <2>2. fresh \in [Opener -> Kind]
    BY <2>1
  <2> HIDE DEF fresh
  <2>3. [fresh EXCEPT ![p].seen = schemaVersion] \in [Opener -> Kind]
    BY <2>2
  <2>4. opener' = [fresh EXCEPT ![p].seen = schemaVersion]
    BY <1>1 DEF fresh, placed
  <2> QED BY <2>3, <2>4
<1>4. \A q \in Opener \ {p} : opener'[q].at = opener[q].at /\ opener'[q].seen = opener[q].seen
  BY <1>1, <1>2
<1>5. opener'[p].at = next
  BY <1>1, <1>2
<1>6. \A q \in Opener : opener'[q].at = "serving" => Legacy(file') = {}
  BY <1>1, <1>4, <1>5 DEF KeyInv, Upgraded
<1>7. OpenersShape'
  BY <1>3 DEF OpenersShape
<1> QED BY <1>1, <1>6, <1>7 DEF KeyInv, Upgraded

\* A process that only changes its own mind.
LEMMA OwnStep ==
  ASSUME KeyInv, NEW p \in Opener, file' = file,
         NEW row \in [at : {"down", "opened", "migrating"}, seen : {0, schemaVersion}, stale : BOOLEAN],
         row.seen = schemaVersion => file.version = schemaVersion,
         opener' = [opener EXCEPT ![p] = row]
  PROVE  KeyInv'
<1>1. OpenersShape'
  BY DEF KeyInv, OpenersShape
<1>2. opener'[p] = row /\ \A q \in Opener \ {p} : opener'[q] = opener[q]
  BY DEF KeyInv, OpenersShape
<1>3. Upgraded'
  BY <1>2 DEF KeyInv, Upgraded
<1> QED BY <1>1, <1>3 DEF KeyInv

\* Users and processes that serve, in one step.
LEMMA ServingStep ==
  ASSUME KeyInv, NEW p \in Opener,
         \/ CreateNew(p) \/ \E session \in SessionId : CreateResumed(p, session)
         \/ \E id \in DOMAIN file.runs :
               \/ Continue(p, id) \/ EnsureForTask(p, id)
               \/ \E session \in SessionId : SetSessionID(p, id, session)
               \/ \E session \in SessionId \cup {Unset} : FinishTask(p, id, session)
  PROVE  /\ opener[p].at = "serving" /\ opener' = Onlookers(p, file' # file)
         /\ Edited(file, file') /\ TitlesStay(file, file')
<1>1. IsDatabase(file) /\ Len(file.runs) + 1 \in Nat
  BY DEF KeyInv, IsDatabase
<1>2. << "new", Len(file.runs) + 1 >> \in Conversation /\ << "new", Len(file.runs) + 1 >> # Unset
  BY <1>1 DEF Conversation, Unset
<1>3. ASSUME NEW session \in SessionId \cup {Unset}, NEW conversation \in Conversation, conversation # Unset,
             CreateTask(p, session, conversation)
      PROVE  /\ opener[p].at = "serving" /\ opener' = Onlookers(p, file' # file)
             /\ Edited(file, file') /\ TitlesStay(file, file')
  BY <1>3, CreateEdits DEF CreateTask, Writes, At
<1>4. CASE CreateNew(p)
  BY <1>2, <1>3, <1>4 DEF CreateNew
<1>5. ASSUME NEW session \in SessionId, CreateResumed(p, session)
      PROVE  /\ opener[p].at = "serving" /\ opener' = Onlookers(p, file' # file)
             /\ Edited(file, file') /\ TitlesStay(file, file')
  <2>1. ConversationIDForSessionID(file, session) \in Conversation
    BY <1>1, KnownConversation
  <2> QED BY <1>2, <1>3, <1>5, <2>1 DEF CreateResumed
<1>6. ASSUME NEW id \in DOMAIN file.runs,
             \/ Continue(p, id) \/ EnsureForTask(p, id)
             \/ \E session \in SessionId : SetSessionID(p, id, session)
             \/ \E session \in SessionId \cup {Unset} : FinishTask(p, id, session)
      PROVE  /\ opener[p].at = "serving" /\ opener' = Onlookers(p, file' # file)
             /\ Edited(file, file') /\ TitlesStay(file, file')
  <2>1. \E f : Writes(p, f)
    BY <1>6 DEF Continue, CreateTask, EnsureForTask, SetSessionID, FinishTask
  <2>2. opener[p].at = "serving" /\ opener' = Onlookers(p, file' # file)
    BY <2>1 DEF Writes, At
  <2> QED BY <1>6, <2>2, ServingEdits
<1> QED BY <1>4, <1>5, <1>6

-----------------------------------------------------------------------------
LEMMA KeyInit == SessionKeysInit => KeyInv
<1> SUFFICES ASSUME LegacyInit, OpenersInit PROVE KeyInv
  BY DEF SessionKeysInit
<1>1. PICK version \in 0 .. schemaVersion + 1, columns \in {{}, Columns}, n \in 0 .. LegacyRuns :
        \E runs \in {r \in [1 .. n -> UNION {LegacyRun(i) : i \in 1 .. n}] : \A i \in 1 .. n : r[i] \in LegacyRun(i)} :
          \E keys \in {k \in SUBSET LegacyKeys(runs) : Cardinality(k) <= LegacyRows} :
            \E meta \in [keys -> LegacyMeta] :
              /\ version # schemaVersion => columns = {} /\ n = 0
              /\ columns # Columns => \A i \in 1 .. n : runs[i].conversation = Unset
              /\ file = LegacyDatabase(version, columns, runs, meta)
  BY Zenon DEF LegacyInit
<1>2. PICK runs \in {r \in [1 .. n -> UNION {LegacyRun(i) : i \in 1 .. n}] : \A i \in 1 .. n : r[i] \in LegacyRun(i)} :
        \E meta : file = LegacyDatabase(version, columns, runs, meta)
  BY <1>1
<1>3. PICK meta : file = LegacyDatabase(version, columns, runs, meta)
  BY <1>2
<1>4. runs \in Seq(RunRow)
  <2>1. n \in Nat
    BY SessionKeyConstants
  <2>2. ASSUME NEW i \in 1 .. n
        PROVE  LegacyRun(i) \subseteq RunRow
    <3>1. {Unset} \cup {<< "new", j >> : j \in 1 .. i} \subseteq Conversation
      BY <2>1 DEF Conversation
    <3> QED BY <3>1 DEF LegacyRun, RunRow
  <2>3. runs \in [1 .. n -> RunRow]
    BY <1>2, <2>2
  <2> QED BY <2>1, <2>3, SeqDef
<1>5. Holds(file, version, columns, runs, meta, DOMAIN meta,
            [k \in DOMAIN meta |-> [iteration |-> IF meta[k].deleted THEN 2 ELSE 1, report |-> meta[k].deleted]])
  BY <1>3 DEF LegacyDatabase, Holds
<1>6. IsDatabase(file)
  <2> DEFINE a == [k \in DOMAIN meta |-> [iteration |-> IF meta[k].deleted THEN 2 ELSE 1, report |-> meta[k].deleted]]
  <2>1. \A k \in DOMAIN a : a[k].iteration \in {1, 2}
    OBVIOUS
  <2>2. columns \subseteq Columns
    OBVIOUS
  <2>3. Holds(file, version, columns, runs, meta, DOMAIN meta, a)
    BY <1>5
  <2> HIDE DEF a
  <2> QED BY <1>4, <2>1, <2>2, <2>3, HoldsDatabase
<1>7. OpenersShape /\ \A p \in Opener : opener[p].at = "down" /\ opener[p].seen = 0
  BY DEF OpenersInit, OpenersShape, Closed, schemaVersion
<1> QED BY <1>6, <1>7 DEF KeyInv, Upgraded, schemaVersion

\* The invariant is kept, and so is what users see.
LEMMA KeyStep ==
  ASSUME KeyInv, [SessionKeysNext]_keyVars
  PROVE  KeyInv' /\ SessionsStay
<1>0. IsDatabase(file)
  BY DEF KeyInv
<1>1. CASE UNCHANGED keyVars
  <2>1. file' = file /\ opener' = opener
    BY <1>1 DEF keyVars
  <2>2. KeyInv'
    BY <2>1 DEF KeyInv, OpenersShape, Upgraded
  <2> QED BY <1>0, <2>1, <2>2, SameKeeps
<1>2. ASSUME NEW p \in Opener, ReadVersion(p) \/ BeginMigrate(p) \/ Fails(p) \/ Stops(p)
      PROVE  KeyInv' /\ SessionsStay
  <2>1. file' = file
    BY <1>2 DEF ReadVersion, BeginMigrate, Fails, Stops
  <2> DEFINE Kind == [at : {"down", "opened", "migrating"}, seen : {0, schemaVersion}, stale : BOOLEAN]
  <2>2. \E row \in Kind : /\ row.seen = schemaVersion => file.version = schemaVersion
                          /\ opener' = [opener EXCEPT ![p] = row]
    <3>1. CASE ReadVersion(p)
      <4> DEFINE row == [at |-> "opened", seen |-> file.version, stale |-> FALSE]
      <4>1. row \in Kind /\ row.seen = file.version /\ opener' = [opener EXCEPT ![p] = row]
        BY <3>1 DEF ReadVersion
      <4> QED BY <4>1
    <3>2. CASE BeginMigrate(p)
      <4> DEFINE row == [opener[p] EXCEPT !.at = "migrating"]
      <4>1. opener' = [opener EXCEPT ![p] = row]
        BY <3>2 DEF BeginMigrate, KeyInv, OpenersShape
      <4>2. row \in Kind /\ row.seen = opener[p].seen
        BY DEF KeyInv, OpenersShape
      <4>3. row.seen = schemaVersion => file.version = schemaVersion
        BY <4>2 DEF KeyInv, Upgraded
      <4> HIDE DEF row
      <4> QED BY <4>1, <4>2, <4>3
    <3>3. CASE Fails(p) \/ Stops(p)
      <4>1. opener' = [opener EXCEPT ![p] = Closed]
        BY <3>3 DEF Fails, Stops
      <4>2. Closed \in Kind /\ Closed.seen # schemaVersion
        BY DEF Closed, schemaVersion
      <4> QED BY <4>1, <4>2
    <3> QED BY <1>2, <3>1, <3>2, <3>3
  <2>3. KeyInv'
    BY <2>1, <2>2, OwnStep
  <2> QED BY <1>0, <2>1, <2>3, SameKeeps
<1>3. ASSUME NEW p \in Opener, CommitMigrate(p)
      PROVE  KeyInv' /\ SessionsStay
  <2> DEFINE f == Migrate(file, opener[p].seen)
  <2>1. opener[p].seen \in {0, schemaVersion}
    BY DEF KeyInv, OpenersShape
  <2>2. /\ IsDatabase(f)
        /\ f.version = IF opener[p].seen = 0 THEN schemaVersion ELSE file.version
        /\ f.columns = Columns /\ f.runs = file.runs /\ f.meta = file.meta
        /\ f.workspaces = file.workspaces /\ f.acceptance = file.acceptance
    BY <1>0, <2>1, MigrateKeeps DEF Holds
  <2>3. f.version = schemaVersion
    BY <2>1, <2>2 DEF KeyInv, Upgraded, schemaVersion
  <2>4. Legacy(file) = {} => Legacy(f) = {}
    BY <2>2 DEF Legacy
  <2>5. Commits(p, f, "ensuring")
    BY <1>3 DEF CommitMigrate
  <2> HIDE DEF f
  <2>6. KeyInv'
    BY <2>2, <2>3, <2>4, <2>5, CommitInv
  <2>7. file' = f
    BY <2>5 DEF Commits
  <2>8. SessionsStay
    BY <1>0, <2>2, <2>7, SameKeeps
  <2> QED BY <2>6, <2>8
<1>4. ASSUME NEW p \in Opener, CommitEnsure(p)
      PROVE  KeyInv' /\ SessionsStay
  <2>1. PICK f \in EnsureConversationIDs(file) : Commits(p, f, "serving")
    BY <1>4 DEF CommitEnsure
  <2>2. file.version = schemaVersion /\ file.columns = Columns
    BY <1>4 DEF CommitEnsure, At, KeyInv, Upgraded
  <2>3. IsDatabase(f) /\ f.version = schemaVersion /\ f.columns = Columns /\ f.runs = WithConversations(file)
    BY <1>0, <2>2, Ensured
  <2>4. Legacy(f) = {}
    BY <1>0, <2>3, AllConversations DEF Legacy
  <2>5. KeyInv'
    BY <2>1, <2>3, <2>4, CommitInv
  <2>6. file' = f
    BY <2>1 DEF Commits
  <2>7. SessionsStay
    BY <1>0, <2>1, <2>6, EnsureKeeps
  <2> QED BY <2>5, <2>7
<1>5. ASSUME NEW p \in Opener,
             \/ CreateNew(p) \/ \E session \in SessionId : CreateResumed(p, session)
             \/ \E id \in DOMAIN file.runs :
                   \/ Continue(p, id) \/ EnsureForTask(p, id)
                   \/ \E session \in SessionId : SetSessionID(p, id, session)
                   \/ \E session \in SessionId \cup {Unset} : FinishTask(p, id, session)
      PROVE  KeyInv' /\ SessionsStay
  <2>1. /\ opener[p].at = "serving" /\ opener' = Onlookers(p, file' # file)
        /\ Edited(file, file') /\ TitlesStay(file, file')
    BY <1>5, ServingStep
  <2>2. Legacy(file) = {}
    BY <2>1, ServingComplete
  <2>3. KeyInv'
    BY <2>1, EditInv
  <2>4. SessionsStay
    BY <1>0, <2>1, <2>2, EditKeeps
  <2> QED BY <2>3, <2>4
<1>6. CASE UserEdits
  <2>1. PICK p \in Opener : /\ opener[p].at = "serving" /\ opener' = Onlookers(p, file' # file)
                            /\ Edited(file, file')
    BY <1>6, UsersEdit
  <2>2. Legacy(file) = {}
    BY <2>1, ServingComplete
  <2>3. KeyInv'
    BY <2>1, EditInv
  <2>4. SessionsStay
    BY <1>0, <1>6, <2>1, <2>2, EditKeeps
  <2> QED BY <2>3, <2>4
<1> QED BY <1>1, <1>2, <1>3, <1>4, <1>5, <1>6 DEF SessionKeysNext

LEMMA KeyServes == KeyInv => ServedComplete
BY DEF KeyInv, Upgraded, ServedComplete, At

\* However many processes upgrade the database at once, whenever they fail or
\* are killed, and whatever is there to be moved: a process that serves finds
\* it complete, and what users saw of a session stays (EnsureConversationIDs,
\* Migrate and the methods that write under a session's key).
THEOREM SessionsSurvive == SessionKeysSpec => SessionsKept
<1>1. SessionKeysInit => KeyInv
  BY KeyInit
<1>2. KeyInv /\ [SessionKeysNext]_keyVars => KeyInv'
  BY KeyStep
<1>3. KeyInv /\ [SessionKeysNext]_keyVars => [SessionsStay]_file
  BY KeyStep
<1>4. KeyInv => ServedComplete
  BY KeyServes
<1> QED BY <1>1, <1>2, <1>3, <1>4, PTL DEF SessionKeysSpec, SessionsKept

-----------------------------------------------------------------------------
(***************************************************************************)
(* Starting: the lock of the data directory is what keeps daemons apart,   *)
(* and the health check what ties a server to one of them.                 *)
(***************************************************************************)

\* A daemon that has come past its lock still holds it.
Locked == \A d \in Daemon :
  daemon[d].pc \in {"token", "new_token", "mark", "listen", "serving"} => lockOwner = d

\* The daemon that listens is up or dying; one that was found healthy has been up.
Found ==
  /\ daemonPort # None => daemon[daemonPort].pc \in {"serving", "dying"}
  /\ \A s \in Server : attached[s] # None => daemon[attached[s]].pc \in {"serving", "dying", "dead"}

\* The daemon a server attached to has its token and its build.
Mine == \A s \in Server : server[s].pc \in {"loops", "bind", "serving"} =>
  /\ attached[s] # None
  /\ daemon[attached[s]].token = server[s].token
  /\ daemon[attached[s]].build = BuildOf[s]

StartupInv == StartupTypeOK /\ Locked /\ Found /\ Mine /\ marked = {}

-----------------------------------------------------------------------------
\* None names no process.
LEMMA NoneIsNobody == None \notin Server /\ None \notin Daemon
BY StartupAssumption DEF None, Server, Daemon

\* Processes are numbered: a token names one of them.
LEMMA Numbers == /\ Server \subseteq 0 .. NServers + NDaemons
                 /\ Daemon \subseteq 0 .. NServers + NDaemons
                 /\ None \in 0 .. NServers + NDaemons
BY StartupAssumption DEF None, Server, Daemon

-----------------------------------------------------------------------------
Servers == [Server -> [pc : ServerPc, token : 0 .. NServers + NDaemons, victim : Daemon \cup {None}]]

\* A server that goes on keeps its type.
LEMMA ServerGoesOn ==
  ASSUME StartupTypeOK, NEW s \in Server, NEW pc \in ServerPc
  PROVE  /\ [server EXCEPT ![s].pc = pc] \in Servers
         /\ \A token \in 0 .. NServers + NDaemons : [server EXCEPT ![s].pc = pc, ![s].token = token] \in Servers
         /\ \A victim \in Daemon \cup {None} : [server EXCEPT ![s].pc = pc, ![s].victim = victim] \in Servers
<1> DEFINE Token == 0 .. NServers + NDaemons
           Victim == Daemon \cup {None}
<1>1. Servers = [Server -> [pc : ServerPc, token : Token, victim : Victim]] /\ server \in Servers
  BY DEF Servers, StartupTypeOK
<1> HIDE DEF Token, Victim
<1>2. [server EXCEPT ![s].pc = pc] \in Servers
  BY <1>1
<1>3. ASSUME NEW token \in Token PROVE [server EXCEPT ![s].pc = pc, ![s].token = token] \in Servers
  BY <1>1
<1>4. ASSUME NEW victim \in Victim PROVE [server EXCEPT ![s].pc = pc, ![s].victim = victim] \in Servers
  BY <1>1
<1> QED BY <1>2, <1>3, <1>4 DEF Token, Victim

\* Every variable keeps its type.
LEMMA StartupTypeStep == StartupTypeOK /\ [StartupNext]_startupVars => StartupTypeOK'
<1> SUFFICES ASSUME StartupTypeOK, [StartupNext]_startupVars PROVE StartupTypeOK'
  OBVIOUS
<1>1. ASSUME NEW s \in Server,
             LaunchServer(s) \/ ProbeServer(s) \/ ServerReadsToken(s) \/ ServerMakesToken(s)
      PROVE  StartupTypeOK'
  <2>1. /\ tokenFile' \in 0 .. NServers + NDaemons
        /\ UNCHANGED << daemon, lockOwner, serverPort, daemonPort, crashes, attached, marked >>
    BY <1>1, Numbers DEF LaunchServer, ProbeServer, ServerReadsToken, ServerMakesToken, Files, Ports, History, StartupTypeOK
  <2>2. \E pc \in ServerPc, token \in 0 .. NServers + NDaemons :
          server' = [server EXCEPT ![s].pc = pc] \/ server' = [server EXCEPT ![s].pc = pc, ![s].token = token]
    BY <1>1, Numbers DEF LaunchServer, ProbeServer, ServerReadsToken, ServerMakesToken, ServerAt, ServerPc, StartupTypeOK
  <2>3. server' \in Servers
    BY <2>2, ServerGoesOn
  <2> QED BY <2>1, <2>3 DEF Servers, StartupTypeOK
<1>2. ASSUME NEW s \in Server, EnsureRunnerd(s)
      PROVE  StartupTypeOK'
  <2>1. \E pc \in ServerPc, victim \in Daemon \cup {None} :
          server' = [server EXCEPT ![s].pc = pc] \/ server' = [server EXCEPT ![s].pc = pc, ![s].victim = victim]
    BY <1>2 DEF EnsureRunnerd, ServerPc, StartupTypeOK
  <2>2. attached' \in [Server -> Daemon \cup {None}]
    BY <1>2 DEF EnsureRunnerd, Attach, StartupTypeOK
  <2>3. server' \in Servers
    BY <2>1, ServerGoesOn
  <2> QED BY <1>2, <2>2, <2>3 DEF EnsureRunnerd, Servers, Files, Ports, StartupTypeOK
<1>3. ASSUME NEW s \in Server, KillDaemon(s)
      PROVE  StartupTypeOK'
  <2> DEFINE v == server[s].victim
             pc == IF daemon[v].pc \in {"dying", "dead"} THEN daemon[v].pc ELSE "dying"
             Daemons == [Daemon -> [pc : DaemonPc, token : 0 .. NServers + NDaemons, build : Build \cup {"none"}]]
  <2>1. daemon' = [daemon EXCEPT ![v].pc = pc] /\ (v \in Daemon => pc \in DaemonPc)
    BY <1>3 DEF KillDaemon, DaemonPc
  <2>2. server' \in Servers
    BY <1>3, ServerGoesOn DEF KillDaemon, ServerAt, ServerPc
  <2> HIDE DEF v, pc
  <2>3. daemon' \in Daemons
    BY <2>1 DEF StartupTypeOK
  <2> QED BY <1>3, <2>2, <2>3 DEF KillDaemon, Servers, Files, Ports, History, StartupTypeOK
<1> USE Numbers, StartupAssumption DEF StartupTypeOK, ServerPc, DaemonPc, ServerAt, DaemonAt, Files, Ports, History
<1>4. ASSUME NEW s \in Server, WaitDown(s) \/ PollRunnerd(s) \/ StartLoops(s) \/ BindServer(s)
      PROVE  StartupTypeOK'
  <2>1. \E pc \in ServerPc : server' = [server EXCEPT ![s].pc = pc]
    <3>1. CASE WaitDown(s)
      BY <3>1 DEF WaitDown
    <3>2. CASE PollRunnerd(s)
      BY <3>2 DEF PollRunnerd
    <3>3. CASE StartLoops(s)
      BY <3>3 DEF StartLoops
    <3>4. CASE BindServer(s)
      BY <3>4 DEF BindServer
    <3> QED BY <1>4, <3>1, <3>2, <3>3, <3>4
  <2>2. server' \in Servers
    <3>1. StartupTypeOK
      OBVIOUS
    <3> HIDE DEF StartupTypeOK, ServerPc, DaemonPc
    <3> QED BY <2>1, <3>1, ServerGoesOn
  <2>3. attached' \in [Server -> Daemon \cup {None}] /\ serverPort' \in Server \cup {None}
    BY <1>4 DEF WaitDown, PollRunnerd, StartLoops, BindServer, Attach
  <2>4. UNCHANGED << tokenFile, daemon, lockOwner, daemonPort, crashes, marked >>
    BY <1>4 DEF WaitDown, PollRunnerd, StartLoops, BindServer
  <2> QED BY <2>2, <2>3, <2>4 DEF Servers
<1>5. ASSUME NEW d \in Daemon, NEW b \in Build, NewDaemon(d, b)
      PROVE  daemon' \in [Daemon -> [pc : DaemonPc, token : 0 .. NServers + NDaemons, build : Build \cup {"none"}]]
  BY <1>5 DEF NewDaemon
<1>6. ASSUME NEW s \in Server, SpawnDaemon(s)
      PROVE  StartupTypeOK'
  <2>1. BuildOf[s] \in Build
    BY DEF Build
  <2> QED BY <1>5, <1>6, <2>1 DEF SpawnDaemon
<1>7. ASSUME NEW d \in Daemon, NEW b \in Build, LaunchDaemon(d, b)
      PROVE  StartupTypeOK'
  BY <1>5, <1>7 DEF LaunchDaemon
<1>8. ASSUME NEW s \in Server, ServerCrashes(s)
      PROVE  StartupTypeOK'
  BY <1>8 DEF ServerCrashes
<1>9. ASSUME NEW d \in Daemon, AcquireLock(d) \/ DaemonReadsToken(d) \/ DaemonMakesToken(d)
      PROVE  StartupTypeOK'
  BY <1>9 DEF AcquireLock, Unlocked, DaemonReadsToken, DaemonMakesToken
<1>10. ASSUME NEW d \in Daemon, DaemonMarks(d) \/ BindDaemon(d)
      PROVE  StartupTypeOK'
  BY <1>10 DEF DaemonMarks, BindDaemon
<1>11. ASSUME NEW d \in Daemon, ClosePort(d) \/ ReleaseLock(d) \/ DaemonIsGone(d) \/ DaemonCrashes(d)
      PROVE  StartupTypeOK'
  BY <1>11 DEF ClosePort, ReleaseLock, DaemonIsGone, DaemonCrashes
<1>12. CASE UNCHANGED startupVars
  BY <1>12 DEF startupVars
<1> QED BY <1>1, <1>2, <1>3, <1>4, <1>6, <1>7, <1>8, <1>9, <1>10, <1>11, <1>12 DEF StartupNext

-----------------------------------------------------------------------------
\* A kill changes where its victim is, and nothing else.
LEMMA Killed ==
  ASSUME StartupTypeOK, NEW s \in Server, KillDaemon(s), NEW d \in Daemon
  PROVE  daemon'[d] = daemon[d] \/ (daemon'[d] = [daemon[d] EXCEPT !.pc = "dying"] /\ daemon[d].pc # "dead")
<1> DEFINE pc == IF daemon[server[s].victim].pc \in {"dying", "dead"} THEN daemon[server[s].victim].pc ELSE "dying"
<1>1. daemon' = [daemon EXCEPT ![server[s].victim].pc = pc]
  BY DEF KillDaemon
<1>2. CASE d # server[s].victim
  BY <1>1, <1>2 DEF StartupTypeOK
<1>3. CASE d = server[s].victim /\ pc = "dying"
  BY <1>1, <1>3 DEF StartupTypeOK
<1>4. CASE d = server[s].victim /\ pc # "dying"
  BY <1>1, <1>4 DEF StartupTypeOK
<1> QED BY <1>2, <1>3, <1>4

\* What a step does to the daemon that listens or was found: it may die.
LEMMA DaemonsGoOn ==
  ASSUME StartupTypeOK, [StartupNext]_startupVars, NEW d \in Daemon,
         daemon[d].pc \in {"serving", "dying", "dead"}
  PROVE  /\ daemon'[d].pc \in {daemon[d].pc, "dying", "dead"}
         /\ daemon'[d].token = daemon[d].token /\ daemon'[d].build = daemon[d].build
         /\ daemon'[d].pc = "dead" => daemon[d].pc = "dead" \/ (daemon[d].pc = "dying" /\ daemonPort # d)
<1>1. ASSUME NEW s \in Server, KillDaemon(s) \/ SpawnDaemon(s)
      PROVE  /\ daemon'[d].pc \in {daemon[d].pc, "dying"}
             /\ daemon'[d].pc = "dead" => daemon[d].pc = "dead"
             /\ daemon'[d].token = daemon[d].token /\ daemon'[d].build = daemon[d].build
  <2>1. CASE KillDaemon(s)
    <3>1. daemon'[d] = daemon[d] \/ (daemon'[d] = [daemon[d] EXCEPT !.pc = "dying"] /\ daemon[d].pc # "dead")
      BY <2>1, Killed
    <3> QED BY <3>1 DEF StartupTypeOK
  <2>2. CASE SpawnDaemon(s)
    BY <2>2 DEF SpawnDaemon, NewDaemon, StartupTypeOK
  <2> QED BY <1>1, <2>1, <2>2
<1> USE DEF StartupTypeOK, ServerAt, DaemonAt, Files, Ports, History
<1>2. ASSUME NEW s \in Server,
             \/ LaunchServer(s) \/ ProbeServer(s) \/ ServerReadsToken(s) \/ ServerMakesToken(s)
             \/ EnsureRunnerd(s) \/ WaitDown(s) \/ PollRunnerd(s) \/ StartLoops(s) \/ BindServer(s)
             \/ ServerCrashes(s)
      PROVE  UNCHANGED daemon
  BY <1>2 DEF LaunchServer, ProbeServer, ServerReadsToken, ServerMakesToken, EnsureRunnerd, WaitDown,
              PollRunnerd, StartLoops, BindServer, ServerCrashes
<1>3. ASSUME NEW e \in Daemon, AcquireLock(e) \/ DaemonReadsToken(e) \/ DaemonMakesToken(e)
                               \/ DaemonMarks(e) \/ BindDaemon(e)
      PROVE  daemon'[d] = daemon[d]
  BY <1>3 DEF AcquireLock, DaemonReadsToken, DaemonMakesToken, DaemonMarks, BindDaemon
<1>4. ASSUME NEW e \in Daemon, ClosePort(e) \/ ReleaseLock(e)
      PROVE  UNCHANGED daemon
  BY <1>4 DEF ClosePort, ReleaseLock
<1>5. ASSUME NEW e \in Daemon, DaemonIsGone(e) \/ DaemonCrashes(e)
      PROVE  /\ daemon'[d].pc \in {daemon[d].pc, "dying", "dead"}
             /\ daemon'[d].pc = "dead" => daemon[d].pc = "dead" \/ (daemon[d].pc = "dying" /\ daemonPort # d)
             /\ daemon'[d].token = daemon[d].token /\ daemon'[d].build = daemon[d].build
  BY <1>5 DEF DaemonIsGone, DaemonCrashes
<1>6. ASSUME NEW e \in Daemon, NEW b \in Build, LaunchDaemon(e, b)
      PROVE  daemon'[d] = daemon[d]
  BY <1>6 DEF LaunchDaemon, NewDaemon
<1> QED BY <1>1, <1>2, <1>3, <1>4, <1>5, <1>6 DEF StartupNext, startupVars

\* The lock is let go only by a daemon that is past everything.
LEMMA LockedStep ==
  ASSUME StartupTypeOK, Locked, [StartupNext]_startupVars
  PROVE  Locked'
<1> USE NoneIsNobody DEF Locked, StartupTypeOK, ServerAt, DaemonAt, Files, Ports, History
<1>1. ASSUME NEW s \in Server, KillDaemon(s) \/ SpawnDaemon(s)
      PROVE  Locked'
  <2>1. CASE KillDaemon(s)
    BY <2>1, Killed DEF KillDaemon
  <2>2. CASE SpawnDaemon(s)
    BY <2>2 DEF SpawnDaemon, NewDaemon
  <2> QED BY <1>1, <2>1, <2>2
<1>2. ASSUME NEW s \in Server,
             \/ LaunchServer(s) \/ ProbeServer(s) \/ ServerReadsToken(s) \/ ServerMakesToken(s)
             \/ EnsureRunnerd(s) \/ WaitDown(s) \/ PollRunnerd(s) \/ StartLoops(s) \/ BindServer(s)
             \/ ServerCrashes(s)
      PROVE  Locked'
  BY <1>2 DEF LaunchServer, ProbeServer, ServerReadsToken, ServerMakesToken, EnsureRunnerd, WaitDown,
              PollRunnerd, StartLoops, BindServer, ServerCrashes
<1>3. ASSUME NEW d \in Daemon, AcquireLock(d)
      PROVE  Locked'
  BY <1>3 DEF AcquireLock, Unlocked
<1>4. ASSUME NEW d \in Daemon, DaemonReadsToken(d) \/ DaemonMakesToken(d) \/ DaemonMarks(d) \/ BindDaemon(d)
      PROVE  Locked'
  BY <1>4 DEF DaemonReadsToken, DaemonMakesToken, DaemonMarks, BindDaemon
<1>5. ASSUME NEW d \in Daemon, ClosePort(d) \/ ReleaseLock(d) \/ DaemonIsGone(d) \/ DaemonCrashes(d)
      PROVE  Locked'
  BY <1>5 DEF ClosePort, ReleaseLock, DaemonIsGone, DaemonCrashes
<1>6. ASSUME NEW d \in Daemon, NEW b \in Build, LaunchDaemon(d, b)
      PROVE  Locked'
  BY <1>6 DEF LaunchDaemon, NewDaemon
<1>7. CASE UNCHANGED startupVars
  BY <1>7 DEF startupVars
<1> QED BY <1>1, <1>2, <1>3, <1>4, <1>5, <1>6, <1>7 DEF StartupNext

\* A server attaches to the daemon that listens, and nobody else takes the port.
LEMMA Attaches ==
  ASSUME StartupTypeOK, [StartupNext]_startupVars
  PROVE  /\ \A s \in Server : attached'[s] \in {attached[s], daemonPort}
         /\ daemonPort' \in {daemonPort, None} \/ daemon'[daemonPort'].pc = "serving"
<1> USE DEF StartupTypeOK, ServerAt, DaemonAt, Files, Ports, History
<1>1. ASSUME NEW s \in Server, EnsureRunnerd(s) \/ PollRunnerd(s)
      PROVE  (\A r \in Server : attached'[r] \in {attached[r], daemonPort}) /\ daemonPort' = daemonPort
  BY <1>1 DEF EnsureRunnerd, PollRunnerd, Attach
<1>2. ASSUME NEW s \in Server,
             \/ LaunchServer(s) \/ ProbeServer(s) \/ ServerReadsToken(s) \/ ServerMakesToken(s)
             \/ KillDaemon(s) \/ WaitDown(s) \/ SpawnDaemon(s) \/ StartLoops(s) \/ BindServer(s)
             \/ ServerCrashes(s)
      PROVE  UNCHANGED << attached, daemonPort >>
  BY <1>2 DEF LaunchServer, ProbeServer, ServerReadsToken, ServerMakesToken, KillDaemon, WaitDown,
              SpawnDaemon, StartLoops, BindServer, ServerCrashes
<1>3. ASSUME NEW d \in Daemon, BindDaemon(d) \/ ClosePort(d)
      PROVE  /\ UNCHANGED attached
             /\ daemonPort' \in {daemonPort, None} \/ daemon'[daemonPort'].pc = "serving"
  BY <1>3 DEF BindDaemon, ClosePort
<1>4. ASSUME NEW d \in Daemon,
             \/ AcquireLock(d) \/ DaemonReadsToken(d) \/ DaemonMakesToken(d) \/ DaemonMarks(d)
             \/ ReleaseLock(d) \/ DaemonIsGone(d) \/ DaemonCrashes(d)
      PROVE  UNCHANGED << attached, daemonPort >>
  BY <1>4 DEF AcquireLock, DaemonReadsToken, DaemonMakesToken, DaemonMarks, ReleaseLock, DaemonIsGone, DaemonCrashes
<1>5. ASSUME NEW d \in Daemon, NEW b \in Build, LaunchDaemon(d, b)
      PROVE  UNCHANGED << attached, daemonPort >>
  BY <1>5 DEF LaunchDaemon
<1> QED BY <1>1, <1>2, <1>3, <1>4, <1>5 DEF StartupNext, startupVars

LEMMA FoundStep ==
  ASSUME StartupTypeOK, Found, [StartupNext]_startupVars
  PROVE  Found'
<1>1. daemonPort' # None => daemon'[daemonPort'].pc \in {"serving", "dying"}
  <2>1. CASE daemonPort' = daemonPort /\ daemonPort # None
    <3>1. daemonPort \in Daemon /\ daemon[daemonPort].pc \in {"serving", "dying"}
      BY <2>1 DEF Found, StartupTypeOK
    <3> QED BY <2>1, <3>1, DaemonsGoOn
  <2> QED BY <2>1, Attaches
<1>2. ASSUME NEW s \in Server, attached'[s] # None
      PROVE  daemon'[attached'[s]].pc \in {"serving", "dying", "dead"}
  <2>1. attached'[s] \in Daemon /\ daemon[attached'[s]].pc \in {"serving", "dying", "dead"}
    BY <1>2, Attaches DEF Found, StartupTypeOK
  <2> QED BY <2>1, DaemonsGoOn
<1> QED BY <1>1, <1>2 DEF Found

\* A server is past its attachment only with a daemon that answered as its own.
LEMMA MineStep ==
  ASSUME StartupTypeOK, Found, Mine, [StartupNext]_startupVars
  PROVE  Mine'
<1> SUFFICES ASSUME NEW s \in Server, server'[s].pc \in {"loops", "bind", "serving"}
             PROVE  /\ attached'[s] # None
                    /\ daemon'[attached'[s]].token = server'[s].token
                    /\ daemon'[attached'[s]].build = BuildOf[s]
  BY DEF Mine
<1>1. /\ attached'[s] \in Daemon /\ daemon[attached'[s]].pc \in {"serving", "dying", "dead"}
      /\ daemon[attached'[s]].token = server'[s].token /\ daemon[attached'[s]].build = BuildOf[s]
  <2> USE NoneIsNobody DEF StartupTypeOK, Found, Mine, ServerAt, DaemonAt, Files, Ports, History
  <2>1. ASSUME NEW r \in Server, EnsureRunnerd(r) \/ PollRunnerd(r)
        PROVE  <1>1
    BY <2>1 DEF EnsureRunnerd, PollRunnerd, Attach, Healthy, SameBuild
  <2>2. ASSUME NEW r \in Server,
               \/ LaunchServer(r) \/ ProbeServer(r) \/ ServerReadsToken(r) \/ ServerMakesToken(r)
               \/ KillDaemon(r) \/ WaitDown(r) \/ SpawnDaemon(r) \/ StartLoops(r) \/ BindServer(r)
               \/ ServerCrashes(r)
        PROVE  <1>1
    BY <2>2 DEF LaunchServer, ProbeServer, ServerReadsToken, ServerMakesToken, KillDaemon, WaitDown,
                SpawnDaemon, StartLoops, BindServer, ServerCrashes
  <2>3. ASSUME UNCHANGED << server, attached >>
        PROVE  <1>1
    BY <2>3
  <2>4. ASSUME NEW d \in Daemon,
               \/ AcquireLock(d) \/ DaemonReadsToken(d) \/ DaemonMakesToken(d) \/ DaemonMarks(d)
               \/ BindDaemon(d) \/ ClosePort(d) \/ ReleaseLock(d) \/ DaemonIsGone(d) \/ DaemonCrashes(d)
        PROVE  UNCHANGED << server, attached >>
    BY <2>4 DEF AcquireLock, DaemonReadsToken, DaemonMakesToken, DaemonMarks, BindDaemon, ClosePort,
                ReleaseLock, DaemonIsGone, DaemonCrashes
  <2>5. ASSUME NEW d \in Daemon, NEW b \in Build, LaunchDaemon(d, b)
        PROVE  UNCHANGED << server, attached >>
    BY <2>5 DEF LaunchDaemon
  <2> QED BY <2>1, <2>2, <2>3, <2>4, <2>5 DEF StartupNext, startupVars
<1> QED BY <1>1, NoneIsNobody, DaemonsGoOn

\* A daemon that marks holds the lock, so no other one runs tasks.
LEMMA MarkedStep ==
  ASSUME StartupTypeOK, Locked, marked = {}, [StartupNext]_startupVars
  PROVE  marked' = {}
<1>1. ASSUME NEW d \in Daemon, DaemonMarks(d)
      PROVE  marked' = {}
  <2>1. lockOwner = d
    BY <1>1 DEF DaemonMarks, DaemonAt, Locked
  <2>2. \A e \in Daemon \ {d} : ~Running(e)
    BY <2>1 DEF Running, Locked
  <2> QED BY <1>1, <2>2 DEF DaemonMarks
<1>2. ASSUME NEW s \in Server,
             \/ LaunchServer(s) \/ ProbeServer(s) \/ ServerReadsToken(s) \/ ServerMakesToken(s)
             \/ EnsureRunnerd(s) \/ KillDaemon(s) \/ WaitDown(s) \/ SpawnDaemon(s) \/ PollRunnerd(s)
             \/ StartLoops(s) \/ BindServer(s) \/ ServerCrashes(s)
      PROVE  UNCHANGED marked
  BY <1>2 DEF LaunchServer, ProbeServer, ServerReadsToken, ServerMakesToken, EnsureRunnerd, KillDaemon,
              WaitDown, SpawnDaemon, PollRunnerd, StartLoops, BindServer, ServerCrashes, History
<1>3. ASSUME NEW d \in Daemon,
             \/ AcquireLock(d) \/ DaemonReadsToken(d) \/ DaemonMakesToken(d) \/ BindDaemon(d)
             \/ ClosePort(d) \/ ReleaseLock(d) \/ DaemonIsGone(d) \/ DaemonCrashes(d)
      PROVE  UNCHANGED marked
  BY <1>3 DEF AcquireLock, DaemonReadsToken, DaemonMakesToken, BindDaemon, ClosePort, ReleaseLock,
              DaemonIsGone, DaemonCrashes, History
<1>4. ASSUME NEW d \in Daemon, NEW b \in Build, LaunchDaemon(d, b)
      PROVE  UNCHANGED marked
  BY <1>4 DEF LaunchDaemon, History
<1> QED BY <1>1, <1>2, <1>3, <1>4 DEF StartupNext, startupVars

-----------------------------------------------------------------------------
LEMMA StartupInvInit == StartupInit => StartupInv
BY Numbers, NoneIsNobody, StartupAssumption
   DEF StartupInit, StartupInv, StartupTypeOK, Locked, Found, Mine, ServerPc, DaemonPc

LEMMA StartupInvStep == StartupInv /\ [StartupNext]_startupVars => StartupInv'
BY StartupTypeStep, LockedStep, FoundStep, MineStep, MarkedStep DEF StartupInv

\* Whoever runs tasks holds the lock: that is at most one.
LEMMA OneRuns == StartupInv => Cardinality({d \in Daemon : Running(d)}) <= 1
<1> SUFFICES ASSUME StartupInv PROVE Cardinality({d \in Daemon : Running(d)}) <= 1
  OBVIOUS
<1>1. \A d \in Daemon : Running(d) => d = lockOwner
  BY DEF StartupInv, Running, Locked
<1>2. {d \in Daemon : Running(d)} \subseteq {lockOwner}
  BY <1>1
<1>3. IsFiniteSet({lockOwner}) /\ Cardinality({lockOwner}) = 1
  BY FS_Singleton
<1>4. Cardinality({d \in Daemon : Running(d)}) <= Cardinality({lockOwner})
  BY <1>2, <1>3, FS_Subset
<1> QED BY <1>3, <1>4

\* The values of the variables of Startup (main, ensureRunnerd, runRunnerd).
THEOREM StartupTyped == StartupSpec => []StartupTypeOK
<1>1. StartupInv => StartupTypeOK
  BY DEF StartupInv
<1> QED BY <1>1, StartupInvInit, StartupInvStep, PTL DEF StartupSpec

\* However many servers and daemons are launched, replaced and die: none
\* interrupts the runs of another that is still there (MarkInterrupted under
\* runnerd.lock), and a serving server's daemon is of its build and token.
THEOREM DaemonAlone == StartupSpec => []DaemonIsMine
<1>1. StartupInv => DaemonIsMine
  BY OneRuns DEF StartupInv, Mine, DaemonIsMine
<1> QED BY <1>1, StartupInvInit, StartupInvStep, PTL DEF StartupSpec
=============================================================================
