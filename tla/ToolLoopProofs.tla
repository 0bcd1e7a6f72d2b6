--------------------------- MODULE ToolLoopProofs ---------------------------
(***************************************************************************)
(* Proofs about ToolLoop, for any response, any way to cut it into chunks, *)
(* any number of steps and any bounds: what the model is sent and what was *)
(* executed agree, and what the user reads does not depend on the chunks.  *)
(***************************************************************************)
EXTENDS ToolLoop, TLAPS, SequenceTheorems, WellFoundedInduction

\* Every nonempty set of naturals has a least element.
LEMMA LeastOf ==
  ASSUME NEW S \in SUBSET Nat, S # {}
  PROVE  \E m \in S : \A n \in S : m <= n
<1>1. PICK m \in S : \A n \in S : ~(<<n, m>> \in OpToRel(<, Nat))
  BY NatLessThanWellFounded, WFMin
<1>2. \A n \in S : ~(n < m)
  BY <1>1 DEF OpToRel
<1> QED BY <1>2

\* What is joined is read from the one and then from the other.
LEMMA Joined ==
  ASSUME NEW S, NEW s \in Seq(S), NEW t \in Seq(S)
  PROVE  /\ s \o t \in Seq(S) /\ Len(s \o t) = Len(s) + Len(t)
         /\ \A i \in 1..Len(s) : (s \o t)[i] = s[i]
         /\ \A k \in 1..Len(t) : (s \o t)[Len(s) + k] = t[k]
<1>1. Len(s) \in Nat /\ Len(t) \in Nat
  OBVIOUS
<1>2. \A k \in 1..Len(t) : Len(s) + k \in 1..(Len(s) + Len(t)) /\ ~(Len(s) + k <= Len(s)) /\ (Len(s) + k) - Len(s) = k
  BY <1>1
<1> QED BY <1>1, <1>2, ConcatProperties

-----------------------------------------------------------------------------
(***************************************************************************)
(* The tool loop: the conversation and the calls it remembers.             *)
(***************************************************************************)
Side(i) == IF i = 1 THEN "system" ELSE IF i % 2 = 0 THEN "user" ELSE "assistant"

Messages ==
  [role : {"system", "user", "assistant"}, kind : {"chat", "summary", "call", "results"},
   step : Nat, size : Nat]

\* What a conversation is between two requests: sides in turn, the user's
\* last, a call followed by its results.
InTurn(msgs) ==
  /\ msgs \in Seq(Messages) /\ Len(msgs) >= 2 /\ Len(msgs) % 2 = 0
  /\ \A i \in 1..Len(msgs) : msgs[i].role = Side(i)

Paired(msgs) ==
  /\ \A i \in 1..Len(msgs) : /\ msgs[i].kind = "call" => msgs[i].role = "assistant"
                             /\ msgs[i].kind = "results" => msgs[i].role = "user"
  /\ \A i \in 2..Len(msgs) :
       msgs[i].kind = "results"
         <=> msgs[i - 1].kind = "call" /\ msgs[i].step = msgs[i - 1].step

TurnTyped ==
  /\ turn \in [step : Nat, phase : {"ready", "compress", "stream", "decide", "ended"},
               outcome : {"running", "tooLarge", "stepLimit", "failed", "empty", "answered"}]
  /\ fitting \in [working : Seq(Messages), i : Nat, keepTail : BOOLEAN]

TurnHeld ==
  /\ InTurn(prompt) /\ Paired(prompt)
  /\ turn.phase = "compress" => InTurn(fitting.working) /\ Paired(fitting.working)

\* A message has the fields it was made with.
LEMMA MessageMade ==
  ASSUME NEW role \in {"system", "user", "assistant"},
         NEW kind \in {"chat", "summary", "call", "results"}, NEW step \in Nat, NEW size \in Nat
  PROVE  /\ Message(role, kind, step, size) \in Messages
         /\ Message(role, kind, step, size).role = role
         /\ Message(role, kind, step, size).kind = kind
         /\ Message(role, kind, step, size).step = step
BY DEF Message, Messages

\* Even distances keep a message on its side.
LEMMA SameSide ==
  ASSUME NEW n \in Nat, n % 2 = 0, NEW keep \in Nat, keep % 2 = 0, NEW k \in Nat, k >= 1, keep <= n - 2
  PROVE  Side(n - keep + k) = Side(k + 2)
<1>1. (n - keep + k) % 2 = (k + 2) % 2
  BY SMTT(30)
<1> QED BY <1>1 DEF Side

\* A summary and an even tail of a conversation are one again.
LEMMA ShortenedInTurn ==
  ASSUME NEW msgs, InTurn(msgs), Paired(msgs),
         NEW summary \in Messages, summary.role = "user", summary.kind = "summary",
         NEW keep \in Nat, keep % 2 = 0, Len(msgs) - 1 > keep + 1
  PROVE  LET shorter == <<msgs[1], summary>> \o SubSeq(msgs, Len(msgs) - keep + 1, Len(msgs))
         IN  InTurn(shorter) /\ Paired(shorter)
<1> DEFINE n == Len(msgs)
           head == <<msgs[1], summary>>
           tail == SubSeq(msgs, n - keep + 1, n)
           new == head \o tail
<1>1. n \in Nat /\ n % 2 = 0 /\ n > keep + 2 /\ msgs \in Seq(Messages)
  BY DEF InTurn
<1>2. tail \in Seq(Messages) /\ Len(tail) = keep /\ \A k \in 1..keep : tail[k] = msgs[n - keep + k]
  BY <1>1
<1>3. msgs[1] \in Messages
  BY <1>1
<1>4. head \in Seq(Messages) /\ Len(head) = 2 /\ head[1] = msgs[1] /\ head[2] = summary
  BY <1>3
<1>5. /\ new \in Seq(Messages) /\ Len(new) = keep + 2
      /\ new[1] = msgs[1] /\ new[2] = summary
      /\ \A k \in 1..keep : new[k + 2] = msgs[n - keep + k]
  <2> HIDE DEF head, tail
  <2>1. /\ new \in Seq(Messages) /\ Len(new) = 2 + Len(tail)
        /\ \A i \in 1..2 : new[i] = head[i]
        /\ \A k \in 1..Len(tail) : new[2 + k] = tail[k]
    <3>1. head \in Seq(Messages) /\ tail \in Seq(Messages)
      BY <1>2, <1>4
    <3>2. /\ new \in Seq(Messages) /\ Len(new) = Len(head) + Len(tail)
          /\ \A i \in 1..Len(head) : new[i] = head[i]
          /\ \A k \in 1..Len(tail) : new[Len(head) + k] = tail[k]
      BY <3>1, Joined
    <3> QED BY <3>2, <1>4
  <2>2. Len(new) = keep + 2 /\ new[1] = head[1] /\ new[2] = head[2]
    BY <2>1, <1>2
  <2> HIDE DEF new
  <2>3. ASSUME NEW k \in 1..keep PROVE new[k + 2] = msgs[n - keep + k]
    <3>1. k + 2 = 2 + k /\ k \in 1..Len(tail)
      BY <1>2
    <3> QED BY <3>1, <2>1, <1>2
  <2> QED BY <2>1, <2>2, <2>3, <1>4
<1> HIDE DEF new, head, tail
<1>6. \A i \in 3..Len(new) : i - 2 \in 1..keep /\ new[i] = msgs[n - keep + (i - 2)]
                             /\ n - keep + (i - 2) \in 3..n
  <2> SUFFICES ASSUME NEW i \in 3..Len(new)
               PROVE  i - 2 \in 1..keep /\ new[i] = msgs[n - keep + (i - 2)] /\ n - keep + (i - 2) \in 3..n
    OBVIOUS
  <2>1. i - 2 \in 1..keep /\ (i - 2) + 2 = i
    BY <1>5
  <2>2. n - keep + (i - 2) \in 3..n
    BY <2>1, <1>1
  <2> QED BY <2>1, <2>2, <1>5
<1>7. \A i \in 3..Len(new) : Side(i) = Side(n - keep + (i - 2))
  <2> SUFFICES ASSUME NEW i \in 3..Len(new) PROVE Side(i) = Side(n - keep + (i - 2))
    OBVIOUS
  <2> DEFINE k == i - 2
  <2>1. k \in Nat /\ k >= 1 /\ k + 2 = i /\ keep <= n - 2
    BY <1>1
  <2> HIDE DEF k
  <2>2. Side(n - keep + k) = Side(k + 2)
    BY <2>1, <1>1, SameSide
  <2> QED BY <2>1, <2>2 DEF k
<1>8. InTurn(new)
  <2>1. Len(new) >= 2 /\ Len(new) % 2 = 0
    BY <1>5
  <2>2. \A i \in 1..Len(new) : i = 1 \/ i = 2 \/ i \in 3..Len(new)
    BY <1>5
  <2>3. new[1].role = Side(1)
    BY <1>1, <1>5 DEF InTurn
  <2>4. new[2].role = Side(2)
    BY <1>5, <1>3 DEF Side
  <2>5. \A i \in 3..Len(new) : new[i].role = Side(i)
    <3> SUFFICES ASSUME NEW i \in 3..Len(new) PROVE new[i].role = Side(i)
      OBVIOUS
    <3>1. n - keep + (i - 2) \in 1..n /\ new[i] = msgs[n - keep + (i - 2)]
      BY <1>6, <1>1
    <3>2. msgs[n - keep + (i - 2)].role = Side(n - keep + (i - 2))
      BY <3>1 DEF InTurn
    <3> QED BY <3>1, <3>2, <1>7
  <2> QED BY <1>5, <2>1, <2>2, <2>3, <2>4, <2>5 DEF InTurn
<1>9. Paired(new)
  <2>1. \A i \in 1..Len(new) : /\ new[i].kind = "call" => new[i].role = "assistant"
                               /\ new[i].kind = "results" => new[i].role = "user"
    <3> SUFFICES ASSUME NEW i \in 1..Len(new)
                 PROVE  /\ new[i].kind = "call" => new[i].role = "assistant"
                        /\ new[i].kind = "results" => new[i].role = "user"
      OBVIOUS
    <3>1. CASE i = 1
      BY <3>1, <1>1, <1>5 DEF Paired
    <3>2. CASE i = 2
      BY <3>2, <1>3, <1>5
    <3>3. CASE i \in 3..Len(new)
      <4>1. n - keep + (i - 2) \in 1..n /\ new[i] = msgs[n - keep + (i - 2)]
        BY <3>3, <1>6, <1>1
      <4> QED BY <4>1 DEF Paired
    <3> QED BY <3>1, <3>2, <3>3, <1>5
  <2>2. ~(new[1].kind = "call") /\ ~(new[2].kind = "call") /\ ~(new[2].kind = "results")
    BY <2>1, <1>3, <1>5, <1>8 DEF InTurn, Side
  <2> SUFFICES ASSUME NEW i \in 2..Len(new)
               PROVE  new[i].kind = "results"
                        <=> new[i - 1].kind = "call" /\ new[i].step = new[i - 1].step
    BY <2>1 DEF Paired
  <2>3. CASE i = 2
    BY <2>2, <2>3
  <2>4. CASE i = 3
    <3>1. new[3].role = "assistant"
      BY <2>4, <1>8 DEF InTurn, Side
    <3> QED BY <3>1, <2>1, <2>2, <2>4
  <2>5. CASE i \in 4..Len(new)
    <3>1. i \in 3..Len(new) /\ i - 1 \in 3..Len(new)
      BY <2>5
    <3> DEFINE k == n - keep + (i - 2)
    <3>2. k \in 2..n /\ new[i] = msgs[k]
      BY <3>1, <1>6, <1>1
    <3>3. new[i - 1] = msgs[n - keep + ((i - 1) - 2)]
      BY <3>1, <1>6
    <3>4. n - keep + ((i - 1) - 2) = k - 1
      BY <1>1, <3>1
    <3> HIDE DEF k
    <3>5. msgs[k].kind = "results" <=> msgs[k - 1].kind = "call" /\ msgs[k].step = msgs[k - 1].step
      BY <3>2 DEF Paired
    <3> QED BY <3>2, <3>3, <3>4, <3>5
  <2> QED BY <2>3, <2>4, <2>5
<1> QED BY <1>8, <1>9 DEF new, head, tail

\* Compressing the history leaves a conversation behind, whatever is kept of it.
LEMMA SummarizedInTurn ==
  ASSUME NEW msgs, InTurn(msgs), Paired(msgs), turn.step \in Nat,
         NEW keep \in Nat, keep % 2 = 0, Len(msgs) - 1 > keep + 1
  PROVE  InTurn(Summarized(msgs, keep)) /\ Paired(Summarized(msgs, keep))
<1> DEFINE summary == Message("user", "summary", turn.step, 1)
<1>1. summary \in Messages /\ summary.role = "user" /\ summary.kind = "summary"
  BY DEF Message, Messages
<1>2. Summarized(msgs, keep) = <<msgs[1], summary>> \o SubSeq(msgs, Len(msgs) - keep + 1, Len(msgs))
  BY DEF Summarized, Drop
<1> HIDE DEF summary
<1> QED BY <1>1, <1>2, ShortenedInTurn

\* A step that the loop appends, a call with its results, keeps it one.
LEMMA AppendedInTurn ==
  ASSUME NEW msgs, InTurn(msgs), Paired(msgs), NEW step \in Nat, NEW size \in Nat
  PROVE  LET more == msgs \o <<Message("assistant", "call", step, 1),
                               Message("user", "results", step, size)>>
         IN  InTurn(more) /\ Paired(more)
<1> DEFINE n == Len(msgs)
           call == Message("assistant", "call", step, 1)
           results == Message("user", "results", step, size)
           both == <<call, results>>
           more == msgs \o both
<1>1. n \in Nat /\ n % 2 = 0 /\ n >= 2 /\ msgs \in Seq(Messages)
  BY DEF InTurn
<1>2. /\ call \in Messages /\ call.role = "assistant" /\ call.kind = "call" /\ call.step = step
      /\ results \in Messages /\ results.role = "user" /\ results.kind = "results" /\ results.step = step
  BY MessageMade
<1> HIDE DEF call, results
<1>3. both \in Seq(Messages) /\ Len(both) = 2 /\ both[1] = call /\ both[2] = results
  BY <1>2
<1> HIDE DEF both
<1>4. /\ more \in Seq(Messages) /\ Len(more) = n + 2
      /\ \A i \in 1..n : more[i] = msgs[i]
      /\ more[n + 1] = call /\ more[n + 2] = results
  <2>1. /\ more \in Seq(Messages) /\ Len(more) = Len(msgs) + Len(both)
        /\ \A i \in 1..Len(msgs) : more[i] = msgs[i]
        /\ \A k \in 1..Len(both) : more[Len(msgs) + k] = both[k]
    <3>1. msgs \in Seq(Messages) /\ both \in Seq(Messages)
      BY <1>1, <1>3
    <3> HIDE DEF n
    <3> QED BY <3>1, Joined
  <2> HIDE DEF more
  <2>2. more[Len(msgs) + 1] = both[1] /\ more[Len(msgs) + 2] = both[2] /\ Len(more) = Len(msgs) + 2
    BY <2>1, <1>3
  <2> QED BY <2>1, <2>2, <1>3
<1> HIDE DEF more
<1>5. \A i \in 1..Len(more) : i \in 1..n \/ i = n + 1 \/ i = n + 2
  BY <1>1, <1>4
<1>6. Side(n + 1) = "assistant" /\ Side(n + 2) = "user"
  <2>1. (n + 1) % 2 = 1 /\ (n + 2) % 2 = 0
    BY <1>1
  <2> QED BY <2>1, <1>1 DEF Side
<1>7. InTurn(more)
  <2>1. Len(more) >= 2 /\ Len(more) % 2 = 0
    BY <1>1, <1>4
  <2>2. \A i \in 1..n : more[i].role = Side(i)
    BY <1>4 DEF InTurn
  <2> QED BY <1>2, <1>4, <1>5, <1>6, <2>1, <2>2 DEF InTurn
<1>8. Paired(more)
  <2>1. \A i \in 1..Len(more) : /\ more[i].kind = "call" => more[i].role = "assistant"
                                /\ more[i].kind = "results" => more[i].role = "user"
    BY <1>2, <1>4, <1>5 DEF Paired
  <2> SUFFICES ASSUME NEW i \in 2..Len(more)
               PROVE  more[i].kind = "results"
                        <=> more[i - 1].kind = "call" /\ more[i].step = more[i - 1].step
    BY <2>1 DEF Paired
  <2>2. CASE i \in 2..n
    <3>1. more[i] = msgs[i] /\ more[i - 1] = msgs[i - 1]
      BY <2>2, <1>1, <1>4
    <3> QED BY <3>1, <2>2 DEF Paired
  <2>3. CASE i = n + 1
    <3>1. more[i - 1] = msgs[n] /\ more[i] = call
      BY <2>3, <1>1, <1>4
    <3>2. msgs[n].role = "user"
      BY <1>1 DEF InTurn, Side
    <3>3. msgs[n].kind # "call"
      BY <3>2, <1>1 DEF Paired
    <3> QED BY <3>1, <3>3, <1>2
  <2>4. CASE i = n + 2
    <3>1. more[i - 1] = call /\ more[i] = results
      BY <2>4, <1>1, <1>4
    <3> QED BY <3>1, <1>2
  <2> QED BY <2>2, <2>3, <2>4, <1>1, <1>4
<1> QED BY <1>7, <1>8 DEF more, both, call, results

\* A prompt brings pairs of messages and the one to answer: a conversation in turn.
LEMMA TurnInit == ToolLoopInit => TurnTyped /\ TurnHeld
<1> SUFFICES ASSUME ToolLoopInit PROVE TurnTyped /\ TurnHeld
  OBVIOUS
<1>1. PICK n \in EarlierTurns :
        prompt = <<Message("system", "chat", 0, 1)>>
                 \o [i \in 1..(2 * n + 1) |->
                      Message(IF i % 2 = 1 THEN "user" ELSE "assistant", "chat", 0, 1)]
  BY DEF ToolLoopInit
<1> DEFINE first == <<Message("system", "chat", 0, 1)>>
           more == [i \in 1..(2 * n + 1) |-> Message(IF i % 2 = 1 THEN "user" ELSE "assistant", "chat", 0, 1)]
           msgs == first \o more
<1>2. n \in Nat
  BY ToolLoopAssumption
<1>3. first \in Seq(Messages) /\ Len(first) = 1 /\ first[1].role = "system" /\ first[1].kind = "chat"
  BY MessageMade
<1>4. more \in Seq(Messages) /\ Len(more) = 2 * n + 1
  <2>1. \A i \in 1..(2 * n + 1) : more[i] \in Messages
    BY MessageMade
  <2> QED BY <2>1, <1>2
<1>5. \A i \in 1..Len(more) : more[i].role = (IF i % 2 = 1 THEN "user" ELSE "assistant") /\ more[i].kind = "chat"
  <2> SUFFICES ASSUME NEW i \in 1..(2 * n + 1)
               PROVE  more[i].role = (IF i % 2 = 1 THEN "user" ELSE "assistant") /\ more[i].kind = "chat"
    BY <1>4
  <2> DEFINE role == IF i % 2 = 1 THEN "user" ELSE "assistant"
  <2>1. more[i] = Message(role, "chat", 0, 1) /\ role \in {"system", "user", "assistant"}
    OBVIOUS
  <2> HIDE DEF more, role
  <2>2. more[i].role = role /\ more[i].kind = "chat"
    BY <2>1, MessageMade
  <2> QED BY <2>2 DEF role
<1> HIDE DEF first, more
<1>6. /\ msgs \in Seq(Messages) /\ Len(msgs) = Len(first) + Len(more)
      /\ \A i \in 1..Len(first) : msgs[i] = first[i]
      /\ \A k \in 1..Len(more) : msgs[Len(first) + k] = more[k]
  <2>1. first \in Seq(Messages) /\ more \in Seq(Messages)
    BY <1>3, <1>4
  <2> QED BY <2>1, Joined
<1> HIDE DEF msgs
<1>7. Len(msgs) = 2 * n + 2 /\ Len(msgs) % 2 = 0 /\ Len(msgs) >= 2
  BY <1>2, <1>3, <1>4, <1>6
<1>8. \A i \in 1..Len(msgs) : msgs[i].role = Side(i) /\ msgs[i].kind = "chat"
  <2> SUFFICES ASSUME NEW i \in 1..Len(msgs) PROVE msgs[i].role = Side(i) /\ msgs[i].kind = "chat"
    OBVIOUS
  <2>1. CASE i = 1
    BY <2>1, <1>3, <1>6 DEF Side
  <2>2. CASE i # 1
    <3> DEFINE k == i - 1
    <3>1. k \in 1..Len(more) /\ 1 + k = i /\ (k % 2 = 1 <=> i % 2 = 0)
      BY <2>2, <1>2, <1>4, <1>7
    <3> HIDE DEF k
    <3>2. msgs[i] = more[k]
      BY <3>1, <1>3, <1>6
    <3> QED BY <3>1, <3>2, <1>5, <2>2 DEF Side
  <2> QED BY <2>1, <2>2
<1>9. InTurn(msgs) /\ Paired(msgs)
  <2>1. \A i \in 2..Len(msgs) : i \in 1..Len(msgs) /\ i - 1 \in 1..Len(msgs)
    BY <1>2, <1>7
  <2>2. InTurn(msgs)
    BY <1>6, <1>7, <1>8 DEF InTurn
  <2>3. Paired(msgs)
    BY <1>8, <2>1 DEF Paired
  <2> QED BY <2>2, <2>3
<1>10. prompt = msgs
  BY <1>1 DEF msgs, first, more
<1>11. TurnTyped /\ turn.phase # "compress"
  BY DEF ToolLoopInit, TurnTyped, NoFit
<1> QED BY <1>9, <1>10, <1>11 DEF TurnHeld

\* The loop appends a call with its results or puts a compressed copy in the place of the
\* conversation; nothing else writes it.
LEMMA TurnStep == TurnTyped /\ TurnHeld /\ [ToolLoopNext]_loopVars => (TurnTyped /\ TurnHeld)'
<1> SUFFICES ASSUME TurnTyped, TurnHeld, [ToolLoopNext]_loopVars PROVE TurnTyped' /\ TurnHeld'
  OBVIOUS
<1>0. /\ turn.step \in Nat /\ fitting.i \in Nat /\ fitting.keepTail \in BOOLEAN
      /\ prompt \in Seq(Messages)
  BY DEF TurnTyped, TurnHeld, InTurn
<1>1. CASE StartStep
  <2>1. CASE turn.step > 0 /\ TooLong(prompt)
    <3>1. /\ turn' = [turn EXCEPT !.phase = "compress"] /\ prompt' = prompt
          /\ fitting' = [NoFit EXCEPT !.working = prompt]
      BY <1>1, <2>1 DEF StartStep
    <3>2. TurnTyped' /\ fitting'.working = prompt
      BY <3>1, <1>0 DEF TurnTyped, NoFit
    <3> QED BY <3>1, <3>2 DEF TurnHeld
  <2>2. CASE ~(turn.step > 0 /\ TooLong(prompt))
    <3>1. turn' = [turn EXCEPT !.phase = "stream"] /\ prompt' = prompt /\ fitting' = fitting
      BY <1>1, <2>2 DEF StartStep
    <3>2. TurnTyped' /\ turn'.phase = "stream"
      BY <3>1 DEF TurnTyped
    <3> QED BY <3>1, <3>2 DEF TurnHeld
  <2> QED BY <2>1, <2>2
<1>2. CASE Compress
  <2> DEFINE keep == IF fitting.keepTail THEN KeepTail ELSE 0
             shorter == Summarized(fitting.working, keep)
  <2>1. turn.phase = "compress" /\ UNCHANGED <<turn, prompt>> /\ fitting' = Shorter(fitting)
    BY <1>2 DEF Compress
  <2>2. InTurn(fitting.working) /\ Paired(fitting.working) /\ keep \in Nat /\ keep % 2 = 0
    BY <2>1, ToolLoopAssumption DEF TurnHeld
  <2>3. CASE Len(fitting.working) - 1 > keep + 1
    <3>1. InTurn(shorter) /\ Paired(shorter)
      <4> HIDE DEF keep
      <4> QED BY <1>0, <2>2, <2>3, SummarizedInTurn
    <3>2. fitting' = [working |-> shorter, i |-> fitting.i + 1, keepTail |-> fitting.keepTail /\ ~TooLong(shorter)]
      BY <2>1, <2>3 DEF Shorter
    <3> HIDE DEF shorter, keep
    <3>3. TurnTyped' /\ fitting'.working = shorter
      BY <1>0, <2>1, <3>1, <3>2 DEF TurnTyped, InTurn
    <3> QED BY <2>1, <3>1, <3>3 DEF TurnHeld
  <2>4. CASE ~(Len(fitting.working) - 1 > keep + 1)
    <3>1. fitting' = [fitting EXCEPT !.i = @ + 1, !.keepTail = FALSE]
      BY <2>1, <2>4 DEF Shorter
    <3>2. fitting \in [working : Seq(Messages), i : Nat, keepTail : BOOLEAN]
      BY DEF TurnTyped
    <3>3. /\ fitting' \in [working : Seq(Messages), i : Nat, keepTail : BOOLEAN]
          /\ fitting'.working = fitting.working
      <4>1. fitting.i + 1 \in Nat
        BY <1>0
      <4> QED BY <3>1, <3>2, <4>1
    <3>4. TurnTyped'
      BY <2>1, <3>3 DEF TurnTyped
    <3> QED BY <2>1, <3>3, <3>4 DEF TurnHeld
  <2> QED BY <2>3, <2>4
<1>3. CASE EndCompression
  <2>1. /\ fitting' = NoFit /\ turn.phase = "compress"
        /\ \/ /\ turn' = [turn EXCEPT !.phase = "ended", !.outcome = "tooLarge"]
              /\ prompt' = prompt
           \/ /\ turn' = [turn EXCEPT !.phase = "stream"]
              /\ prompt' = fitting.working
    BY <1>3 DEF EndCompression
  <2>2. turn'.phase # "compress" /\ turn' \in [step : Nat, phase : {"ready", "compress", "stream", "decide", "ended"},
                 outcome : {"running", "tooLarge", "stepLimit", "failed", "empty", "answered"}]
    BY <2>1 DEF TurnTyped
  <2>3. NoFit \in [working : Seq(Messages), i : Nat, keepTail : BOOLEAN]
    BY DEF NoFit
  <2>4. InTurn(prompt') /\ Paired(prompt')
    BY <2>1 DEF TurnHeld
  <2> QED BY <2>1, <2>2, <2>3, <2>4 DEF TurnHeld, TurnTyped
<1>4. CASE StepLimit \/ StreamEnds \/ FinalAnswer
  <2>1. UNCHANGED <<prompt, fitting>> /\ turn' \in {[turn EXCEPT !.phase = "decide"]}
          \cup {[turn EXCEPT !.phase = "ended", !.outcome = o] : o \in {"stepLimit", "failed", "empty", "answered"}}
    <3>1. CASE StepLimit
      BY <3>1 DEF StepLimit
    <3>2. CASE StreamEnds
      BY <3>2 DEF StreamEnds
    <3>3. CASE FinalAnswer
      BY <3>3 DEF FinalAnswer
    <3> QED BY <1>4, <3>1, <3>2, <3>3
  <2>2. TurnTyped' /\ turn'.phase # "compress"
    <3>1. CASE turn' = [turn EXCEPT !.phase = "decide"]
      BY <2>1, <3>1 DEF TurnTyped
    <3>2. ASSUME NEW o \in {"stepLimit", "failed", "empty", "answered"},
                 turn' = [turn EXCEPT !.phase = "ended", !.outcome = o]
          PROVE  TurnTyped' /\ turn'.phase # "compress"
      BY <2>1, <3>2 DEF TurnTyped
    <3> QED BY <2>1, <3>1, <3>2
  <2> QED BY <2>1, <2>2 DEF TurnHeld
<1>5. CASE ProtocolError \/ RecoverTruncated \/ CallTools
  <2>1. PICK size \in Nat : NextStep(size)
    <3>1. 1 \in Nat /\ ResultSize \subseteq Nat
      BY ToolLoopAssumption
    <3> QED BY <1>5, <3>1 DEF ProtocolError, RecoverTruncated, CallTools
  <2>2. /\ turn' = [turn EXCEPT !.step = @ + 1, !.phase = "ready"] /\ fitting' = fitting
        /\ prompt' = prompt \o <<Message("assistant", "call", turn.step, 1),
                                 Message("user", "results", turn.step, size)>>
    BY <2>1 DEF NextStep
  <2>3. InTurn(prompt') /\ Paired(prompt')
    BY <1>0, <2>2, AppendedInTurn DEF TurnHeld
  <2>4. TurnTyped' /\ turn'.phase = "ready"
    <3>1. turn.step + 1 \in Nat
      BY <1>0
    <3> QED BY <2>2, <3>1 DEF TurnTyped
  <2> QED BY <2>3, <2>4 DEF TurnHeld
<1>6. CASE StreamChunk \/ UNCHANGED loopVars
  BY <1>6 DEF StreamChunk, loopVars, TurnTyped, TurnHeld
<1> QED BY <1>1, <1>2, <1>3, <1>4, <1>5, <1>6 DEF ToolLoopNext

\* What a request sends is such a conversation.
LEMMA TurnAlternates == TurnTyped /\ TurnHeld => PromptAlternates
<1> SUFFICES ASSUME TurnTyped, TurnHeld PROVE PromptAlternates
  OBVIOUS
<1>1. prompt \in Seq(Messages) /\ Len(prompt) \in Nat /\ Len(prompt) >= 2 /\ Len(prompt) % 2 = 0
      /\ \A i \in 1..Len(prompt) : prompt[i].role = Side(i)
  BY DEF TurnHeld, InTurn
<1>2. prompt[1].role = "system" /\ Last(prompt).role = "user"
  BY <1>1 DEF Side, Last
<1>3. ASSUME NEW i \in 3..Len(prompt) PROVE prompt[i].role # prompt[i - 1].role
  <2>1. i \in 1..Len(prompt) /\ i - 1 \in 1..Len(prompt)
    BY <1>1
  <2>2. prompt[i].role = Side(i) /\ prompt[i - 1].role = Side(i - 1)
    BY <1>1, <2>1
  <2>3. i % 2 = 0 <=> (i - 1) % 2 # 0
    BY <2>1
  <2>4. Side(i) # Side(i - 1)
    BY <2>1, <2>3 DEF Side
  <2> QED BY <2>2, <2>4
<1> QED BY <1>2, <1>3 DEF PromptAlternates, TurnHeld, Paired

-----------------------------------------------------------------------------
\* No name of a conversation's call is an alias of another.
LEMMA NothingToRepair ==
  ASSUME NEW fields, fields = [name \in DOMAIN fields |-> fields[name]],
         \A c \in DOMAIN AliasOf \ DOMAIN fields : AliasesIn(fields, c) = {}
  PROVE  ~Repaired(fields)
<1>1. DOMAIN FromAliases(fields) = {}
  BY DEF FromAliases
<1>2. Normalized(fields) = [name \in DOMAIN fields |-> fields[name]]
  BY <1>1 DEF Normalized, Filled
<1> QED BY <1>2 DEF Repaired

\* The call that is remembered is what was executed under canonical names.
LEMMA RenderedSticks ==
  ASSUME NEW fields \in Fields
  PROVE  LET executed == Normalized(fields)
             again == IF Repaired(fields) THEN Rendered(fields) ELSE fields
         IN  /\ ~Repaired(again)
             /\ \A c \in DOMAIN AliasOf \cap (DOMAIN again \cup DOMAIN executed) :
                  c \in DOMAIN again /\ c \in DOMAIN executed /\ again[c] = executed[c]
<1>1. CASE ~Repaired(fields)
  BY <1>1 DEF Repaired
<1>2. CASE Repaired(fields)
  <2> DEFINE full == Normalized(fields)
             again == Rendered(fields)
  <2>1. /\ DOMAIN again = DOMAIN full \ AnyAlias
        /\ again = [name \in DOMAIN again |-> again[name]]
        /\ \A name \in DOMAIN again : again[name] = full[name]
    BY DEF Rendered, Restrict
  <2> HIDE DEF full, again
  <2>2. \A c \in DOMAIN AliasOf : \A i \in DOMAIN AliasOf[c] : AliasOf[c][i] \in AnyAlias
    BY DEF AnyAlias, Range
  <2>3. \A c \in DOMAIN AliasOf : AliasesIn(again, c) = {}
    BY <2>1, <2>2 DEF AliasesIn
  <2>4. ~Repaired(again)
    BY <2>1, <2>3, NothingToRepair
  <2>5. \A c \in DOMAIN AliasOf : c \notin AnyAlias
    BY ToolLoopAssumption DEF AnyAlias, Range
  <2> QED BY <1>2, <2>1, <2>4, <2>5 DEF full, again
<1> QED BY <1>1, <1>2

\* Before the first call there is nothing to repair.
LEMMA NoCallSticks == ~Repaired(NoFields) /\ DOMAIN NoFields = {}
<1>1. \A c \in DOMAIN AliasOf : AliasesIn(NoFields, c) = {}
  BY DEF AliasesIn, NoFields
<1>2. NoFields = [name \in DOMAIN NoFields |-> NoFields[name]] /\ DOMAIN NoFields = {}
  BY DEF NoFields
<1> QED BY <1>1, <1>2, NothingToRepair

\* A call with its envelope taken off is a call.
LEMMA FilledFields == ASSUME NEW top \in Fields, NEW nested \in Fields PROVE Filled(top, nested) \in Fields
<1>1. PICK n1 \in SUBSET Field : top \in [n1 -> Value]
  BY DEF Fields
<1>2. PICK n2 \in SUBSET Field : nested \in [n2 -> Value]
  BY DEF Fields
<1>3. Filled(top, nested) \in [n1 \cup n2 -> Value] /\ n1 \cup n2 \in SUBSET Field
  BY <1>1, <1>2 DEF Filled
<1> QED BY <1>3 DEF Fields

\* The conversation remembers a call as parseCall and RenderCanonicalToolData left it.
LEMMA CallStep == RepairSticks /\ [ToolLoopNext]_loopVars => RepairSticks'
<1> SUFFICES ASSUME RepairSticks, [ToolLoopNext]_loopVars PROVE RepairSticks'
  OBVIOUS
<1>1. CASE called' = called
  BY <1>1 DEF RepairSticks
<1>2. CASE called' = NoCall
  BY <1>2, NoCallSticks DEF RepairSticks, NoCall
<1>3. CASE CallTools
  <2>1. PICK top \in Fields, nested \in Fields :
          called' = [executed |-> Normalized(Filled(top, nested)),
                     remembered |-> IF Repaired(Filled(top, nested))
                                      THEN Rendered(Filled(top, nested)) ELSE Filled(top, nested)]
    BY <1>3 DEF CallTools
  <2>2. PICK fields \in Fields :
          called' = [executed |-> Normalized(fields),
                     remembered |-> IF Repaired(fields) THEN Rendered(fields) ELSE fields]
    BY <2>1, FilledFields
  <2>3. called'.executed = Normalized(fields) /\ called'.remembered = IF Repaired(fields) THEN Rendered(fields) ELSE fields
    BY <2>2
  <2> QED BY <2>3, RenderedSticks DEF RepairSticks
<1> QED
  BY <1>1, <1>2, <1>3 DEF ToolLoopNext, loopVars, StartStep, Compress, EndCompression, StepLimit,
     StreamChunk, StreamEnds, ProtocolError, RecoverTruncated, FinalAnswer

\* Whatever the model answers, however often its protocol errors, its cut
\* calls and its compressions interrupt it: the sides of the conversation the
\* model is sent alternate, results stay with their call, and the call it
\* remembers is the one that was executed.
THEOREM ConversationStaysSound == ToolLoopSpec => [](PromptAlternates /\ RepairSticks)
<1>1. ToolLoopInit => RepairSticks
  BY NoCallSticks DEF ToolLoopInit, RepairSticks, NoCall
<1>2. ToolLoopSpec => [](TurnTyped /\ TurnHeld /\ RepairSticks)
  <2> SUFFICES /\ ToolLoopInit => TurnTyped /\ TurnHeld /\ RepairSticks
               /\ (TurnTyped /\ TurnHeld /\ RepairSticks) /\ [ToolLoopNext]_loopVars
                    => (TurnTyped /\ TurnHeld /\ RepairSticks)'
    BY PTL DEF ToolLoopSpec
  <2> QED BY <1>1, TurnInit, TurnStep, CallStep
<1> QED BY <1>2, TurnAlternates, PTL

-----------------------------------------------------------------------------
(***************************************************************************)
(* What the user reads does not depend on how the answer was cut.          *)
(***************************************************************************)

\* What the beginning of a text leaves is its end.
LEMMA DropIs ==
  ASSUME NEW s \in Seq(Piece), NEW n \in 0..Len(s)
  PROVE  /\ Drop(s, n) \in Seq(Piece) /\ Len(Drop(s, n)) = Len(s) - n
         /\ \A k \in 1..(Len(s) - n) : Drop(s, n)[k] = s[n + k]
<1>1. Len(s) \in Nat /\ n \in Nat
  OBVIOUS
<1>2. /\ SubSeq(s, n + 1, Len(s)) \in Seq(Piece)
      /\ Len(SubSeq(s, n + 1, Len(s))) = Len(s) - n
  BY <1>1
<1>3. ASSUME NEW k \in 1..(Len(s) - n) PROVE SubSeq(s, n + 1, Len(s))[k] = s[n + k]
  BY <1>1
<1> QED BY <1>2, <1>3 DEF Drop

\* Two texts of one length with the same pieces are one text.
LEMMA SameText ==
  ASSUME NEW s \in Seq(Piece), NEW t \in Seq(Piece), Len(s) = Len(t),
         \A k \in 1..Len(s) : s[k] = t[k]
  PROVE  s = t
BY SeqEqual

\* What was read is gone, whatever has arrived behind it.
LEMMA DropJoined ==
  ASSUME NEW s \in Seq(Piece), NEW t \in Seq(Piece), NEW n \in 0..Len(s)
  PROVE  Drop(s \o t, n) = Drop(s, n) \o t
<1> DEFINE u == s \o t
           d == Drop(s, n)
           l == Drop(u, n)
           r == d \o t
<1>0. Len(s) \in Nat /\ Len(t) \in Nat /\ n \in Nat
  OBVIOUS
<1>1. /\ u \in Seq(Piece) /\ Len(u) = Len(s) + Len(t)
      /\ \A i \in 1..Len(s) : u[i] = s[i]
      /\ \A k \in 1..Len(t) : u[Len(s) + k] = t[k]
  BY Joined
<1>2. /\ d \in Seq(Piece) /\ Len(d) = Len(s) - n
      /\ \A k \in 1..(Len(s) - n) : d[k] = s[n + k]
  BY DropIs
<1> HIDE DEF u, d
<1>3. n \in 0..Len(u)
  BY <1>0, <1>1
<1>4. /\ l \in Seq(Piece) /\ Len(l) = Len(u) - n
      /\ \A k \in 1..(Len(u) - n) : l[k] = u[n + k]
  BY <1>1, <1>3, DropIs
<1>5. /\ r \in Seq(Piece) /\ Len(r) = Len(d) + Len(t)
      /\ \A i \in 1..Len(d) : r[i] = d[i]
      /\ \A k \in 1..Len(t) : r[Len(d) + k] = t[k]
  <2>1. d \in Seq(Piece)
    BY <1>2
  <2> QED BY <2>1, Joined
<1> HIDE DEF l, r
<1>6. Len(l) = Len(r)
  BY <1>0, <1>1, <1>2, <1>4, <1>5
<1>7. ASSUME NEW k \in 1..Len(l) PROVE l[k] = r[k]
  <2>1. l[k] = u[n + k]
    BY <1>4
  <2>2. CASE k <= Len(s) - n
    <3>1. n + k \in 1..Len(s) /\ k \in 1..(Len(s) - n) /\ k \in 1..Len(d)
      BY <2>2, <1>0, <1>2
    <3> QED BY <3>1, <2>1, <1>1, <1>2, <1>5
  <2>3. CASE ~(k <= Len(s) - n)
    <3> DEFINE j == n + k - Len(s)
    <3>1. j \in 1..Len(t) /\ Len(s) + j = n + k /\ Len(d) + j = k
      BY <2>3, <1>0, <1>1, <1>2, <1>4
    <3> HIDE DEF j
    <3>2. u[Len(s) + j] = t[j] /\ r[Len(d) + j] = t[j]
      BY <3>1, <1>1, <1>5
    <3> QED BY <3>1, <3>2, <2>1
  <2> QED BY <2>2, <2>3
<1>8. l = r
  BY <1>4, <1>5, <1>6, <1>7, SeqEqual
<1> QED BY <1>8 DEF l, r, u, d

\* A text begins with a run of ticks, of no or more, and only one.
LEMMA TickRunIs ==
  ASSUME NEW s \in Seq(Piece)
  PROVE  /\ TickRun(s) \in 0..Len(s)
         /\ \A i \in 1..TickRun(s) : s[i] = "tick"
         /\ TickRun(s) < Len(s) => s[TickRun(s) + 1] # "tick"
<1> DEFINE After == {k \in 0..Len(s) : k < Len(s) => s[k + 1] # "tick"}
<1>1. Len(s) \in After /\ After \in SUBSET Nat
  OBVIOUS
<1>2. PICK n \in After : \A k \in After : n <= k
  BY <1>1, LeastOf
<1>3. ASSUME NEW i \in 1..n PROVE s[i] = "tick"
  <2>1. i - 1 \in 0..Len(s) /\ ~(n <= i - 1) /\ (i - 1) + 1 = i
    BY <1>2
  <2>2. i - 1 \notin After
    BY <2>1, <1>2
  <2> QED BY <2>1, <2>2
<1>4. \E k \in 0..Len(s) : /\ \A i \in 1..k : s[i] = "tick"
                           /\ k < Len(s) => s[k + 1] # "tick"
  BY <1>2, <1>3
<1> QED BY <1>4 DEF TickRun

\* A number that ends the leading ticks is that run.
LEMMA TickRunOnly ==
  ASSUME NEW s \in Seq(Piece), NEW n \in 0..Len(s),
         \A i \in 1..n : s[i] = "tick", n < Len(s) => s[n + 1] # "tick"
  PROVE  TickRun(s) = n
<1> DEFINE m == TickRun(s)
<1>1. /\ m \in 0..Len(s) /\ \A i \in 1..m : s[i] = "tick"
      /\ m < Len(s) => s[m + 1] # "tick"
  BY TickRunIs
<1> HIDE DEF m
<1>2. ~(m < n)
  <2>1. m < n => m + 1 \in 1..n /\ m < Len(s)
    BY <1>1
  <2> QED BY <2>1, <1>1
<1>3. ~(n < m)
  <2>1. n < m => n + 1 \in 1..m /\ n < Len(s)
    BY <1>1
  <2> QED BY <2>1, <1>1
<1>4. m = n
  BY <1>1, <1>2, <1>3
<1> QED BY <1>4 DEF m

TagAt(s, name, i) == i \in 1..(Len(s) - 1) /\ s[i] = "lt" /\ s[i + 1] = name

\* TagIndex is where a tag occurs first, or 0.
LEMMA TagIndexIs ==
  ASSUME NEW s \in Seq(Piece), NEW name
  PROVE  \/ TagIndex(s, name) = 0 /\ \A i \in Nat : ~TagAt(s, name, i)
         \/ /\ TagIndex(s, name) \in 1..(Len(s) - 1) /\ TagAt(s, name, TagIndex(s, name))
            /\ \A i \in Nat : TagAt(s, name, i) => TagIndex(s, name) <= i
<1> DEFINE at == {i \in 1..(Len(s) - 1) : s[i] = "lt" /\ s[i + 1] = name}
<1>1. at \in SUBSET Nat /\ \A i \in Nat : TagAt(s, name, i) <=> i \in at
  BY DEF TagAt
<1>2. TagIndex(s, name) = IF at = {} THEN 0 ELSE CHOOSE i \in at : \A j \in at : i <= j
  BY DEF TagIndex
<1>3. CASE at = {}
  BY <1>1, <1>2, <1>3
<1>4. CASE at # {}
  <2>1. \E m \in at : \A j \in at : m <= j
    BY <1>1, <1>4, LeastOf
  <2>2. TagIndex(s, name) \in at /\ \A j \in at : TagIndex(s, name) <= j
    <3> HIDE DEF at
    <3> QED BY <2>1, <1>2, <1>4
  <2> QED BY <2>2, <1>1
<1> QED BY <1>3, <1>4

\* Where a tag occurs first is TagIndex.
LEMMA TagIndexOnly ==
  ASSUME NEW s \in Seq(Piece), NEW name, NEW n \in Nat, TagAt(s, name, n),
         \A i \in Nat : TagAt(s, name, i) => n <= i
  PROVE  TagIndex(s, name) = n
<1> DEFINE m == TagIndex(s, name)
<1>1. \/ m = 0 /\ \A i \in Nat : ~TagAt(s, name, i)
      \/ m \in 1..(Len(s) - 1) /\ TagAt(s, name, m) /\ \A i \in Nat : TagAt(s, name, i) => m <= i
  BY TagIndexIs
<1>2. Len(s) \in Nat
  OBVIOUS
<1> HIDE DEF m
<1>3. m = n
  BY <1>1, <1>2
<1> QED BY <1>3 DEF m

\* The filter is outside of every tag or inside of one that opens.
LEMMA InsidesAre == "" \in Insides /\ \A tag \in Opens : tag \in Insides
BY DEF Insides

\* The filter f with more pending.
More(f, b) == [pending |-> f.pending \o b, inside |-> f.inside, ticks |-> f.ticks]

\* A filter is its three fields.
LEMMA FilterIs ==
  ASSUME NEW f \in Filters
  PROVE  /\ f = [pending |-> f.pending, inside |-> f.inside, ticks |-> f.ticks]
         /\ f.pending \in Seq(Piece) /\ Len(f.pending) \in Nat
         /\ f.inside \in Insides /\ f.ticks \in Nat
<1>1. f.pending \in Seq(Piece) /\ f.inside \in Insides /\ f.ticks \in Nat
  BY DEF Filters
<1>2. f = [pending |-> f.pending, inside |-> f.inside, ticks |-> f.ticks]
  BY DEF Filters
<1>3. Len(f.pending) \in Nat
  <2> DEFINE p == f.pending
  <2>1. p \in Seq(Piece)
    BY <1>1
  <2> HIDE DEF p
  <2>2. Len(p) \in Nat
    BY <2>1
  <2> QED BY <2>2 DEF p
<1> QED BY <1>1, <1>2, <1>3

\* So is one with more pending.
LEMMA MoreIs ==
  ASSUME NEW f \in Filters, NEW b \in Seq(Piece)
  PROVE  /\ More(f, b) \in Filters /\ [f EXCEPT !.pending = @ \o b] = More(f, b)
         /\ More(f, b).pending = f.pending \o b
         /\ More(f, b).inside = f.inside /\ More(f, b).ticks = f.ticks
<1>1. f.pending \o b \in Seq(Piece)
  BY FilterIs, Joined
<1> DEFINE p == f.pending \o b
<1>2. [f EXCEPT !.pending = @ \o b] = [f EXCEPT !.pending = p]
  OBVIOUS
<1>3. p \in Seq(Piece)
  BY <1>1
<1> HIDE DEF p
<1>4. [f EXCEPT !.pending = p] = [pending |-> p, inside |-> f.inside, ticks |-> f.ticks]
  BY FilterIs, <1>3 DEF Filters
<1>5. [pending |-> p, inside |-> f.inside, ticks |-> f.ticks] \in Filters
  BY FilterIs, <1>3 DEF Filters
<1>6. More(f, b) = [pending |-> p, inside |-> f.inside, ticks |-> f.ticks]
  BY DEF More, p
<1>7. [f EXCEPT !.pending = @ \o b] = More(f, b)
  BY <1>2, <1>4, <1>6
<1>8. More(f, b).pending = p /\ More(f, b).inside = f.inside /\ More(f, b).ticks = f.ticks
  BY <1>6
<1> QED BY <1>5, <1>6, <1>7, <1>8 DEF p

\* Nothing more is the filter itself.
LEMMA MoreNothing ==
  ASSUME NEW f \in Filters
  PROVE  More(f, <<>>) = f
<1> DEFINE p == f.pending
<1>1. p \in Seq(Piece)
  BY FilterIs
<1>2. p \o <<>> = p
  <2> HIDE DEF p
  <2> QED BY <1>1
<1> QED BY <1>2, FilterIs DEF More

\* More and more again is more at once.
LEMMA MoreTwice ==
  ASSUME NEW f \in Filters, NEW b \in Seq(Piece), NEW c \in Seq(Piece)
  PROVE  More(More(f, b), c) = More(f, b \o c)
<1> DEFINE p == f.pending
<1>1. p \in Seq(Piece)
  BY FilterIs
<1>2. (p \o b) \o c = p \o (b \o c)
  <2> HIDE DEF p
  <2> QED BY <1>1, ConcatAssociative
<1> QED BY <1>2 DEF More

Read(f, n, inside, ticks, shown) ==
  [next |-> [pending |-> Drop(f.pending, n), inside |-> inside, ticks |-> ticks], shown |-> shown]

\* What an iteration reads, by what stands first.
LEMMA ReadingBy ==
  ASSUME NEW f
  PROVE  LET p == f.pending IN
         /\ f.inside # "" => Reading(f) = Read(f, TagIndex(p, Closing(f.inside)) + 1, "", f.ticks, <<>>)
         /\ f.inside = "" /\ p[1] = "tick" =>
              Reading(f) = Read(f, TickRun(p), "", Delimited(f.ticks, TickRun(p)), SubSeq(p, 1, TickRun(p)))
         /\ f.inside = "" /\ p[1] # "tick" /\ f.ticks = 0 /\ (\E tag \in Opens : IsTag(p, Closing(tag))) =>
              Reading(f) = Read(f, 2, "", 0, <<>>)
         /\ /\ f.inside = "" /\ p[1] # "tick" /\ f.ticks = 0
            /\ ~\E tag \in Opens : IsTag(p, Closing(tag))
            /\ \E tag \in Opens : IsTag(p, tag)
            => Reading(f) = Read(f, 2, p[2], 0, <<>>)
         /\ /\ f.inside = "" /\ p[1] # "tick"
            /\ ~(f.ticks = 0 /\ \E tag \in Opens : IsTag(p, Closing(tag)))
            /\ ~(f.ticks = 0 /\ \E tag \in Opens : IsTag(p, tag))
            => Reading(f) = Read(f, 1, "", f.ticks, <<p[1]>>)
BY DEF Reading, Read

\* An iteration reads something and keeps the filter a filter.
LEMMA ReadingTyped ==
  ASSUME NEW f \in Filters, NEW final \in BOOLEAN, ~Halts(f, final)
  PROVE  /\ Reading(f).next \in Filters /\ Reading(f).shown \in Seq(Piece)
         /\ Len(Reading(f).next.pending) < Len(f.pending)
<1> DEFINE p == f.pending
<1>1. /\ p \in Seq(Piece) /\ p # <<>> /\ Len(p) \in Nat /\ Len(p) >= 1
      /\ f.inside \in Insides /\ f.ticks \in Nat
  <2>1. p \in Seq(Piece) /\ Len(p) \in Nat /\ f.inside \in Insides /\ f.ticks \in Nat
    BY FilterIs
  <2>2. p # <<>>
    BY DEF Halts
  <2> HIDE DEF p
  <2>3. Len(p) >= 1
    BY <2>1, <2>2, EmptySeq
  <2> QED BY <2>1, <2>2, <2>3
<1>2. f.inside # "" => TagIndex(p, Closing(f.inside)) # 0
  BY DEF Halts
<1>2b. <<>> \in Seq(Piece) /\ 0 \in Nat
  BY EmptySeq
<1>2a. p = f.pending
  OBVIOUS
<1> HIDE DEF p
<1>3. SUFFICES ASSUME NEW n \in 1..Len(p), NEW inside \in Insides, NEW ticks \in Nat,
                      NEW shown \in Seq(Piece)
               PROVE  /\ Read(f, n, inside, ticks, shown).next \in Filters
                      /\ Read(f, n, inside, ticks, shown).shown \in Seq(Piece)
                      /\ Len(Read(f, n, inside, ticks, shown).next.pending) < Len(p)
  <2>1. SUFFICES \E n \in 1..Len(p), inside \in Insides, ticks \in Nat, shown \in Seq(Piece) :
                    Reading(f) = Read(f, n, inside, ticks, shown)
    <3>1. PICK n \in 1..Len(p), inside \in Insides, ticks \in Nat, shown \in Seq(Piece) :
                 Reading(f) = Read(f, n, inside, ticks, shown)
      BY <2>1
    <3> QED BY <3>1, <1>2a, <1>3
  <2>2. CASE f.inside # ""
    <3>1. TagIndex(p, Closing(f.inside)) \in 1..(Len(p) - 1)
      BY <1>1, <1>2, <2>2, TagIndexIs
    <3>2. TagIndex(p, Closing(f.inside)) + 1 \in 1..Len(p)
      BY <3>1, <1>1
    <3>3. Reading(f) = Read(f, TagIndex(p, Closing(f.inside)) + 1, "", f.ticks, <<>>)
      BY <1>2a, <2>2, ReadingBy
    <3> QED BY <3>2, <3>3, <1>1, <1>2b, InsidesAre
  <2>3. CASE f.inside = "" /\ p[1] = "tick"
    <3> DEFINE run == TickRun(p)
    <3>1. run \in 0..Len(p) /\ (run < Len(p) => p[run + 1] # "tick")
      BY <1>1, TickRunIs
    <3>2. Reading(f) = Read(f, run, "", Delimited(f.ticks, run), SubSeq(p, 1, run))
      BY <1>2a, <2>3, ReadingBy
    <3> HIDE DEF run
    <3>3. run # 0
      <4> SUFFICES ASSUME run = 0 PROVE FALSE
        OBVIOUS
      <4>1. run < Len(p) /\ run + 1 = 1
        BY <1>1
      <4>2. p[run + 1] # "tick"
        BY <3>1, <4>1
      <4> QED BY <4>1, <4>2, <2>3
    <3>4. run \in 1..Len(p) /\ SubSeq(p, 1, run) \in Seq(Piece) /\ Delimited(f.ticks, run) \in Nat
      BY <3>1, <3>3, <1>1 DEF Delimited
    <3> QED BY <3>2, <3>4, <1>1, <1>2b, InsidesAre
  <2>4. CASE f.inside = "" /\ p[1] # "tick"
    <3>1. CASE f.ticks = 0 /\ \E tag \in Opens : IsTag(p, Closing(tag))
      <4>1. Reading(f) = Read(f, 2, "", 0, <<>>)
        BY <2>4, <3>1, <1>2a, ReadingBy
      <4>2. 2 \in 1..Len(p)
        BY <3>1, <1>1 DEF IsTag
      <4> QED BY <4>1, <4>2, <1>1, <1>2b, InsidesAre
    <3>2. CASE ~(f.ticks = 0 /\ \E tag \in Opens : IsTag(p, Closing(tag))) /\ f.ticks = 0 /\ \E tag \in Opens : IsTag(p, tag)
      <4>1. Reading(f) = Read(f, 2, p[2], 0, <<>>)
        BY <2>4, <3>2, <1>2a, ReadingBy
      <4>2. 2 \in 1..Len(p) /\ p[2] \in Opens
        BY <3>2, <1>1 DEF IsTag
      <4> QED BY <4>1, <4>2, <1>1, <1>2b, InsidesAre
    <3>3. CASE /\ ~(f.ticks = 0 /\ \E tag \in Opens : IsTag(p, Closing(tag)))
               /\ ~(f.ticks = 0 /\ \E tag \in Opens : IsTag(p, tag))
      <4>1. Reading(f) = Read(f, 1, "", f.ticks, <<p[1]>>)
        BY <2>4, <3>3, <1>2a, ReadingBy
      <4>2. 1 \in 1..Len(p) /\ <<p[1]>> \in Seq(Piece)
        BY <1>1
      <4> QED BY <4>1, <4>2, <1>1, <1>2b, InsidesAre
    <3> QED BY <3>1, <3>2, <3>3
  <2> QED BY <2>2, <2>3, <2>4
<1>4. Drop(p, n) \in Seq(Piece) /\ Len(Drop(p, n)) = Len(p) - n
  BY <1>1, DropIs
<1>5. /\ Read(f, n, inside, ticks, shown).next = [pending |-> Drop(p, n), inside |-> inside, ticks |-> ticks]
      /\ Read(f, n, inside, ticks, shown).shown = shown
  BY <1>2a DEF Read
<1> QED BY <1>1, <1>4, <1>5 DEF Filters

\* What drain makes of f when g is what it makes of shorter texts.
Drained(g, f, final) ==
  IF Halts(f, final) THEN [filter |-> Kept(f, final), out |-> <<>>]
  ELSE LET rest == g[Reading(f).next]
       IN  [filter |-> rest.filter, out |-> Reading(f).shown \o rest.out]

Upto(n) == {f \in Filters : Len(f.pending) <= n}
Solves(g, n, final) == g = [f \in Upto(n) |-> Drained(g, f, final)]

\* Only what follows the reading counts.
LEMMA DrainedSame ==
  ASSUME NEW g, NEW h, NEW f, NEW final,
         ~Halts(f, final) => g[Reading(f).next] = h[Reading(f).next]
  PROVE  Drained(g, f, final) = Drained(h, f, final)
BY DEF Drained

\* A filter's text is as long as it is, and what is left after a reading shorter.
LEMMA UptoIs ==
  ASSUME NEW n \in Nat, NEW f \in Upto(n), NEW final \in BOOLEAN, ~Halts(f, final)
  PROVE  /\ f \in Filters /\ Reading(f).next \in Filters
         /\ Len(f.pending) \in Nat /\ Len(Reading(f).next.pending) \in Nat
         /\ Len(Reading(f).next.pending) < Len(f.pending)
         /\ Len(Reading(f).next.pending) < n
<1>1. f \in Filters /\ Len(f.pending) <= n
  BY DEF Upto
<1>2. Reading(f).next \in Filters /\ Len(Reading(f).next.pending) < Len(f.pending)
  BY <1>1, ReadingTyped
<1>3. Len(f.pending) \in Nat /\ Len(Reading(f).next.pending) \in Nat
  BY <1>1, <1>2, FilterIs
<1> QED BY <1>1, <1>2, <1>3

\* Two solutions agree where both are defined.
LEMMA SolutionsAgree ==
  ASSUME NEW final \in BOOLEAN, NEW n \in Nat, NEW m \in Nat, n <= m,
         NEW g, NEW h, Solves(g, n, final), Solves(h, m, final)
  PROVE  \A f \in Upto(n) : g[f] = h[f]
<1> DEFINE Bad == {k \in Nat : \E f \in Upto(n) : Len(f.pending) = k /\ g[f] # h[f]}
<1>0. \A f \in Upto(n) : f \in Upto(m) /\ Len(f.pending) \in Nat
  <2> SUFFICES ASSUME NEW f \in Upto(n) PROVE f \in Upto(m) /\ Len(f.pending) \in Nat
    OBVIOUS
  <2>1. f \in Filters /\ Len(f.pending) <= n
    BY DEF Upto
  <2>2. Len(f.pending) \in Nat
    BY <2>1, FilterIs
  <2>3. Len(f.pending) <= m
    BY <2>1, <2>2
  <2> QED BY <2>1, <2>2, <2>3 DEF Upto
<1>1. SUFFICES ASSUME Bad # {} PROVE FALSE
  BY <1>0
<1>2. PICK k \in Bad : \A j \in Bad : k <= j
  BY <1>1, LeastOf
<1>3. PICK f \in Upto(n) : Len(f.pending) = k /\ g[f] # h[f]
  BY <1>2
<1>4. g[f] = Drained(g, f, final)
  BY <1>3 DEF Solves
<1>5. h[f] = Drained(h, f, final)
  BY <1>0, <1>3 DEF Solves
<1>6. ~Halts(f, final) /\ g[Reading(f).next] # h[Reading(f).next]
  BY <1>3, <1>4, <1>5, DrainedSame
<1> DEFINE e == Reading(f).next
<1>7. e \in Filters /\ Len(e.pending) \in Nat /\ Len(e.pending) < k /\ Len(e.pending) < n
  BY <1>3, <1>6, UptoIs
<1>8. e \in Upto(n)
  BY <1>7 DEF Upto
<1>9. Len(e.pending) \in Bad
  BY <1>6, <1>7, <1>8
<1>10. k <= Len(e.pending) /\ k \in Nat
  BY <1>2, <1>9
<1> HIDE DEF e, Bad
<1> QED BY <1>7, <1>10

\* Up to every length there is one.
LEMMA SolutionsExist ==
  ASSUME NEW final \in BOOLEAN
  PROVE  \A n \in Nat : \E g : Solves(g, n, final)
<1> DEFINE None == {n \in Nat : ~\E g : Solves(g, n, final)}
<1>1. SUFFICES ASSUME None # {} PROVE FALSE
  OBVIOUS
<1>2. PICK m \in None : \A j \in None : m <= j
  BY <1>1, LeastOf
<1>3. m \in Nat
  BY <1>2
<1>4. \E g : m > 0 => Solves(g, m - 1, final)
  <2>1. CASE m > 0
    <3>1. m - 1 \in Nat /\ ~(m <= m - 1)
      BY <2>1, <1>3
    <3>2. m - 1 \notin None
      BY <3>1, <1>2
    <3> QED BY <3>1, <3>2
  <2>2. CASE ~(m > 0)
    BY <2>2
  <2> QED BY <2>1, <2>2
<1>5. PICK g : m > 0 => Solves(g, m - 1, final)
  BY <1>4
<1> DEFINE h == [f \in Upto(m) |-> Drained(g, f, final)]
<1>6. ASSUME NEW f \in Upto(m) PROVE Drained(g, f, final) = Drained(h, f, final)
  <2>1. SUFFICES ASSUME ~Halts(f, final) PROVE g[Reading(f).next] = h[Reading(f).next]
    BY DrainedSame
  <2> DEFINE e == Reading(f).next
  <2>2. e \in Filters /\ Len(e.pending) \in Nat /\ Len(e.pending) < m
    BY <2>1, <1>3, UptoIs
  <2> HIDE DEF e
  <2>3. m > 0 /\ Len(e.pending) <= m - 1 /\ Len(e.pending) <= m
    BY <2>2, <1>3
  <2>4. e \in Upto(m - 1) /\ e \in Upto(m)
    BY <2>2, <2>3 DEF Upto
  <2>5. g[e] = Drained(g, e, final)
    BY <1>5, <2>3, <2>4 DEF Solves
  <2>6. h[e] = Drained(g, e, final)
    BY <2>4
  <2>7. g[e] = h[e]
    BY <2>5, <2>6
  <2> QED BY <2>7 DEF e
<1>7. h = [f \in Upto(m) |-> Drained(h, f, final)]
  <2>1. \A f \in Upto(m) : Drained(g, f, final) = Drained(h, f, final)
    BY <1>6
  <2>2. [f \in Upto(m) |-> Drained(g, f, final)] = [f \in Upto(m) |-> Drained(h, f, final)]
    <3> HIDE DEF h
    <3> QED BY <2>1
  <2> QED BY <2>2
<1>8. Solves(h, m, final)
  <2> HIDE DEF h
  <2> QED BY <1>7 DEF Solves
<1> HIDE DEF h
<1> QED BY <1>2, <1>8

\* drain is what its recursion says.
LEMMA DrainIs ==
  ASSUME NEW final \in BOOLEAN, NEW f \in Filters
  PROVE  Drain(final)[f] = Drained(Drain(final), f, final)
<1> DEFINE At(n) == CHOOSE g : Solves(g, n, final)
           G == [e \in Filters |-> At(Len(e.pending))[e]]
<1>1. \A n \in Nat : Solves(At(n), n, final)
  BY SolutionsExist
<1>2. ASSUME NEW e \in Filters PROVE G[e] = Drained(G, e, final)
  <2> DEFINE n == Len(e.pending)
             g == At(n)
  <2>1. n \in Nat /\ e \in Upto(n)
    BY FilterIs DEF Upto
  <2>2. Solves(g, n, final)
    BY <2>1, <1>1
  <2>3. G[e] = g[e]
    OBVIOUS
  <2>4. g[e] = Drained(g, e, final)
    <3> HIDE DEF g, n
    <3> QED BY <2>1, <2>2 DEF Solves
  <2>5. Drained(g, e, final) = Drained(G, e, final)
    <3>1. SUFFICES ASSUME ~Halts(e, final) PROVE g[Reading(e).next] = G[Reading(e).next]
      <4> HIDE DEF g, G
      <4> QED BY DrainedSame
    <3> DEFINE d == Reading(e).next
               m == Len(d.pending)
    <3>2. d \in Filters /\ m \in Nat /\ m < n
      <4> HIDE DEF n
      <4>1. Reading(e).next \in Filters /\ Len(Reading(e).next.pending) \in Nat /\ Len(Reading(e).next.pending) < n
        BY <2>1, <3>1, UptoIs
      <4> QED BY <4>1
    <3>3. d \in Upto(m) /\ m <= n
      BY <2>1, <3>2 DEF Upto
    <3>4. Solves(At(m), m, final)
      BY <1>1, <3>2
    <3>5. G[d] = At(m)[d]
      BY <3>2
    <3> HIDE DEF n, m, d, g, At, G
    <3>6. At(m)[d] = g[d]
      BY <2>1, <2>2, <3>2, <3>3, <3>4, SolutionsAgree
    <3>7. g[d] = G[d]
      BY <3>5, <3>6
    <3> QED BY <3>7 DEF d
  <2> HIDE DEF G, g
  <2> QED BY <2>3, <2>4, <2>5
<1>3. G = [e \in Filters |-> Drained(G, e, final)]
  <2>1. G = [e \in Filters |-> G[e]]
    OBVIOUS
  <2> HIDE DEF G
  <2>2. [e \in Filters |-> G[e]] = [e \in Filters |-> Drained(G, e, final)]
    BY <1>2
  <2> QED BY <2>1, <2>2
<1> HIDE DEF G
<1>4. Drain(final) = [e \in Filters |-> Drained(Drain(final), e, final)]
  BY <1>3 DEF Drain, Drained
<1> QED BY <1>4

\* drain ends or reads on.
LEMMA DrainBy ==
  ASSUME NEW final \in BOOLEAN, NEW f \in Filters
  PROVE  /\ Halts(f, final) => Drain(final)[f].filter = Kept(f, final) /\ Drain(final)[f].out = <<>>
         /\ ~Halts(f, final) =>
              /\ Drain(final)[f].filter = Drain(final)[Reading(f).next].filter
              /\ Drain(final)[f].out = Reading(f).shown \o Drain(final)[Reading(f).next].out
<1> DEFINE d == Drain(final)[f]
           rest == Drain(final)[Reading(f).next]
<1>1. d = IF Halts(f, final) THEN [filter |-> Kept(f, final), out |-> <<>>]
          ELSE [filter |-> rest.filter, out |-> Reading(f).shown \o rest.out]
  BY DrainIs DEF Drained
<1> HIDE DEF d, rest
<1>2. CASE Halts(f, final)
  <2>1. d = [filter |-> Kept(f, final), out |-> <<>>]
    BY <1>1, <1>2
  <2> QED BY <2>1, <1>2 DEF d
<1>3. CASE ~Halts(f, final)
  <2>1. d = [filter |-> rest.filter, out |-> Reading(f).shown \o rest.out]
    BY <1>1, <1>3
  <2>2. d.filter = rest.filter /\ d.out = Reading(f).shown \o rest.out
    BY <2>1
  <2> QED BY <2>2, <1>3 DEF d, rest
<1> QED BY <1>2, <1>3

\* What stays pending is a filter's.
LEMMA KeptTyped ==
  ASSUME NEW f \in Filters, NEW final \in BOOLEAN
  PROVE  Kept(f, final) \in Filters
<1>1. CASE f.inside = "" \/ f.pending = <<>>
  BY <1>1 DEF Kept
<1>2. CASE ~(f.inside = "" \/ f.pending = <<>>)
  <2> DEFINE p == f.pending
  <2>1. p \in Seq(Piece) /\ p # <<>>
    BY <1>2, FilterIs
  <2>2. <<Last(p)>> \in Seq(Piece) /\ <<>> \in Seq(Piece)
    <3> HIDE DEF p
    <3>1. Len(p) \in 1..Len(p)
      BY <2>1, EmptySeq
    <3>2. p[Len(p)] \in Piece
      BY <2>1, <3>1, ElementOfSeq
    <3> QED BY <3>2, EmptySeq DEF Last
  <2>3. Kept(f, final) \in {[f EXCEPT !.pending = <<>>, !.inside = ""], [f EXCEPT !.pending = <<Last(p)>>]}
    BY <1>2 DEF Kept
  <2> HIDE DEF p
  <2>4. [f EXCEPT !.pending = <<>>, !.inside = ""] \in Filters
    BY <2>2, InsidesAre DEF Filters
  <2>5. [f EXCEPT !.pending = <<Last(p)>>] \in Filters
    BY <2>2 DEF Filters
  <2> QED BY <2>3, <2>4, <2>5
<1> QED BY <1>1, <1>2

\* drain keeps a filter and lets pieces through.
LEMMA DrainTyped ==
  ASSUME NEW final \in BOOLEAN
  PROVE  \A f \in Filters : Drain(final)[f].filter \in Filters /\ Drain(final)[f].out \in Seq(Piece)
<1> DEFINE D == Drain(final)
           Typed(f) == D[f].filter \in Filters /\ D[f].out \in Seq(Piece)
           Bad == {k \in Nat : \E f \in Filters : Len(f.pending) = k /\ ~Typed(f)}
<1>1. SUFFICES ASSUME Bad # {} PROVE FALSE
  BY FilterIs
<1>2. PICK k \in Bad : \A j \in Bad : k <= j
  BY <1>1, LeastOf
<1>3. PICK f \in Filters : Len(f.pending) = k /\ ~Typed(f)
  BY <1>2
<1>4. /\ Halts(f, final) => D[f].filter = Kept(f, final) /\ D[f].out = <<>>
      /\ ~Halts(f, final) =>
           D[f].filter = D[Reading(f).next].filter /\ D[f].out = Reading(f).shown \o D[Reading(f).next].out
  BY DrainBy
<1> HIDE DEF D
<1>5. CASE Halts(f, final)
  <2>1. D[f].filter = Kept(f, final) /\ D[f].out = <<>>
    BY <1>4, <1>5
  <2>2. Typed(f)
    BY <2>1, KeptTyped, EmptySeq
  <2> QED BY <2>2, <1>3
<1>6. CASE ~Halts(f, final)
  <2> DEFINE e == Reading(f).next
  <2>1. e \in Filters /\ Reading(f).shown \in Seq(Piece) /\ Len(e.pending) < k /\ Len(e.pending) \in Nat
    <3>1. Reading(f).next \in Filters /\ Reading(f).shown \in Seq(Piece) /\ Len(Reading(f).next.pending) < Len(f.pending)
      BY <1>6, ReadingTyped
    <3>2. e \in Filters /\ Reading(f).shown \in Seq(Piece) /\ Len(e.pending) < k
      BY <3>1, <1>3
    <3>3. Len(e.pending) \in Nat
      <4> HIDE DEF e
      <4> QED BY <3>2, FilterIs
    <3> QED BY <3>2, <3>3
  <2>2. D[f].filter = D[e].filter /\ D[f].out = Reading(f).shown \o D[e].out
    BY <1>4, <1>6
  <2>3. Typed(e)
    <3> SUFFICES ASSUME ~Typed(e) PROVE FALSE
      OBVIOUS
    <3>1. Len(e.pending) \in Bad
      BY <2>1
    <3>2. k <= Len(e.pending) /\ k \in Nat
      BY <3>1, <1>2
    <3> HIDE DEF e
    <3> QED BY <2>1, <3>2
  <2> DEFINE s == Reading(f).shown
             t == D[e].out
  <2>4. s \in Seq(Piece) /\ t \in Seq(Piece)
    BY <2>1, <2>3
  <2>5. s \o t \in Seq(Piece)
    <3> HIDE DEF s, t
    <3> QED BY <2>4
  <2> QED BY <2>2, <2>3, <2>5, <1>3
<1> QED BY <1>5, <1>6

\* A tag inside of the text that is there stays where it is when more arrives.
LEMMA TagIndexMore ==
  ASSUME NEW p \in Seq(Piece), NEW b \in Seq(Piece), NEW name, TagIndex(p, name) # 0
  PROVE  TagIndex(p \o b, name) = TagIndex(p, name)
<1> DEFINE n == TagIndex(p, name)
           u == p \o b
<1>1. n \in 1..(Len(p) - 1) /\ TagAt(p, name, n) /\ \A i \in Nat : TagAt(p, name, i) => n <= i
  BY TagIndexIs
<1>2. u \in Seq(Piece) /\ Len(u) = Len(p) + Len(b) /\ \A i \in 1..Len(p) : u[i] = p[i]
  BY Joined
<1>3. Len(p) \in Nat /\ Len(b) \in Nat
  OBVIOUS
<1> HIDE DEF n, u
<1>4. n \in Nat /\ TagAt(u, name, n)
  <2>1. n \in 1..Len(p) /\ n + 1 \in 1..Len(p) /\ n \in 1..(Len(u) - 1)
    BY <1>1, <1>2, <1>3
  <2> QED BY <2>1, <1>1, <1>2 DEF TagAt
<1>5. ASSUME NEW i \in Nat, TagAt(u, name, i) PROVE n <= i
  <2> SUFFICES ASSUME i < n PROVE FALSE
    BY <1>1
  <2>1. i \in 1..(Len(u) - 1) /\ u[i] = "lt" /\ u[i + 1] = name
    BY <1>5 DEF TagAt
  <2>2. i \in 1..Len(p) /\ i + 1 \in 1..Len(p) /\ i \in 1..(Len(p) - 1)
    BY <1>1, <1>3, <2>1
  <2>3. TagAt(p, name, i)
    BY <1>2, <2>1, <2>2 DEF TagAt
  <2> QED BY <2>3, <1>1
<1>6. TagIndex(u, name) = n
  BY <1>2, <1>4, <1>5, TagIndexOnly
<1> QED BY <1>6 DEF n, u

\* Nor does a run of ticks that has ended grow.
LEMMA TickRunMore ==
  ASSUME NEW p \in Seq(Piece), NEW b \in Seq(Piece), TickRun(p) # Len(p)
  PROVE  TickRun(p \o b) = TickRun(p)
<1> DEFINE n == TickRun(p)
           u == p \o b
<1>1. n \in 0..Len(p) /\ (\A i \in 1..n : p[i] = "tick") /\ (n < Len(p) => p[n + 1] # "tick")
  BY TickRunIs
<1>2. u \in Seq(Piece) /\ Len(u) = Len(p) + Len(b) /\ \A i \in 1..Len(p) : u[i] = p[i]
  BY Joined
<1>3. Len(p) \in Nat /\ Len(b) \in Nat
  OBVIOUS
<1>4. n # Len(p)
  OBVIOUS
<1> HIDE DEF n, u
<1>5. n < Len(p) /\ n + 1 \in 1..Len(p) /\ n \in 0..Len(u) /\ \A i \in 1..n : i \in 1..Len(p)
  BY <1>1, <1>2, <1>3, <1>4
<1>6. \A i \in 1..n : u[i] = "tick"
  BY <1>1, <1>2, <1>5
<1>7. u[n + 1] # "tick"
  BY <1>1, <1>2, <1>5
<1>8. TickRun(u) = n
  BY <1>2, <1>5, <1>6, <1>7, TickRunOnly
<1> QED BY <1>8 DEF n, u

\* What is read off the beginning is the same.
LEMMA SubSeqMore ==
  ASSUME NEW p \in Seq(Piece), NEW b \in Seq(Piece), NEW n \in 0..Len(p)
  PROVE  SubSeq(p \o b, 1, n) = SubSeq(p, 1, n)
<1> DEFINE u == p \o b
           l == SubSeq(u, 1, n)
           r == SubSeq(p, 1, n)
<1>1. u \in Seq(Piece) /\ Len(u) = Len(p) + Len(b) /\ \A i \in 1..Len(p) : u[i] = p[i]
  BY Joined
<1>2. Len(p) \in Nat /\ Len(b) \in Nat /\ n \in Nat /\ n <= Len(p)
  OBVIOUS
<1> HIDE DEF u
<1>3. r \in Seq(Piece) /\ Len(r) = n /\ \A i \in 1..n : r[i] = p[i]
  BY <1>2
<1>4. l \in Seq(Piece) /\ Len(l) = n /\ \A i \in 1..n : l[i] = u[i]
  BY <1>1, <1>2
<1> HIDE DEF l, r
<1>5. \A i \in 1..n : l[i] = r[i]
  <2>1. \A i \in 1..n : i \in 1..Len(p)
    BY <1>2
  <2> QED BY <2>1, <1>1, <1>3, <1>4
<1>6. l = r
  BY <1>3, <1>4, <1>5, SeqEqual
<1> QED BY <1>6 DEF l, r, u

\* A tag that may stand at the beginning needs two pieces.
LEMMA IsTagMore ==
  ASSUME NEW p \in Seq(Piece), NEW b \in Seq(Piece), NEW name, p # <<>>, p # <<"lt">>
  PROVE  /\ IsTag(p \o b, name) <=> IsTag(p, name)
         /\ IsTag(p, name) => (p \o b)[2] = p[2]
<1> DEFINE u == p \o b
<1>1. u \in Seq(Piece) /\ Len(u) = Len(p) + Len(b) /\ \A i \in 1..Len(p) : u[i] = p[i]
  BY Joined
<1>2. Len(p) = 1 \/ Len(p) >= 2
  <2>1. Len(p) \in Nat \ {0}
    BY EmptySeq
  <2>2. \A n \in Nat \ {0} : n = 1 \/ n >= 2
    OBVIOUS
  <2> QED BY <2>1, <2>2
<1> HIDE DEF u
<1>3. CASE Len(p) >= 2
  <2>1. u[1] = p[1] /\ u[2] = p[2] /\ Len(u) >= 2
    <3>1. Len(p) \in Nat /\ Len(b) \in Nat
      OBVIOUS
    <3> QED BY <3>1, <1>1, <1>3
  <2>2. (IsTag(u, name) <=> IsTag(p, name)) /\ u[2] = p[2]
    BY <1>3, <2>1 DEF IsTag
  <2> QED BY <2>2 DEF u
<1>4. CASE Len(p) = 1
  <2>1. p[1] # "lt"
    <3> SUFFICES ASSUME p[1] = "lt" PROVE FALSE
      OBVIOUS
    <3> DEFINE one == <<"lt">>
    <3>1. one \in Seq(Piece) /\ Len(one) = 1 /\ one[1] = "lt"
      BY DEF Piece
    <3> HIDE DEF one
    <3>2. \A k \in 1..Len(p) : p[k] = one[k]
      BY <1>4, <3>1
    <3>3. p = one
      BY <1>4, <3>1, <3>2, SameText
    <3> QED BY <3>3 DEF one
  <2>2. u[1] = p[1]
    BY <1>1, <1>4
  <2>3. ~IsTag(u, name) /\ ~IsTag(p, name)
    BY <2>1, <2>2 DEF IsTag
  <2> QED BY <2>3 DEF u
<1> QED BY <1>2, <1>3, <1>4

\* What an iteration reads without waiting, it reads whatever arrives later.
LEMMA ReadingMore ==
  ASSUME NEW f \in Filters, NEW b \in Seq(Piece), NEW final \in BOOLEAN, ~Halts(f, FALSE)
  PROVE  /\ ~Halts(More(f, b), final)
         /\ Reading(More(f, b)).next = More(Reading(f).next, b)
         /\ Reading(More(f, b)).shown = Reading(f).shown
<1> DEFINE p == f.pending
           h == More(f, b)
           u == p \o b
<1>1. p \in Seq(Piece) /\ Len(p) \in Nat /\ f.ticks \in Nat
  BY FilterIs
<1>2. h.pending = u /\ h.inside = f.inside /\ h.ticks = f.ticks
  BY MoreIs
<1>3. p = f.pending /\ u = p \o b
  OBVIOUS
<1>4. /\ p # <<>> /\ (f.inside # "" => TagIndex(p, Closing(f.inside)) # 0)
      /\ f.inside = "" /\ p[1] = "tick" => TickRun(p) # Len(p)
      /\ f.inside = "" /\ f.ticks = 0 => p # <<"lt">>
  BY DEF Halts
<1> HIDE DEF p, u, h
<1>5. u \in Seq(Piece) /\ Len(u) = Len(p) + Len(b) /\ \A i \in 1..Len(p) : u[i] = p[i]
  <2>1. p \in Seq(Piece)
    BY <1>1
  <2> QED BY <2>1, <1>3, Joined
<1>6. Len(p) >= 1 /\ Len(b) \in Nat
  <2>1. p \in Seq(Piece) /\ p # <<>>
    BY <1>1, <1>4
  <2>2. Len(p) \in Nat \ {0}
    BY <2>1, EmptySeq
  <2> QED BY <2>2
<1>7. u[1] = p[1] /\ Len(u) >= 1 /\ u # <<>>
  <2>1. u[1] = p[1] /\ Len(u) >= 1
    BY <1>1, <1>5, <1>6
  <2> QED BY <2>1, EmptySeq
<1>8. SUFFICES /\ ~Halts(h, final)
               /\ \E n \in 0..Len(p) : \E inside, ticks, shown :
                    /\ Reading(f) = Read(f, n, inside, ticks, shown)
                    /\ Reading(h) = Read(h, n, inside, ticks, shown)
  <2>1. PICK n \in 0..Len(p) : \E inside, ticks, shown :
                    /\ Reading(f) = Read(f, n, inside, ticks, shown)
                    /\ Reading(h) = Read(h, n, inside, ticks, shown)
    BY <1>8
  <2>2. PICK inside, ticks, shown :
                    /\ Reading(f) = Read(f, n, inside, ticks, shown)
                    /\ Reading(h) = Read(h, n, inside, ticks, shown)
    BY <2>1
  <2>3. Drop(u, n) = Drop(p, n) \o b
    <3>1. p \in Seq(Piece) /\ n \in 0..Len(p)
      BY <1>1
    <3> QED BY <3>1, <1>3, DropJoined
  <2>4. /\ Reading(f).next = [pending |-> Drop(p, n), inside |-> inside, ticks |-> ticks]
        /\ Reading(h).next = [pending |-> Drop(u, n), inside |-> inside, ticks |-> ticks]
        /\ Reading(f).shown = shown /\ Reading(h).shown = shown
    BY <2>2, <1>2, <1>3 DEF Read
  <2>5. More(Reading(f).next, b) = [pending |-> Drop(p, n) \o b, inside |-> inside, ticks |-> ticks]
    BY <2>4 DEF More
  <2>6. Reading(h).next = More(Reading(f).next, b) /\ Reading(h).shown = Reading(f).shown
    BY <2>3, <2>4, <2>5
  <2> QED BY <1>8, <2>6 DEF h
<1>9. CASE f.inside # ""
  <2> DEFINE t == TagIndex(p, Closing(f.inside))
  <2>1. TagIndex(u, Closing(h.inside)) = t /\ t # 0
    <3>1. p \in Seq(Piece) /\ TagIndex(p, Closing(f.inside)) # 0
      BY <1>1, <1>4, <1>9
    <3> QED BY <3>1, <1>2, <1>3, TagIndexMore
  <2>2. t \in 1..(Len(p) - 1)
    BY <1>1, <2>1, TagIndexIs
  <2>3. t + 1 \in 0..Len(p)
    <3> HIDE DEF t
    <3> QED BY <2>2, <1>1
  <2>4. ~Halts(h, final)
    BY <1>2, <1>7, <1>9, <2>1 DEF Halts
  <2>5. Reading(f) = Read(f, t + 1, "", f.ticks, <<>>)
    BY <1>3, <1>9, ReadingBy
  <2>6. Reading(h) = Read(h, t + 1, "", f.ticks, <<>>)
    BY <1>2, <1>9, <2>1, ReadingBy
  <2> HIDE DEF t
  <2> QED BY <2>3, <2>4, <2>5, <2>6
<1>10. CASE f.inside = "" /\ p[1] = "tick"
  <2> DEFINE run == TickRun(p)
  <2>1. run # Len(p) /\ run \in 0..Len(p)
    BY <1>1, <1>4, <1>10, TickRunIs
  <2>2. TickRun(u) = run
    <3>1. p \in Seq(Piece) /\ TickRun(p) # Len(p)
      BY <1>1, <2>1
    <3> QED BY <3>1, <1>3, TickRunMore
  <2>3. SubSeq(u, 1, run) = SubSeq(p, 1, run)
    <3> HIDE DEF run
    <3>1. p \in Seq(Piece) /\ run \in 0..Len(p)
      BY <1>1, <2>1
    <3> QED BY <3>1, <1>3, SubSeqMore
  <2>4. Reading(f) = Read(f, run, "", Delimited(f.ticks, run), SubSeq(p, 1, run))
    BY <1>3, <1>10, ReadingBy
  <2>5. Reading(h) = Read(h, run, "", Delimited(f.ticks, run), SubSeq(p, 1, run))
    BY <1>2, <1>7, <1>10, <2>2, <2>3, ReadingBy
  <2>6. TickRun(u) # Len(u)
    <3> HIDE DEF run
    <3> QED BY <2>1, <2>2, <1>1, <1>5, <1>6
  <2>7. u # <<"lt">>
    <3> SUFFICES ASSUME u = <<"lt">> PROVE FALSE
      OBVIOUS
    <3>1. u[1] = "lt"
      OBVIOUS
    <3> QED BY <3>1, <1>7, <1>10
  <2>8. ~Halts(h, final)
    BY <1>2, <1>7, <1>10, <2>6, <2>7 DEF Halts
  <2> HIDE DEF run
  <2> QED BY <2>1, <2>4, <2>5, <2>8
<1>11. CASE f.inside = "" /\ p[1] # "tick"
  <2>1. ASSUME NEW name, f.ticks = 0
        PROVE  (IsTag(u, name) <=> IsTag(p, name)) /\ (IsTag(p, name) => u[2] = p[2])
    <3>1. p \in Seq(Piece) /\ p # <<>> /\ p # <<"lt">>
      BY <1>1, <1>4, <1>11, <2>1
    <3> QED BY <3>1, <1>3, IsTagMore
  <2>2. ~Halts(h, final)
    <3>1. f.ticks = 0 => u # <<"lt">>
      <4> SUFFICES ASSUME f.ticks = 0, u = <<"lt">> PROVE FALSE
        OBVIOUS
      <4>1. Len(u) = 1
        OBVIOUS
      <4>2. Len(p) = 1 /\ Len(b) = 0
        BY <4>1, <1>1, <1>5, <1>6
      <4>3. b = <<>>
        BY <4>2, EmptySeq
      <4>4. u = p
        <5>1. p \in Seq(Piece)
          BY <1>1
        <5> QED BY <5>1, <4>3, <1>3
      <4> QED BY <4>4, <1>4, <1>11
    <3> QED BY <3>1, <1>2, <1>7, <1>11 DEF Halts
  <2>3. CASE f.ticks = 0 /\ \E tag \in Opens : IsTag(p, Closing(tag))
    <3>1. Reading(f) = Read(f, 2, "", 0, <<>>)
      BY <1>3, <1>11, <2>3, ReadingBy
    <3>2. \E tag \in Opens : IsTag(u, Closing(tag))
      BY <2>1, <2>3
    <3>3. Reading(h) = Read(h, 2, "", 0, <<>>)
      BY <1>2, <1>7, <1>11, <2>3, <3>2, ReadingBy
    <3>4. Len(p) >= 2
      BY <2>3 DEF IsTag
    <3>5. 2 \in 0..Len(p)
      BY <3>4, <1>1
    <3> QED BY <2>2, <3>1, <3>3, <3>5
  <2>4. CASE ~(f.ticks = 0 /\ \E tag \in Opens : IsTag(p, Closing(tag))) /\ f.ticks = 0 /\ \E tag \in Opens : IsTag(p, tag)
    <3>1. Reading(f) = Read(f, 2, p[2], 0, <<>>)
      BY <1>3, <1>11, <2>4, ReadingBy
    <3>2. (\E tag \in Opens : IsTag(u, tag)) /\ (~\E tag \in Opens : IsTag(u, Closing(tag))) /\ u[2] = p[2]
      BY <2>1, <2>4
    <3>3. Reading(h) = Read(h, 2, p[2], 0, <<>>)
      BY <1>2, <1>7, <1>11, <2>4, <3>2, ReadingBy
    <3>4. Len(p) >= 2
      BY <2>4 DEF IsTag
    <3>5. 2 \in 0..Len(p)
      BY <3>4, <1>1
    <3> QED BY <2>2, <3>1, <3>3, <3>5
  <2>5. CASE /\ ~(f.ticks = 0 /\ \E tag \in Opens : IsTag(p, Closing(tag)))
             /\ ~(f.ticks = 0 /\ \E tag \in Opens : IsTag(p, tag))
    <3>1. Reading(f) = Read(f, 1, "", f.ticks, <<p[1]>>)
      BY <1>3, <1>11, <2>5, ReadingBy
    <3>2. /\ ~(f.ticks = 0 /\ \E tag \in Opens : IsTag(u, Closing(tag)))
          /\ ~(f.ticks = 0 /\ \E tag \in Opens : IsTag(u, tag))
      BY <2>1, <2>5
    <3>3. Reading(h) = Read(h, 1, "", f.ticks, <<p[1]>>)
      <4>1. Reading(h) = Read(h, 1, "", h.ticks, <<h.pending[1]>>)
        <5>1. h.inside = "" /\ h.pending[1] # "tick"
          BY <1>2, <1>7, <1>11
        <5>2. /\ ~(h.ticks = 0 /\ \E tag \in Opens : IsTag(h.pending, Closing(tag)))
              /\ ~(h.ticks = 0 /\ \E tag \in Opens : IsTag(h.pending, tag))
          BY <3>2, <1>2
        <5> QED BY <5>1, <5>2, ReadingBy
      <4> QED BY <4>1, <1>2, <1>7
    <3>5. 1 \in 0..Len(p)
      BY <1>6, <1>1
    <3> QED BY <2>2, <3>1, <3>3, <3>5
  <2> QED BY <2>3, <2>4, <2>5
<1> QED BY <1>9, <1>10, <1>11

\* A tag whose first piece may be the last one that is there is found in the
\* whole text where it is found behind what was dropped.
LEMMA LateTag ==
  ASSUME NEW p \in Seq(Piece), NEW b \in Seq(Piece), NEW name, p # <<>>, TagIndex(p, name) = 0
  PROVE  LET u == p \o b
             v == <<Last(p)>> \o b
         IN  /\ Last(p) \in Piece /\ u # <<>> /\ v # <<>> /\ Last(u) = Last(v)
             /\ TagIndex(u, name) = 0 <=> TagIndex(v, name) = 0
             /\ TagIndex(u, name) # 0 => Drop(u, TagIndex(u, name) + 1) = Drop(v, TagIndex(v, name) + 1)
<1> DEFINE one == <<Last(p)>>
           u == p \o b
           v == one \o b
           L == Len(p)
<1>1. L \in Nat /\ L >= 1 /\ Len(b) \in Nat
  <2>1. L \in Nat \ {0}
    BY EmptySeq
  <2>2. \A n \in Nat \ {0} : n \in Nat /\ n >= 1
    OBVIOUS
  <2> QED BY <2>1, <2>2
<1>2. Last(p) = p[L] /\ p[L] \in Piece
  <2>1. L \in 1..Len(p)
    BY <1>1
  <2> QED BY <2>1, ElementOfSeq DEF Last
<1>3. one \in Seq(Piece) /\ Len(one) = 1 /\ one[1] = p[L]
  BY <1>2
<1>4. u \in Seq(Piece) /\ Len(u) = L + Len(b) /\ (\A i \in 1..L : u[i] = p[i]) /\ \A k \in 1..Len(b) : u[L + k] = b[k]
  BY Joined
<1> HIDE DEF one
<1>5. v \in Seq(Piece) /\ Len(v) = 1 + Len(b) /\ v[1] = p[L] /\ \A k \in 1..Len(b) : v[1 + k] = b[k]
  <2>1. one \in Seq(Piece)
    BY <1>3
  <2>2. /\ v \in Seq(Piece) /\ Len(v) = Len(one) + Len(b)
        /\ (\A i \in 1..Len(one) : v[i] = one[i])
        /\ \A k \in 1..Len(b) : v[Len(one) + k] = b[k]
    BY <2>1, Joined
  <2> HIDE DEF v
  <2> QED BY <2>2, <1>3
<1>6. \A n \in Nat : ~TagAt(p, name, n)
  <2>1. ~(TagIndex(p, name) \in 1..(Len(p) - 1))
    BY <1>1
  <2> QED BY <2>1, TagIndexIs
<1>6a. L = Len(p)
  OBVIOUS
<1> HIDE DEF u, v, L
<1>7. ASSUME NEW i \in 1..Len(v) PROVE i + L - 1 \in 1..Len(u) /\ u[i + L - 1] = v[i]
  <2>1. CASE i = 1
    BY <2>1, <1>1, <1>4, <1>5
  <2>2. CASE i # 1
    <3> DEFINE k == i - 1
    <3>1. k \in 1..Len(b) /\ i = 1 + k /\ i + L - 1 = L + k /\ L + k \in 1..Len(u)
      BY <2>2, <1>1, <1>4, <1>5
    <3> HIDE DEF k
    <3>2. u[L + k] = b[k] /\ v[1 + k] = b[k]
      BY <3>1, <1>4, <1>5
    <3> QED BY <3>1, <3>2
  <2> QED BY <2>1, <2>2
<1>8. ASSUME NEW i \in Nat, TagAt(v, name, i)
      PROVE  i + L - 1 \in Nat /\ i >= 1 /\ TagAt(u, name, i + L - 1)
  <2>1. i \in 1..Len(v) /\ i + 1 \in 1..Len(v) /\ i \in 1..(Len(v) - 1) /\ v[i] = "lt" /\ v[i + 1] = name
    <3>1. i \in 1..(Len(v) - 1) /\ v[i] = "lt" /\ v[i + 1] = name
      BY <1>8 DEF TagAt
    <3>2. i \in 1..Len(v) /\ i + 1 \in 1..Len(v)
      BY <3>1, <1>1, <1>5
    <3> QED BY <3>1, <3>2
  <2>2. u[i + L - 1] = "lt" /\ u[(i + 1) + L - 1] = name
    BY <2>1, <1>7
  <2>3. i + L - 1 \in 1..(Len(u) - 1) /\ (i + 1) + L - 1 = (i + L - 1) + 1
    BY <2>1, <1>1, <1>4, <1>5
  <2>4. TagAt(u, name, i + L - 1)
    BY <2>2, <2>3 DEF TagAt
  <2> QED BY <2>1, <2>3, <2>4
<1>9. ASSUME NEW j \in Nat, TagAt(u, name, j)
      PROVE  j >= L /\ j - L + 1 \in Nat /\ TagAt(v, name, j - L + 1)
  <2>1. j \in 1..(Len(u) - 1) /\ u[j] = "lt" /\ u[j + 1] = name
    BY <1>9 DEF TagAt
  <2>2. j >= L
    <3> SUFFICES ASSUME j < L PROVE FALSE
      BY <1>1
    <3>1. j \in 1..L /\ j + 1 \in 1..L /\ j \in 1..(L - 1)
      BY <2>1, <1>1
    <3>2. p[j] = "lt" /\ p[j + 1] = name
      BY <2>1, <3>1, <1>4
    <3>3. TagAt(p, name, j)
      BY <3>1, <3>2, <1>6a DEF TagAt
    <3> QED BY <3>3, <1>6
  <2> DEFINE i == j - L + 1
  <2>3. i \in 1..Len(v) /\ i + 1 \in 1..Len(v) /\ i \in 1..(Len(v) - 1) /\ i + L - 1 = j /\ (i + 1) + L - 1 = j + 1
    BY <2>1, <2>2, <1>1, <1>4, <1>5
  <2> HIDE DEF i
  <2>4. v[i] = "lt" /\ v[i + 1] = name
    BY <2>1, <2>3, <1>7
  <2>5. TagAt(v, name, i) /\ i \in Nat
    BY <2>3, <2>4 DEF TagAt
  <2> QED BY <2>2, <2>5 DEF i
<1>10. u # <<>> /\ v # <<>> /\ Last(u) = Last(v)
  <2>1. Len(u) # 0 /\ Len(v) # 0 /\ Len(v) \in 1..Len(v) /\ Len(v) + L - 1 = Len(u)
    BY <1>1, <1>4, <1>5
  <2>2. u[Len(u)] = v[Len(v)]
    BY <2>1, <1>7
  <2> QED BY <2>1, <2>2, EmptySeq DEF Last
<1>11. CASE TagIndex(v, name) = 0
  <2>1. \A i \in Nat : ~TagAt(v, name, i)
    <3>1. ~(TagIndex(v, name) \in 1..(Len(v) - 1))
      BY <1>11, <1>1, <1>5
    <3>2. v \in Seq(Piece)
      BY <1>5
    <3> QED BY <3>1, <3>2, TagIndexIs
  <2>2. \A j \in Nat : ~TagAt(u, name, j)
    BY <2>1, <1>9
  <2>3. TagIndex(u, name) = 0
    <3>1. u \in Seq(Piece)
      BY <1>4
    <3>2. ~(TagIndex(u, name) \in 1..(Len(u) - 1) /\ TagAt(u, name, TagIndex(u, name)))
      BY <2>2, <1>1, <1>4
    <3> QED BY <3>1, <3>2, TagIndexIs
  <2> QED BY <2>3, <1>2, <1>10, <1>11 DEF u, v, one
<1>12. CASE TagIndex(v, name) # 0
  <2> DEFINE n == TagIndex(v, name)
             m == n + L - 1
  <2>1. n \in 1..(Len(v) - 1) /\ TagAt(v, name, n) /\ \A i \in Nat : TagAt(v, name, i) => n <= i
    <3>1. v \in Seq(Piece)
      BY <1>5
    <3> QED BY <3>1, <1>12, TagIndexIs
  <2> HIDE DEF n
  <2>2. m \in Nat /\ TagAt(u, name, m) /\ n \in Nat /\ n >= 1
    BY <2>1, <1>8
  <2>3. ASSUME NEW j \in Nat, TagAt(u, name, j) PROVE m <= j
    <3>1. j >= L /\ n <= j - L + 1
      BY <2>3, <2>1, <1>9
    <3> QED BY <3>1, <2>2, <1>1
  <2>4. TagIndex(u, name) = m
    <3>1. u \in Seq(Piece)
      BY <1>4
    <3> HIDE DEF m
    <3> QED BY <3>1, <2>2, <2>3, TagIndexOnly
  <2>5. m # 0 /\ n # 0 /\ m + 1 \in 0..Len(u) /\ n + 1 \in 0..Len(v) /\ Len(u) - (m + 1) = Len(v) - (n + 1)
    BY <2>1, <2>2, <1>1, <1>4, <1>5
  <2>6. Drop(u, m + 1) = Drop(v, n + 1)
    <3> DEFINE l == Drop(u, m + 1)
               r == Drop(v, n + 1)
    <3>1. l \in Seq(Piece) /\ Len(l) = Len(u) - (m + 1) /\ \A k \in 1..(Len(u) - (m + 1)) : l[k] = u[(m + 1) + k]
      <4>1. u \in Seq(Piece) /\ m + 1 \in 0..Len(u)
        BY <1>4, <2>5
      <4> HIDE DEF m
      <4> QED BY <4>1, DropIs
    <3>2. r \in Seq(Piece) /\ Len(r) = Len(v) - (n + 1) /\ \A k \in 1..(Len(v) - (n + 1)) : r[k] = v[(n + 1) + k]
      <4>1. v \in Seq(Piece) /\ n + 1 \in 0..Len(v)
        BY <1>5, <2>5
      <4> QED BY <4>1, DropIs
    <3> HIDE DEF l, r
    <3>3. \A k \in 1..Len(l) : l[k] = r[k]
      <4> SUFFICES ASSUME NEW k \in 1..Len(l) PROVE l[k] = r[k]
        OBVIOUS
      <4>1. l[k] = u[(m + 1) + k] /\ r[k] = v[(n + 1) + k]
        BY <3>1, <3>2, <2>5
      <4> DEFINE i == (n + 1) + k
      <4>2. i \in 1..Len(v) /\ i + L - 1 = (m + 1) + k
        BY <3>1, <2>2, <2>5, <1>1, <1>4, <1>5
      <4> HIDE DEF i
      <4>3. u[i + L - 1] = v[i]
        BY <4>2, <1>7
      <4>4. v[i] = r[k]
        BY <4>1 DEF i
      <4> QED BY <4>1, <4>2, <4>3, <4>4
    <3>4. l = r
      <4>1. Len(l) = Len(r)
        BY <3>1, <3>2, <2>5
      <4> QED BY <4>1, <3>1, <3>2, <3>3, SeqEqual
    <3> QED BY <3>4 DEF l, r
  <2> HIDE DEF m
  <2>7. TagIndex(u, name) # 0 /\ Drop(u, TagIndex(u, name) + 1) = Drop(v, TagIndex(v, name) + 1)
    BY <2>4, <2>5, <2>6 DEF n
  <2> QED BY <2>7, <1>2, <1>10, <1>12 DEF u, v, one
<1> QED BY <1>11, <1>12

\* Joining texts: nothing adds nothing, and the order of joining does not count.
LEMMA JoinedText ==
  ASSUME NEW s \in Seq(Piece)
  PROVE  /\ <<>> \o s = s /\ s \o <<>> = s
         /\ \A t, u \in Seq(Piece) : s \o t \in Seq(Piece) /\ s \o (t \o u) = (s \o t) \o u
<1>1. <<>> \o s = s /\ s \o <<>> = s
  BY ConcatEmptySeq
<1>2. ASSUME NEW t \in Seq(Piece), NEW u \in Seq(Piece)
      PROVE  s \o t \in Seq(Piece) /\ s \o (t \o u) = (s \o t) \o u
  BY ConcatAssociative, ConcatProperties
<1> QED BY <1>1, <1>2

\* Filters with the same fields are the same.
LEMMA SameFilter ==
  ASSUME NEW f \in Filters, NEW g \in Filters,
         f.pending = g.pending, f.inside = g.inside, f.ticks = g.ticks
  PROVE  f = g
<1>1. /\ f = [pending |-> f.pending, inside |-> f.inside, ticks |-> f.ticks]
      /\ g = [pending |-> g.pending, inside |-> g.inside, ticks |-> g.ticks]
  BY FilterIs
<1> QED BY <1>1

\* What a filter keeps inside of a tag does as well as all the text it had.
LEMMA KeptSuffices ==
  ASSUME NEW f \in Filters, NEW b \in Seq(Piece), NEW final \in BOOLEAN,
         f.inside # "", f.pending # <<>>, TagIndex(f.pending, Closing(f.inside)) = 0
  PROVE  LET k == Kept(f, FALSE) IN
         /\ Drain(final)[More(f, b)].filter = Drain(final)[More(k, b)].filter
         /\ Drain(final)[More(f, b)].out = Drain(final)[More(k, b)].out
<1> DEFINE p == f.pending
           k == Kept(f, FALSE)
           tag == Closing(f.inside)
           one == <<Last(p)>>
           u == p \o b
           v == one \o b
           h == More(f, b)
           e == More(k, b)
<1>0. p \in Seq(Piece) /\ p # <<>>
  BY FilterIs
<1>1. /\ Last(p) \in Piece /\ u # <<>> /\ v # <<>> /\ Last(u) = Last(v)
      /\ TagIndex(u, tag) = 0 <=> TagIndex(v, tag) = 0
      /\ TagIndex(u, tag) # 0 => Drop(u, TagIndex(u, tag) + 1) = Drop(v, TagIndex(v, tag) + 1)
  BY <1>0, LateTag
<1>2. k.pending = one /\ k.inside = f.inside /\ k.ticks = f.ticks /\ k \in Filters
  <2>1. k = [f EXCEPT !.pending = one]
    BY DEF Kept
  <2>2. f \in [pending : Seq(Piece), inside : Insides, ticks : Nat]
    BY DEF Filters
  <2> HIDE DEF one, p
  <2>3. k.pending = one /\ k.inside = f.inside /\ k.ticks = f.ticks
    BY <2>1, <2>2
  <2>4. k \in Filters
    BY KeptTyped
  <2> QED BY <2>3, <2>4
<1>3. h \in Filters /\ h.pending = u /\ h.inside = f.inside /\ h.ticks = f.ticks
  BY MoreIs
<1>4. e \in Filters /\ e.pending = v /\ e.inside = f.inside /\ e.ticks = f.ticks
  <2> HIDE DEF k, one
  <2>1. e.pending = k.pending \o b /\ e.inside = k.inside /\ e.ticks = k.ticks /\ e \in Filters
    BY <1>2, MoreIs
  <2> QED BY <2>1, <1>2
<1>4a. tag = Closing(f.inside) /\ f.inside # ""
  OBVIOUS
<1> HIDE DEF h, e, u, v, k, p, one, tag
<1>5. CASE TagIndex(u, tag) = 0
  <2>1. Halts(h, final) /\ Halts(e, final)
    BY <1>1, <1>3, <1>4, <1>4a, <1>5 DEF Halts
  <2>2. Kept(h, final) = Kept(e, final)
    <3>1. h \in [pending : Seq(Piece), inside : Insides, ticks : Nat] /\ e \in [pending : Seq(Piece), inside : Insides, ticks : Nat]
      BY <1>3, <1>4 DEF Filters
    <3> SUFFICES /\ Kept(h, final).pending = Kept(e, final).pending
                 /\ Kept(h, final).inside = Kept(e, final).inside
                 /\ Kept(h, final).ticks = Kept(e, final).ticks
      <4>1. Kept(h, final) \in Filters /\ Kept(e, final) \in Filters
        BY <1>3, <1>4, KeptTyped
      <4> QED BY <4>1, SameFilter
    <3>2. CASE final
      <4>1. Kept(h, final) = [h EXCEPT !.pending = <<>>, !.inside = ""] /\ Kept(e, final) = [e EXCEPT !.pending = <<>>, !.inside = ""]
        BY <1>1, <1>3, <1>4, <1>4a, <3>2 DEF Kept
      <4> QED BY <4>1, <3>1, <1>3, <1>4
    <3>3. CASE ~final
      <4> DEFINE last == <<Last(u)>>
      <4>1. Kept(h, final) = [h EXCEPT !.pending = last] /\ Kept(e, final) = [e EXCEPT !.pending = last]
        BY <1>1, <1>3, <1>4, <1>4a, <3>3 DEF Kept
      <4> HIDE DEF last
      <4> QED BY <4>1, <3>1, <1>3, <1>4
    <3> QED BY <3>2, <3>3
  <2>3. /\ Drain(final)[h].filter = Kept(h, final) /\ Drain(final)[h].out = <<>>
        /\ Drain(final)[e].filter = Kept(e, final) /\ Drain(final)[e].out = <<>>
    <3>1. h \in Filters /\ e \in Filters
      BY <1>3, <1>4
    <3> QED BY <2>1, <3>1, DrainBy
  <2> QED BY <2>2, <2>3 DEF h, e, k
<1>6. CASE TagIndex(u, tag) # 0
  <2>1. ~Halts(h, final) /\ ~Halts(e, final)
    BY <1>1, <1>3, <1>4, <1>4a, <1>6 DEF Halts
  <2>2. Reading(h) = Read(h, TagIndex(u, tag) + 1, "", f.ticks, <<>>)
    <3>1. Reading(h) = Read(h, TagIndex(h.pending, Closing(h.inside)) + 1, "", h.ticks, <<>>)
      BY <1>3, <1>4a, ReadingBy
    <3> QED BY <3>1, <1>3, <1>4a
  <2>3. Reading(e) = Read(e, TagIndex(v, tag) + 1, "", f.ticks, <<>>)
    <3>1. Reading(e) = Read(e, TagIndex(e.pending, Closing(e.inside)) + 1, "", e.ticks, <<>>)
      BY <1>4, <1>4a, ReadingBy
    <3> QED BY <3>1, <1>4, <1>4a
  <2>4. Drop(u, TagIndex(u, tag) + 1) = Drop(v, TagIndex(v, tag) + 1)
    BY <1>1, <1>6
  <2>5. Reading(h) = Reading(e)
    BY <2>2, <2>3, <2>4, <1>3, <1>4 DEF Read
  <2>6. /\ Drain(final)[h].filter = Drain(final)[Reading(h).next].filter
        /\ Drain(final)[h].out = Reading(h).shown \o Drain(final)[Reading(h).next].out
        /\ Drain(final)[e].filter = Drain(final)[Reading(e).next].filter
        /\ Drain(final)[e].out = Reading(e).shown \o Drain(final)[Reading(e).next].out
    <3>1. h \in Filters /\ e \in Filters
      BY <1>3, <1>4
    <3> QED BY <2>1, <3>1, DrainBy
  <2> QED BY <2>5, <2>6 DEF h, e, k
<1> QED BY <1>5, <1>6

\* Draining a text in two goes is draining it at once: the second go begins
\* with what the first kept, and shows what the first did not.
LEMMA DrainSplit ==
  ASSUME NEW final \in BOOLEAN, NEW b \in Seq(Piece)
  PROVE  \A f \in Filters :
           LET first == Drain(FALSE)[f]
               second == Drain(final)[More(first.filter, b)]
           IN  /\ Drain(final)[More(f, b)].filter = second.filter
               /\ Drain(final)[More(f, b)].out = first.out \o second.out
<1> DEFINE D == Drain(final)
           E == Drain(FALSE)
           Split(f) == /\ D[More(f, b)].filter = D[More(E[f].filter, b)].filter
                       /\ D[More(f, b)].out = E[f].out \o D[More(E[f].filter, b)].out
           Bad == {k \in Nat : \E f \in Filters : Len(f.pending) = k /\ ~Split(f)}
<1>1. SUFFICES ASSUME Bad # {} PROVE FALSE
  BY FilterIs
<1>2. PICK k \in Bad : \A j \in Bad : k <= j
  BY <1>1, LeastOf
<1>3. PICK f \in Filters : Len(f.pending) = k /\ ~Split(f)
  BY <1>2
<1> DEFINE h == More(f, b)
<1>4. h \in Filters
  BY MoreIs
<1>5. \A g \in Filters : D[g].filter \in Filters /\ D[g].out \in Seq(Piece) /\ E[g].filter \in Filters /\ E[g].out \in Seq(Piece)
  BY DrainTyped
<1>6. CASE Halts(f, FALSE)
  <2>1. E[f].filter = Kept(f, FALSE) /\ E[f].out = <<>>
    BY <1>6, DrainBy
  <2> DEFINE o == D[More(Kept(f, FALSE), b)].out
  <2>2. o \in Seq(Piece)
    <3>1. More(Kept(f, FALSE), b) \in Filters
      BY KeptTyped, MoreIs
    <3> HIDE DEF D, E
    <3> QED BY <3>1, <1>5
  <2>3. <<>> \o o = o
    <3> HIDE DEF o
    <3> QED BY <2>2, ConcatEmptySeq
  <2>4. D[h].filter = D[More(Kept(f, FALSE), b)].filter /\ D[h].out = o
    <3>1. CASE f.inside = "" \/ f.pending = <<>>
      <4>1. Kept(f, FALSE) = f
        BY <3>1 DEF Kept
      <4> QED BY <4>1
    <3>2. CASE ~(f.inside = "" \/ f.pending = <<>>)
      <4>1. f.inside # "" /\ f.pending # <<>> /\ TagIndex(f.pending, Closing(f.inside)) = 0
        BY <3>2, <1>6 DEF Halts
      <4> QED BY <4>1, KeptSuffices
    <3> QED BY <3>1, <3>2
  <2> HIDE DEF D, E, h, o
  <2>5. Split(f)
    BY <2>1, <2>3, <2>4 DEF h, o
  <2> QED BY <2>5, <1>3
<1>7. CASE ~Halts(f, FALSE)
  <2> DEFINE e == Reading(f).next
             s == Reading(f).shown
             x == E[e].out
             y == D[More(E[e].filter, b)].out
  <2>1. e \in Filters /\ s \in Seq(Piece) /\ Len(e.pending) < k
    <3>1. Reading(f).next \in Filters /\ Reading(f).shown \in Seq(Piece) /\ Len(Reading(f).next.pending) < Len(f.pending)
      BY <1>7, ReadingTyped
    <3> QED BY <3>1, <1>3
  <2>2. E[f].filter = E[e].filter /\ E[f].out = s \o x
    BY <1>7, DrainBy
  <2>3. ~Halts(h, final) /\ Reading(h).next = More(e, b) /\ Reading(h).shown = s
    BY <1>7, ReadingMore
  <2>4. D[h].filter = D[More(e, b)].filter /\ D[h].out = s \o D[More(e, b)].out
    <3>1. D[h].filter = D[Reading(h).next].filter /\ D[h].out = Reading(h).shown \o D[Reading(h).next].out
      <4> HIDE DEF h
      <4> QED BY <1>4, <2>3, DrainBy
    <3> QED BY <3>1, <2>3
  <2>5. Split(e)
    <3> SUFFICES ASSUME ~Split(e) PROVE FALSE
      OBVIOUS
    <3> HIDE DEF e, D, E
    <3>1. Len(e.pending) \in Nat
      BY <2>1, FilterIs
    <3>2. Len(e.pending) \in Bad
      BY <2>1, <3>1
    <3>3. k <= Len(e.pending) /\ k \in Nat
      BY <3>2, <1>2
    <3> HIDE DEF Bad, Split
    <3> QED BY <2>1, <3>1, <3>3
  <2>6. x \in Seq(Piece) /\ y \in Seq(Piece)
    <3> HIDE DEF e, D, E
    <3>1. x \in Seq(Piece) /\ E[e].filter \in Filters
      BY <2>1, <1>5
    <3>2. More(E[e].filter, b) \in Filters
      BY <3>1, MoreIs
    <3> QED BY <3>1, <3>2, <1>5
  <2>7. s \o (x \o y) = (s \o x) \o y
    <3>1. s \in Seq(Piece) /\ x \in Seq(Piece) /\ y \in Seq(Piece)
      BY <2>1, <2>6
    <3> HIDE DEF s, x, y
    <3> QED BY <3>1, JoinedText
  <2>8. D[More(e, b)].filter = D[More(E[e].filter, b)].filter /\ D[More(e, b)].out = x \o y
    BY <2>5
  <2>9. D[More(E[f].filter, b)].filter = D[More(E[e].filter, b)].filter /\ D[More(E[f].filter, b)].out = y
    BY <2>2
  <2> HIDE DEF D, E, e, s, x, y
  <2>10. D[h].filter = D[More(E[f].filter, b)].filter
    BY <2>4, <2>8, <2>9
  <2>11. D[h].out = E[f].out \o D[More(E[f].filter, b)].out
    <3>1. D[h].out = s \o (x \o y)
      BY <2>4, <2>8
    <3>2. E[f].out \o D[More(E[f].filter, b)].out = (s \o x) \o y
      BY <2>2, <2>9
    <3> QED BY <3>1, <3>2, <2>7
  <2>12. Split(f)
    BY <2>10, <2>11
  <2> QED BY <2>12, <1>3
<1> QED BY <1>6, <1>7

Gates == [decided : BOOLEAN, blocked : BOOLEAN, buf : Seq(Piece)]

\* What the gate does, by what stands first.
LEMMA GatedBy ==
  ASSUME NEW g, NEW d
  PROVE  LET buf == g.buf \o d
             plain == ~g.blocked /\ ~g.decided /\ d # <<>>
             ticks == \A i \in 1..Len(buf) : buf[i] = "tick"
         IN
         /\ d = <<>> \/ g.blocked => Gated(g, d) = [gate |-> g, shown |-> <<>>]
         /\ d # <<>> /\ ~g.blocked /\ g.decided => Gated(g, d) = [gate |-> g, shown |-> d]
         /\ plain /\ buf[1] = "brace" =>
              Gated(g, d) = [gate |-> [decided |-> TRUE, blocked |-> TRUE, buf |-> <<>>], shown |-> <<>>]
         /\ plain /\ buf[1] # "brace" /\ ticks =>
              Gated(g, d) = [gate |-> [g EXCEPT !.buf = buf], shown |-> <<>>]
         /\ plain /\ buf[1] # "brace" /\ ~ticks =>
              Gated(g, d) = [gate |-> [g EXCEPT !.decided = TRUE, !.buf = <<>>], shown |-> buf]
BY DEF Gated

\* The gate shows pieces and stays a gate.
LEMMA GatedTyped ==
  ASSUME NEW g \in Gates, NEW d \in Seq(Piece)
  PROVE  Gated(g, d).gate \in Gates /\ Gated(g, d).shown \in Seq(Piece)
<1> DEFINE buf == g.buf \o d
<1>1. g.buf \in Seq(Piece) /\ g.decided \in BOOLEAN /\ g.blocked \in BOOLEAN
  BY DEF Gates
<1>2. buf \in Seq(Piece) /\ <<>> \in Seq(Piece)
  BY <1>1, EmptySeq, ConcatProperties
<1> HIDE DEF buf
<1>3. \/ Gated(g, d) = [gate |-> g, shown |-> <<>>]
      \/ Gated(g, d) = [gate |-> g, shown |-> d]
      \/ Gated(g, d) = [gate |-> [decided |-> TRUE, blocked |-> TRUE, buf |-> <<>>], shown |-> <<>>]
      \/ Gated(g, d) = [gate |-> [g EXCEPT !.buf = buf], shown |-> <<>>]
      \/ Gated(g, d) = [gate |-> [g EXCEPT !.decided = TRUE, !.buf = <<>>], shown |-> buf]
  BY GatedBy DEF buf
<1>4. [decided |-> TRUE, blocked |-> TRUE, buf |-> <<>>] \in Gates
  BY <1>2 DEF Gates
<1>5. [g EXCEPT !.buf = buf] \in Gates
  BY <1>2 DEF Gates
<1>6. [g EXCEPT !.decided = TRUE, !.buf = <<>>] \in Gates
  BY <1>2 DEF Gates
<1>7. CASE Gated(g, d) = [gate |-> g, shown |-> <<>>]
  BY <1>2, <1>7
<1>8. CASE Gated(g, d) = [gate |-> g, shown |-> d]
  BY <1>8
<1>9. CASE Gated(g, d) = [gate |-> [decided |-> TRUE, blocked |-> TRUE, buf |-> <<>>], shown |-> <<>>]
  BY <1>2, <1>4, <1>9
<1>10. CASE Gated(g, d) = [gate |-> [g EXCEPT !.buf = buf], shown |-> <<>>]
  BY <1>2, <1>5, <1>10
<1>11. CASE Gated(g, d) = [gate |-> [g EXCEPT !.decided = TRUE, !.buf = <<>>], shown |-> buf]
  BY <1>2, <1>6, <1>11
<1> QED BY <1>3, <1>7, <1>8, <1>9, <1>10, <1>11

\* The gate lets through in two goes what it lets through at once.
LEMMA GatedSplit ==
  ASSUME NEW g \in Gates, NEW d \in Seq(Piece), NEW e \in Seq(Piece)
  PROVE  LET first == Gated(g, d)
             second == Gated(first.gate, e)
         IN  /\ Gated(g, d \o e).gate = second.gate
             /\ Gated(g, d \o e).shown = first.shown \o second.shown
<1> DEFINE first == Gated(g, d)
           second == Gated(first.gate, e)
           once == Gated(g, d \o e)
           buf == g.buf \o d
           all == g.buf \o (d \o e)
           Ticks(s) == \A i \in 1..Len(s) : s[i] = "tick"
<1>1. g.buf \in Seq(Piece) /\ g.decided \in BOOLEAN /\ g.blocked \in BOOLEAN
  BY DEF Gates
<1>2. first.gate \in Gates /\ first.shown \in Seq(Piece) /\ second.shown \in Seq(Piece)
  <2>1. first.gate \in Gates /\ first.shown \in Seq(Piece)
    BY GatedTyped
  <2> HIDE DEF first
  <2> QED BY <2>1, GatedTyped
<1>3. all = buf \o e
  <2>1. g.buf \in Seq(Piece)
    BY <1>1
  <2> DEFINE b == g.buf
  <2> HIDE DEF b
  <2>1a. b \in Seq(Piece)
    BY <2>1 DEF b
  <2>2. b \o (d \o e) = (b \o d) \o e
    BY <2>1a, JoinedText
  <2> QED BY <2>2 DEF b
<1>4. CASE d = <<>>
  <2>1. first = [gate |-> g, shown |-> <<>>]
    BY <1>4, GatedBy
  <2>2. d \o e = e
    BY <1>4, ConcatEmptySeq
  <2>3. second = once
    BY <2>1, <2>2
  <2>4. first.shown \o second.shown = second.shown
    <3> DEFINE s == second.shown
    <3>1. s \in Seq(Piece) /\ first.shown = <<>>
      BY <1>2, <2>1
    <3> HIDE DEF s
    <3>2. <<>> \o s = s
      BY <3>1, ConcatEmptySeq
    <3> QED BY <3>1, <3>2 DEF s
  <2> QED BY <2>3, <2>4
<1>5. CASE e = <<>>
  <2>1. second = [gate |-> first.gate, shown |-> <<>>]
    <3> HIDE DEF first
    <3> QED BY <1>5, GatedBy
  <2>2. d \o e = d
    BY <1>5, ConcatEmptySeq
  <2>3. once = first
    BY <2>2
  <2>4. first.shown \o second.shown = first.shown
    <3> DEFINE s == first.shown
    <3>1. s \in Seq(Piece) /\ second.shown = <<>>
      BY <1>2, <2>1
    <3> HIDE DEF s
    <3>2. s \o <<>> = s
      BY <3>1, ConcatEmptySeq
    <3> QED BY <3>1, <3>2 DEF s
  <2>5. second.gate = first.gate
    BY <2>1
  <2> HIDE DEF first, second, once
  <2>6. once.gate = second.gate /\ once.shown = first.shown \o second.shown
    BY <2>3, <2>4, <2>5
  <2> QED BY <2>6 DEF first, second, once
<1>6. CASE d # <<>> /\ e # <<>>
  <2>1. d \o e # <<>>
    <3>1. Len(d) \in Nat \ {0} /\ Len(e) \in Nat
      BY <1>6, EmptySeq
    <3>2. Len(d \o e) = Len(d) + Len(e)
      BY ConcatProperties
    <3>3. Len(d \o e) # 0
      BY <3>1, <3>2
    <3> QED BY <3>3, EmptySeq
  <2>2. buf \in Seq(Piece) /\ Len(buf) >= 1 /\ Len(buf) \in Nat
    <3>1. Len(d) \in Nat \ {0}
      BY <1>6, EmptySeq
    <3>2. buf \in Seq(Piece) /\ Len(buf) = Len(g.buf) + Len(d)
      BY <1>1, ConcatProperties
    <3>3. Len(g.buf) \in Nat
      BY <1>1, LenProperties
    <3> HIDE DEF buf
    <3> QED BY <3>1, <3>2, <3>3
  <2>3. all[1] = buf[1] /\ (Ticks(all) => Ticks(buf))
    <3>0. buf \in Seq(Piece)
      BY <2>2
    <3> HIDE DEF buf, all
    <3>1. Len(all) = Len(buf) + Len(e) /\ \A i \in 1..Len(buf) : all[i] = buf[i]
      BY <3>0, <1>3, Joined
    <3>2. Len(e) \in Nat
      OBVIOUS
    <3> QED BY <3>1, <3>2, <2>2
  <2>4. CASE g.blocked
    <3>1. once = [gate |-> g, shown |-> <<>>] /\ first = [gate |-> g, shown |-> <<>>]
      BY <2>4, GatedBy
    <3>2. second = Gated(g, e) /\ Gated(g, e) = [gate |-> g, shown |-> <<>>]
      <4>1. first.gate = g
        BY <3>1
      <4> QED BY <4>1, <2>4, GatedBy
    <3> HIDE DEF first, second, once
    <3>3. once.gate = second.gate /\ once.shown = first.shown \o second.shown
      BY <3>1, <3>2, EmptySeq, ConcatEmptySeq
    <3> QED BY <3>3 DEF first, second, once
  <2>5. CASE ~g.blocked /\ g.decided
    <3>1. once = [gate |-> g, shown |-> d \o e] /\ first = [gate |-> g, shown |-> d]
      BY <1>6, <2>1, <2>5, GatedBy
    <3>2. second = Gated(g, e) /\ Gated(g, e) = [gate |-> g, shown |-> e]
      <4>1. first.gate = g
        BY <3>1
      <4> QED BY <4>1, <1>6, <2>5, GatedBy
    <3> HIDE DEF first, second, once
    <3>3. once.gate = second.gate /\ once.shown = first.shown \o second.shown
      BY <3>1, <3>2
    <3> QED BY <3>3 DEF first, second, once
  <2>6. CASE ~g.blocked /\ ~g.decided
    <3>1. CASE buf[1] = "brace"
      <4> DEFINE shut == [decided |-> TRUE, blocked |-> TRUE, buf |-> <<>>]
      <4>1. once = [gate |-> shut, shown |-> <<>>] /\ first = [gate |-> shut, shown |-> <<>>]
        BY <1>6, <2>1, <2>3, <2>6, <3>1, GatedBy
      <4>2. shut.blocked
        OBVIOUS
      <4> HIDE DEF shut
      <4>3. second = Gated(shut, e) /\ Gated(shut, e) = [gate |-> shut, shown |-> <<>>]
        <5>1. first.gate = shut
          BY <4>1
        <5> QED BY <5>1, <4>2, GatedBy
      <4> HIDE DEF first, second, once
      <4>4. once.gate = second.gate /\ once.shown = first.shown \o second.shown
        BY <4>1, <4>3, EmptySeq, ConcatEmptySeq
      <4> QED BY <4>4 DEF first, second, once
    <3>2. CASE buf[1] # "brace" /\ Ticks(buf)
      <4> DEFINE wait == [g EXCEPT !.buf = buf]
      <4>1. first = [gate |-> wait, shown |-> <<>>]
        BY <1>6, <2>6, <3>2, GatedBy
      <4>2. wait.buf = buf /\ ~wait.blocked /\ ~wait.decided
        BY <2>6 DEF Gates
      <4>2a. /\ [wait EXCEPT !.buf = all] = [g EXCEPT !.buf = all]
             /\ [wait EXCEPT !.decided = TRUE, !.buf = <<>>] = [g EXCEPT !.decided = TRUE, !.buf = <<>>]
        BY DEF Gates
      <4>2b. wait.buf \o e = all
        BY <4>2, <1>3
      <4> HIDE DEF wait, all
      <4>3. second = once
        <5>1. CASE Ticks(all)
          <6>1. once = [gate |-> [g EXCEPT !.buf = all], shown |-> <<>>]
            BY <2>1, <2>3, <2>6, <3>2, <5>1, GatedBy DEF all
          <6>2. Gated(wait, e) = [gate |-> [wait EXCEPT !.buf = all], shown |-> <<>>]
            <7>1. e # <<>> /\ ~wait.blocked /\ ~wait.decided
              BY <1>6, <4>2
            <7>2. all[1] # "brace" /\ \A i \in 1..Len(all) : all[i] = "tick"
              BY <2>3, <3>2, <5>1
            <7>3. /\ (wait.buf \o e)[1] # "brace"
                  /\ \A i \in 1..Len(wait.buf \o e) : (wait.buf \o e)[i] = "tick"
              BY <7>2, <4>2b, Zenon
            <7>4. Gated(wait, e) = [gate |-> [wait EXCEPT !.buf = wait.buf \o e], shown |-> <<>>]
              BY <7>1, <7>3, GatedBy
            <7> QED BY <7>4, <4>2b
          <6> QED BY <6>1, <6>2, <4>1, <4>2a
        <5>2. CASE ~Ticks(all)
          <6>1. once = [gate |-> [g EXCEPT !.decided = TRUE, !.buf = <<>>], shown |-> all]
            BY <2>1, <2>3, <2>6, <3>2, <5>2, GatedBy DEF all
          <6>2. Gated(wait, e) = [gate |-> [wait EXCEPT !.decided = TRUE, !.buf = <<>>], shown |-> all]
            <7>1. e # <<>> /\ ~wait.blocked /\ ~wait.decided
              BY <1>6, <4>2
            <7>2. all[1] # "brace" /\ ~\A i \in 1..Len(all) : all[i] = "tick"
              BY <2>3, <3>2, <5>2
            <7>3. /\ (wait.buf \o e)[1] # "brace"
                  /\ ~\A i \in 1..Len(wait.buf \o e) : (wait.buf \o e)[i] = "tick"
              BY <7>2, <4>2b, Zenon
            <7>4. Gated(wait, e) = [gate |-> [wait EXCEPT !.decided = TRUE, !.buf = <<>>], shown |-> wait.buf \o e]
              BY <7>1, <7>3, GatedBy
            <7> QED BY <7>4, <4>2b
          <6> QED BY <6>1, <6>2, <4>1, <4>2a
        <5> QED BY <5>1, <5>2
      <4>4. first.shown \o second.shown = second.shown
        <5> DEFINE s == second.shown
        <5>1. s \in Seq(Piece) /\ first.shown = <<>>
          BY <1>2, <4>1
        <5> HIDE DEF s
        <5>2. <<>> \o s = s
          BY <5>1, ConcatEmptySeq
        <5> QED BY <5>1, <5>2 DEF s
      <4> QED BY <4>3, <4>4
    <3>3. CASE buf[1] # "brace" /\ ~Ticks(buf)
      <4> DEFINE open == [g EXCEPT !.decided = TRUE, !.buf = <<>>]
      <4>1. first = [gate |-> open, shown |-> buf]
        BY <1>6, <2>6, <3>3, GatedBy
      <4>2. once = [gate |-> open, shown |-> all]
        BY <2>1, <2>3, <2>6, <3>3, GatedBy
      <4>3. ~open.blocked /\ open.decided
        BY <2>6 DEF Gates
      <4> HIDE DEF open, buf, all
      <4>4. second = Gated(open, e) /\ Gated(open, e) = [gate |-> open, shown |-> e]
        <5>1. first.gate = open
          BY <4>1
        <5> QED BY <5>1, <1>6, <4>3, GatedBy
      <4> HIDE DEF first, second, once
      <4>5. once.gate = second.gate /\ once.shown = first.shown \o second.shown
        BY <4>1, <4>2, <4>4, <1>3
      <4> QED BY <4>5 DEF first, second, once
    <3> QED BY <3>1, <3>2, <3>3
  <2> QED BY <1>1, <2>4, <2>5, <2>6
<1> QED BY <1>4, <1>5, <1>6

\* What has come of the pieces r, had they been one chunk.
Fits(r, f, g, v) ==
  LET once == Drain(FALSE)[More(NewFilter, r)]
      gated == Gated(NewGate, once.out)
  IN  f = once.filter /\ g = gated.gate /\ v = gated.shown

Whole(r) == Gated(NewGate, Drain(TRUE)[More(NewFilter, r)].out).shown

\* A step begins with a filter and a gate that have seen nothing.
LEMMA NewIs ==
  NewFilter \in Filters /\ NewFilter.pending = <<>> /\ NewGate \in Gates /\ <<>> \in Seq(Piece)
<1>1. <<>> \in Seq(Piece) /\ "" \in Insides
  BY EmptySeq, InsidesAre
<1>2. NewFilter \in Filters /\ NewFilter.pending = <<>>
  BY <1>1 DEF NewFilter, Filters
<1>3. NewGate \in Gates
  BY <1>1 DEF NewGate, Gates
<1> QED BY <1>1, <1>2, <1>3

\* Nothing has come of no pieces.
LEMMA FitsNothing == Fits(<<>>, NewFilter, NewGate, <<>>)
<1>1. More(NewFilter, <<>>) = NewFilter
  BY NewIs, MoreNothing
<1>2. Halts(NewFilter, FALSE) /\ Kept(NewFilter, FALSE) = NewFilter
  BY NewIs DEF Halts, Kept
<1>3. Drain(FALSE)[NewFilter].filter = NewFilter /\ Drain(FALSE)[NewFilter].out = <<>>
  BY <1>2, NewIs, DrainBy
<1>4. Gated(NewGate, <<>>) = [gate |-> NewGate, shown |-> <<>>]
  BY GatedBy
<1> DEFINE once == Drain(FALSE)[More(NewFilter, <<>>)]
<1>5. once.filter = NewFilter /\ once.out = <<>>
  BY <1>1, <1>3
<1>6. Gated(NewGate, once.out).gate = NewGate /\ Gated(NewGate, once.out).shown = <<>>
  <2> HIDE DEF once
  <2> QED BY <1>4, <1>5
<1> QED BY <1>5, <1>6 DEF Fits

\* A chunk b behind the pieces r has the same effect as one chunk with all of them.
LEMMA ChunkFits ==
  ASSUME NEW r \in Seq(Piece), NEW b \in Seq(Piece), NEW final \in BOOLEAN,
         NEW f \in Filters, NEW g \in Gates, NEW v \in Seq(Piece), Fits(r, f, g, v)
  PROVE  LET d == Drain(final)[More(f, b)]
             s == Gated(g, d.out)
             once == Drain(final)[More(NewFilter, r \o b)]
         IN  /\ d.filter \in Filters /\ s.gate \in Gates /\ s.shown \in Seq(Piece)
             /\ d.filter = once.filter /\ s.gate = Gated(NewGate, once.out).gate
             /\ v \o s.shown = Gated(NewGate, once.out).shown
<1> DEFINE first == Drain(FALSE)[More(NewFilter, r)]
           d == Drain(final)[More(f, b)]
           s == Gated(g, d.out)
           once == Drain(final)[More(NewFilter, r \o b)]
           x == first.out
           y == d.out
<1>1. f = first.filter /\ g = Gated(NewGate, x).gate /\ v = Gated(NewGate, x).shown
  BY DEF Fits
<1>2. More(NewFilter, r) \in Filters
  BY NewIs, MoreIs
<1>3. More(More(NewFilter, r), b) = More(NewFilter, r \o b)
  BY NewIs, MoreTwice
<1>4. once.filter = d.filter /\ once.out = x \o y
  <2>1. /\ Drain(final)[More(More(NewFilter, r), b)].filter = Drain(final)[More(first.filter, b)].filter
        /\ Drain(final)[More(More(NewFilter, r), b)].out = x \o Drain(final)[More(first.filter, b)].out
    BY <1>2, DrainSplit
  <2> QED BY <2>1, <1>1, <1>3
<1>5. x \in Seq(Piece)
  BY <1>2, DrainTyped
<1>6. d.filter \in Filters /\ y \in Seq(Piece)
  <2>1. More(f, b) \in Filters
    BY MoreIs
  <2> QED BY <2>1, DrainTyped
<1>7. s.gate \in Gates /\ s.shown \in Seq(Piece)
  <2> HIDE DEF d
  <2> QED BY <1>6, GatedTyped
<1> HIDE DEF x, y, first
<1>8. /\ Gated(NewGate, x \o y).gate = Gated(Gated(NewGate, x).gate, y).gate
      /\ Gated(NewGate, x \o y).shown = Gated(NewGate, x).shown \o Gated(Gated(NewGate, x).gate, y).shown
  <2>1. x \in Seq(Piece) /\ y \in Seq(Piece) /\ NewGate \in Gates
    BY <1>5, <1>6, NewIs
  <2> QED BY <2>1, GatedSplit
<1>9. s = Gated(g, y)
  BY DEF y
<1> HIDE DEF d, s, once
<1>10. Gated(NewGate, once.out).gate = s.gate /\ Gated(NewGate, once.out).shown = v \o s.shown
  BY <1>1, <1>4, <1>8, <1>9
<1> QED BY <1>4, <1>6, <1>7, <1>10 DEF d, s, once

\* What has been shown begins what will be.
LEMMA FitsBegins ==
  ASSUME NEW r \in Seq(Piece), NEW f \in Filters, NEW g \in Gates, NEW v \in Seq(Piece), Fits(r, f, g, v)
  PROVE  IsPrefix(v, Whole(r))
<1> DEFINE s == Gated(g, Drain(TRUE)[More(f, <<>>)].out).shown
           w == Whole(r)
<1>1. s \in Seq(Piece) /\ v \o s = Whole(r \o <<>>)
  <2> DEFINE n == <<>>
             end == TRUE
             d == Drain(end)[More(f, n)]
             once == Drain(end)[More(NewFilter, r \o n)]
  <2>1. n \in Seq(Piece) /\ end \in BOOLEAN
    BY NewIs
  <2> HIDE DEF n, end
  <2>2. Gated(g, d.out).shown \in Seq(Piece) /\ v \o Gated(g, d.out).shown = Gated(NewGate, once.out).shown
    BY <2>1, ChunkFits
  <2> QED BY <2>2 DEF Whole, n, end
<1>2. r \o <<>> = r
  BY JoinedText
<1>3. w = v \o s
  BY <1>1, <1>2
<1> HIDE DEF s, w
<1>4. Len(w) = Len(v) + Len(s) /\ \A k \in 1..Len(s) : w[Len(v) + k] = s[k]
  BY <1>1, <1>3, Joined
<1>5. w \in Seq(Piece) /\ DOMAIN w = 1..Len(w) /\ Len(v) \in Nat /\ Len(s) \in Nat
  BY <1>1, <1>3, ConcatProperties, LenProperties
<1>6. \A k \in 1..Len(s) : s[k] \in Range(w)
  <2> SUFFICES ASSUME NEW k \in 1..Len(s) PROVE s[k] \in Range(w)
    OBVIOUS
  <2>1. Len(v) + k \in DOMAIN w
    BY <1>4, <1>5
  <2> QED BY <2>1, <1>4 DEF Range
<1>7. s \in Seq(Range(w))
  BY <1>1, <1>6
<1>8. IsPrefix(v, w)
  BY <1>3, <1>7 DEF IsPrefix
<1> QED BY <1>8 DEF w

-----------------------------------------------------------------------------
(* The loop.                                                               *)

StreamTyped == raw \in Seq(Piece) /\ filter \in Filters /\ gate \in Gates /\ visible \in Seq(Piece)

\* While the answer streams, filter, gate and user are where one chunk with
\* all the pieces so far would have brought them; then the tail is out too.
StreamHeld ==
  /\ turn.phase \in {"stream", "compress"} => Fits(raw, filter, gate, visible)
  /\ turn.phase = "decide" => visible = Whole(raw)

\* A loop begins with nothing.
LEMMA StreamInit == ToolLoopInit => StreamTyped /\ StreamHeld
BY NewIs DEF ToolLoopInit, StreamTyped, StreamHeld

\* Feed is a drain with more pending.
LEMMA FeedIs ==
  ASSUME filter \in Filters, NEW chunk \in Seq(Piece), NEW final \in BOOLEAN
  PROVE  Feed(chunk, final) = Drain(final)[More(filter, chunk)]
BY MoreIs DEF Feed

\* The chunks of an answer are pieces.
LEMMA ChunksArePieces ==
  /\ \A n \in 1..MaxChunk : [1..n -> Piece] \subseteq Seq(Piece)
  /\ LaterResponse \subseteq Seq(Piece)
BY ToolLoopAssumption

\* A chunk moves filter, gate and user where its pieces would have brought
\* them with the ones before; a new step clears them, and the end of a stream flushes.
LEMMA StreamStep ==
  TurnTyped /\ StreamTyped /\ StreamHeld /\ [ToolLoopNext]_loopVars => (StreamTyped /\ StreamHeld)'
<1> SUFFICES ASSUME TurnTyped, StreamTyped, StreamHeld, [ToolLoopNext]_loopVars PROVE StreamTyped' /\ StreamHeld'
  OBVIOUS
<1>0. raw \in Seq(Piece) /\ filter \in Filters /\ gate \in Gates /\ visible \in Seq(Piece)
  BY DEF StreamTyped
<1>0a. turn \in [step : Nat, phase : {"ready", "compress", "stream", "decide", "ended"},
               outcome : {"running", "tooLarge", "stepLimit", "failed", "empty", "answered"}]
  BY DEF TurnTyped
<1>1. CASE StartStep
  <2>1. raw' = <<>> /\ filter' = NewFilter /\ gate' = NewGate /\ visible' = <<>>
    BY <1>1 DEF StartStep
  <2>2. turn'.phase # "decide"
    BY <1>1, <1>0a DEF StartStep
  <2>3. StreamTyped'
    BY <2>1, NewIs DEF StreamTyped
  <2>4. Fits(raw, filter, gate, visible)'
    BY <2>1, FitsNothing
  <2> QED BY <2>2, <2>3, <2>4 DEF StreamHeld
<1>2. CASE StreamChunk
  <2>1. PICK chunk \in IF turn.step = 0 THEN UNION {[1..n -> Piece] : n \in 1..MaxChunk} ELSE LaterResponse :
          LET drained == Feed(chunk, FALSE)
              gated == Gated(gate, drained.out)
          IN  /\ raw' = raw \o chunk
              /\ filter' = drained.filter /\ gate' = gated.gate
              /\ visible' = visible \o gated.shown
    BY <1>2 DEF StreamChunk
  <2>2. chunk \in Seq(Piece)
    BY ChunksArePieces
  <2> DEFINE end == FALSE
             d == Drain(end)[More(filter, chunk)]
             s == Gated(gate, d.out)
             once == Drain(end)[More(NewFilter, raw \o chunk)]
  <2>3. raw' = raw \o chunk /\ filter' = d.filter /\ gate' = s.gate /\ visible' = visible \o s.shown
    BY <2>1, <2>2, <1>0, FeedIs
  <2>4. turn' = turn /\ turn.phase = "stream"
    BY <1>2 DEF StreamChunk
  <2>5. Fits(raw, filter, gate, visible)
    BY <2>4 DEF StreamHeld
  <2>6. /\ d.filter \in Filters /\ s.gate \in Gates /\ s.shown \in Seq(Piece)
        /\ d.filter = once.filter /\ s.gate = Gated(NewGate, once.out).gate
        /\ visible \o s.shown = Gated(NewGate, once.out).shown
    <3>1. raw \in Seq(Piece) /\ filter \in Filters /\ gate \in Gates /\ visible \in Seq(Piece)
      BY <1>0
    <3>2. end \in BOOLEAN
      OBVIOUS
    <3> HIDE DEF end
    <3> QED BY <3>1, <3>2, <2>2, <2>5, ChunkFits
  <2> HIDE DEF d, s
  <2>7. visible \o s.shown \in Seq(Piece) /\ raw \o chunk \in Seq(Piece)
    BY <1>0, <2>2, <2>6, ConcatProperties
  <2>8. StreamTyped'
    BY <2>3, <2>6, <2>7 DEF StreamTyped
  <2>9. Fits(raw, filter, gate, visible)'
    BY <2>3, <2>6 DEF Fits
  <2> QED BY <2>4, <2>8, <2>9 DEF StreamHeld
<1>3. CASE StreamEnds
  <2> DEFINE end == TRUE
             n == <<>>
             d == Drain(end)[More(filter, n)]
             s == Gated(gate, d.out)
             once == Drain(end)[More(NewFilter, raw \o n)]
  <2>0. turn.phase = "stream" /\ raw' = raw /\ turn'.phase \in {"decide", "ended"}
    BY <1>3, <1>0a DEF StreamEnds
  <2>1. turn.phase = "stream" /\ raw' = raw /\ turn'.phase \in {"decide", "ended"}
        /\ filter' = Feed(<<>>, TRUE).filter /\ gate' = Gated(gate, Feed(<<>>, TRUE).out).gate
        /\ visible' = visible \o Gated(gate, Feed(<<>>, TRUE).out).shown
    BY <1>3, <2>0 DEF StreamEnds
  <2>2. filter' = d.filter /\ gate' = s.gate /\ visible' = visible \o s.shown
    BY <2>1, <1>0, NewIs, FeedIs
  <2>3. Fits(raw, filter, gate, visible)
    BY <2>1 DEF StreamHeld
  <2>4. /\ d.filter \in Filters /\ s.gate \in Gates /\ s.shown \in Seq(Piece)
        /\ visible \o s.shown = Gated(NewGate, once.out).shown
    <3>1. raw \in Seq(Piece) /\ filter \in Filters /\ gate \in Gates /\ visible \in Seq(Piece)
      BY <1>0
    <3>2. n \in Seq(Piece) /\ end \in BOOLEAN
      BY NewIs
    <3> HIDE DEF n, end
    <3> QED BY <3>1, <3>2, <2>3, ChunkFits
  <2>5. raw \o <<>> = raw
    BY <1>0, JoinedText
  <2> HIDE DEF d, s
  <2>6. visible \o s.shown \in Seq(Piece)
    BY <1>0, <2>4, ConcatProperties
  <2>7. StreamTyped'
    BY <1>0, <2>1, <2>2, <2>4, <2>6 DEF StreamTyped
  <2>8. visible' = Whole(raw)'
    BY <2>1, <2>2, <2>4, <2>5 DEF Whole
  <2> QED BY <2>1, <2>7, <2>8 DEF StreamHeld
<1>4. CASE Compress \/ EndCompression \/ StepLimit \/ ProtocolError \/ RecoverTruncated \/ CallTools \/ FinalAnswer
  <2>1. UNCHANGED <<raw, filter, gate, visible>>
    BY <1>4 DEF Compress, EndCompression, StepLimit, ProtocolError, RecoverTruncated, CallTools, FinalAnswer, NextStep
  <2>2. /\ turn'.phase # "decide"
        /\ turn'.phase \in {"stream", "compress"} => turn.phase \in {"stream", "compress"}
    <3>1. CASE Compress
      BY <3>1, <1>0a DEF Compress
    <3>2. CASE EndCompression
      BY <3>2, <1>0a DEF EndCompression
    <3>3. CASE StepLimit
      BY <3>3, <1>0a DEF StepLimit
    <3>4. CASE ProtocolError
      BY <3>4, <1>0a DEF ProtocolError, NextStep
    <3>5. CASE RecoverTruncated
      BY <3>5, <1>0a DEF RecoverTruncated, NextStep
    <3>6. CASE CallTools
      BY <3>6, <1>0a DEF CallTools, NextStep
    <3>7. CASE FinalAnswer
      BY <3>7, <1>0a DEF FinalAnswer
    <3> QED BY <1>4, <3>1, <3>2, <3>3, <3>4, <3>5, <3>6, <3>7
  <2> QED BY <2>1, <2>2 DEF StreamTyped, StreamHeld
<1>5. CASE UNCHANGED loopVars
  BY <1>5 DEF loopVars, StreamTyped, StreamHeld
<1> QED BY <1>1, <1>2, <1>3, <1>4, <1>5 DEF ToolLoopNext

\* Then the chunks cannot be told from what the user reads.
LEMMA StreamInvisible == StreamTyped /\ StreamHeld => ChunkingInvisible
<1> SUFFICES ASSUME StreamTyped, StreamHeld PROVE ChunkingInvisible
  OBVIOUS
<1>1. raw \in Seq(Piece) /\ filter \in Filters /\ gate \in Gates /\ visible \in Seq(Piece)
  BY DEF StreamTyped
<1>2. OneShot = Whole(raw)
  <2>1. [NewFilter EXCEPT !.pending = raw] = More(NewFilter, raw)
    <3>1. <<>> \o raw = raw
      BY <1>1, JoinedText
    <3>2. More(NewFilter, raw) = [NewFilter EXCEPT !.pending = @ \o raw]
      BY <1>1, NewIs, MoreIs
    <3>3. [NewFilter EXCEPT !.pending = @ \o raw] = [NewFilter EXCEPT !.pending = raw]
      BY <3>1, NewIs
    <3> QED BY <3>2, <3>3
  <2> QED BY <2>1 DEF OneShot, Whole
<1>3. turn.phase = "stream" => IsPrefix(visible, Whole(raw))
  BY <1>1, FitsBegins DEF StreamHeld
<1> QED BY <1>2, <1>3 DEF ChunkingInvisible, StreamHeld

\* However the provider cuts the answers of the model, the user reads what one
\* chunk would have shown: while the stream lasts a beginning of it, and all of
\* it when the filter has been flushed.
THEOREM ChunksInvisible == ToolLoopSpec => []ChunkingInvisible
<1>1. ToolLoopInit => TurnTyped /\ TurnHeld /\ StreamTyped /\ StreamHeld
  BY TurnInit, StreamInit
<1>2. (TurnTyped /\ TurnHeld /\ StreamTyped /\ StreamHeld) /\ [ToolLoopNext]_loopVars
        => (TurnTyped /\ TurnHeld /\ StreamTyped /\ StreamHeld)'
  BY TurnStep, StreamStep
<1>3. StreamTyped /\ StreamHeld => ChunkingInvisible
  BY StreamInvisible
<1> QED BY <1>1, <1>2, <1>3, PTL DEF ToolLoopSpec

\* What the user reads, what the model is sent and what was executed agree,
\* whatever the chunks, the repairs and the compressions were.
THEOREM ToolLoopStaysSound == ToolLoopSpec => []ToolLoopSound
BY ConversationStaysSound, ChunksInvisible, PTL DEF ToolLoopSound
=============================================================================
