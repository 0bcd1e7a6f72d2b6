------------------------ MODULE ContinueQueueProofs ------------------------
(***************************************************************************)
(* Proofs about ContinueQueue, for any number of prompts, conversations,   *)
(* drains, users, crashes and failed starts: what becomes of a prompt that *)
(* a drain has claimed, and where the run it creates for it goes.          *)
(***************************************************************************)
EXTENDS ContinueQueue, TLAPS

(* The variables the argument is about; how the conversations are listed   *)
(* and what their runs do does not matter to it.                           *)
PromptTypes ==
  /\ state \in [Item -> ItemState]
  /\ dpc \in [Drain -> DrainPc]
  /\ item \in [Drain -> Item \cup {0}]
  /\ verdict \in [Drain -> Verdict]
  /\ executed \in [Item -> Nat]
  /\ faults \in Nat

(* A drain has a prompt in hand from the claim to the mark, and knows by   *)
(* then what to mark.                                                      *)
Holding == {"reading", "creating", "starting", "marking"}

DrainsHold ==
  \A d \in Drain :
    /\ dpc[d] \in Holding <=> item[d] # 0
    /\ dpc[d] = "marking" => verdict[d] # "none"

(* A prompt is about to be marked done exactly if its run was started.     *)
VerdictIsTrue ==
  \A d \in Drain : item[d] # 0 =>
    /\ dpc[d] = "marking" /\ verdict[d] = "done" => executed[item[d]] > 0
    /\ faults = 0 /\ executed[item[d]] > 0 => dpc[d] = "marking" /\ verdict[d] = "done"

IInv == PromptTypes /\ DispatchingIsHeld /\ DrainsHold /\ MarkIsTrue /\ VerdictIsTrue

-----------------------------------------------------------------------------
(* Steps that neither touch a prompt nor a drain that has one in hand.     *)
Bystands ==
  /\ UNCHANGED <<state, item, verdict, executed>>
  /\ faults' = faults
  /\ dpc' \in [Drain -> DrainPc]
  /\ \A d \in Drain : dpc'[d] # dpc[d] => dpc[d] \notin Holding /\ dpc'[d] \notin Holding

LEMMA BystandInv == IInv /\ Bystands => IInv'
BY DEF IInv, Bystands, PromptTypes, DispatchingIsHeld, DrainsHold, MarkIsTrue, VerdictIsTrue, Holding

LEMMA Bystanders ==
  ASSUME IInv
  PROVE  /\ \A c \in Conv : RunGetsSession(c) \/ RunEnds(c) \/ DeleteSession(c) => Bystands
         /\ \A u \in User : UserCreates(u) \/ PreemptCancels(u) => Bystands
         /\ \A u \in User, c \in Conv : Continue(u, c) \/ Resume(u, c) \/ Preempt(u, c) => Bystands
         /\ \A d \in Drain : DrainLists(d) \/ DrainReturns(d) \/ DrainScans(d) => Bystands
<1> USE DEF IInv, PromptTypes, Bystands, queue, drains
<1>1. ASSUME NEW c \in Conv, RunGetsSession(c) \/ RunEnds(c) \/ DeleteSession(c) PROVE Bystands
  BY <1>1 DEF RunGetsSession, RunEnds, DeleteSession
<1>2. ASSUME NEW u \in User, UserCreates(u) \/ PreemptCancels(u) PROVE Bystands
  BY <1>2 DEF UserCreates, PreemptCancels
<1>3. ASSUME NEW u \in User, NEW c \in Conv, Continue(u, c) \/ Resume(u, c) \/ Preempt(u, c) PROVE Bystands
  BY <1>3 DEF Continue, Resume, Preempt
<1>4. ASSUME NEW d \in Drain, DrainLists(d) \/ DrainReturns(d) \/ DrainScans(d) PROVE Bystands
  BY <1>4 DEF DrainLists, DrainReturns, DrainScans, DrainAt, DrainGoes, DrainPc, Holding
<1> QED BY <1>1, <1>2, <1>3, <1>4

-----------------------------------------------------------------------------
(* A prompt that is queued has not been run. *)
LEMMA EnqueueInv ==
  ASSUME IInv, NEW u \in User, Enqueue(u)
  PROVE  IInv'
<1> USE DEF IInv, PromptTypes, ItemState
<1>1. PICK i \in Item : state[i] = "absent" /\ state' = [state EXCEPT ![i] = "pending"]
  BY DEF Enqueue
<1>2. UNCHANGED <<dpc, item, verdict, executed, faults>>
  BY DEF Enqueue, drains
<1>3. PromptTypes'
  BY <1>1, <1>2
<1>4. DispatchingIsHeld'
  BY <1>1, <1>2 DEF DispatchingIsHeld
<1>5. MarkIsTrue'
  BY <1>1, <1>2 DEF MarkIsTrue
<1>6. DrainsHold' /\ VerdictIsTrue'
  BY <1>2 DEF DrainsHold, VerdictIsTrue
<1> QED BY <1>3, <1>4, <1>5, <1>6

(* A claim takes a pending prompt, which no drain has and which, without    *)
(* faults, has not been run.                                                *)
LEMMA ClaimInv ==
  ASSUME IInv, NEW d \in Drain, DrainClaims(d)
  PROVE  IInv'
<1> USE DEF IInv, PromptTypes, ItemState
<1>0. dpc[d] = "claiming" /\ item[d] = 0
  BY DEF DrainClaims, DrainAt, DrainsHold, Holding
<1>1. CASE DrainGoes(d, "scanning") /\ UNCHANGED <<state, item, ahead>>
  <2>1. Bystands
    BY <1>0, <1>1 DEF DrainClaims, DrainGoes, Bystands, DrainPc, Holding
  <2> QED BY <2>1, BystandInv
<1>2. ASSUME NEW i \in Item, state[i] = "pending", state' = [state EXCEPT ![i] = "dispatching"],
             item' = [item EXCEPT ![d] = i], DrainGoes(d, "reading")
      PROVE  IInv'
  <2>1. UNCHANGED <<verdict, executed, faults>>
    BY DEF DrainClaims
  <2>2. \A e \in Drain : item[e] # i
    BY <1>2 DEF DispatchingIsHeld
  <2>3. 0 \notin Item
    BY DEF Item
  <2>4. PromptTypes'
    BY <1>2, <2>1 DEF DrainGoes, DrainPc
  <2>5. DispatchingIsHeld'
    BY <1>0, <1>2, <2>2, <2>3 DEF DispatchingIsHeld
  <2>6. DrainsHold'
    BY <1>2, <2>1, <2>3 DEF DrainsHold, DrainGoes, Holding
  <2>7. MarkIsTrue'
    BY <1>2, <2>1 DEF MarkIsTrue
  <2>8. VerdictIsTrue'
    BY <1>2, <2>1 DEF VerdictIsTrue, MarkIsTrue, DrainGoes
  <2> QED BY <2>4, <2>5, <2>6, <2>7, <2>8
<1> QED BY <1>1, <1>2 DEF DrainClaims, PendingOf

(* Between claim and mark a drain keeps its prompt; only a start runs it. *)
LEMMA DispatchInv ==
  ASSUME IInv, NEW d \in Drain, DrainReads(d) \/ DrainCreates(d) \/ DrainStarts(d)
  PROVE  IInv'
<1> USE DEF IInv, PromptTypes
<1>0. /\ dpc[d] \in {"reading", "creating", "starting"} /\ item[d] \in Item
      /\ dpc[d] # "marking"
  BY DEF DrainReads, DrainCreates, DrainStarts, DrainAt, DrainsHold, Holding
<1>1. UNCHANGED <<state, item>>
  BY DEF DrainReads, DrainCreates, DrainStarts, queue
<1>2. /\ dpc' \in [Drain -> DrainPc]
      /\ dpc'[d] \in Holding /\ \A e \in Drain : e # d => dpc'[e] = dpc[e]
  BY <1>0 DEF DrainReads, DrainCreates, DrainStarts, DrainDecides, DrainGoes, DrainPc, Holding
<1>3. /\ verdict' \in [Drain -> Verdict]
      /\ \A e \in Drain : e # d => verdict'[e] = verdict[e]
      /\ dpc'[d] = "marking" => verdict'[d] # "none"
  BY <1>0 DEF DrainReads, DrainCreates, DrainStarts, DrainDecides, DrainGoes, Verdict
<1>4. /\ executed' \in {executed, [executed EXCEPT ![item[d]] = @ + 1]}
      /\ faults' \in {faults, faults + 1}
      /\ executed' # executed \/ faults' # faults => DrainStarts(d)
  BY <1>0 DEF DrainReads, DrainCreates, DrainStarts, Fault
<1>5. \/ executed' = [executed EXCEPT ![item[d]] = @ + 1] /\ dpc'[d] = "marking" /\ verdict'[d] = "done"
      \/ faults' = faults + 1 /\ verdict'[d] = "pending"
      \/ executed' = executed /\ (dpc'[d] = "marking" => verdict'[d] # "done")
  BY <1>0 DEF DrainReads, DrainCreates, DrainStarts, DrainDecides, DrainGoes, Fault
<1>6. faults' = 0 => faults = 0 /\ executed[item[d]] = 0
  BY <1>0, <1>4 DEF VerdictIsTrue, DrainsHold, Holding, Item
<1>7. PromptTypes'
  BY <1>0, <1>1, <1>2, <1>3, <1>4
<1>8. DispatchingIsHeld'
  BY <1>1 DEF DispatchingIsHeld
<1>9. DrainsHold'
  BY <1>0, <1>1, <1>2, <1>3 DEF DrainsHold, Holding
<1>10. MarkIsTrue'
  BY <1>0, <1>1, <1>4, <1>5, <1>6 DEF MarkIsTrue, DispatchingIsHeld
<1>11. VerdictIsTrue'
  BY <1>0, <1>1, <1>2, <1>3, <1>4, <1>5, <1>6 DEF VerdictIsTrue, DispatchingIsHeld
<1> QED BY <1>7, <1>8, <1>9, <1>10, <1>11

(* The mark is the verdict, and lets go of the prompt. *)
LEMMA MarkInv ==
  ASSUME IInv, NEW d \in Drain, DrainMarks(d)
  PROVE  IInv'
<1> USE DEF IInv, PromptTypes
<1>0. /\ dpc[d] = "marking" /\ item[d] \in Item /\ 0 \notin Item
      /\ verdict[d] \in {"pending", "done", "failed"}
  BY DEF DrainMarks, DrainAt, DrainsHold, Holding, Verdict, Item
<1>1. /\ state' = [state EXCEPT ![item[d]] = verdict[d]]
      /\ item' = [item EXCEPT ![d] = 0]
      /\ verdict' = [verdict EXCEPT ![d] = "none"]
      /\ dpc' = [dpc EXCEPT ![d] = "scanning"]
      /\ UNCHANGED <<executed, faults>>
  BY DEF DrainMarks, DrainGoes
<1>2. PromptTypes'
  BY <1>0, <1>1 DEF ItemState, Verdict, DrainPc
<1>3. DispatchingIsHeld'
  BY <1>0, <1>1 DEF DispatchingIsHeld
<1>4. DrainsHold'
  BY <1>0, <1>1 DEF DrainsHold, Holding
<1>5. MarkIsTrue'
  BY <1>0, <1>1 DEF MarkIsTrue, VerdictIsTrue
<1>6. VerdictIsTrue'
  BY <1>0, <1>1 DEF VerdictIsTrue
<1> QED BY <1>2, <1>3, <1>4, <1>5, <1>6

(* A restart takes every prompt back from the drains that had it. *)
LEMMA RestartInv ==
  ASSUME IInv, ServerRestarts
  PROVE  IInv'
<1> USE DEF IInv, PromptTypes, ServerRestarts, ServerForgets, Fault
<1>1. faults' > 0 /\ UNCHANGED executed /\ 0 \notin Item
  BY DEF Item
<1>2. PromptTypes'
  BY DEF ItemState, DrainPc, Verdict
<1>3. DispatchingIsHeld'
  BY <1>1 DEF DispatchingIsHeld
<1>4. DrainsHold' /\ VerdictIsTrue'
  BY <1>1 DEF DrainsHold, VerdictIsTrue, Holding
<1>5. MarkIsTrue'
  BY <1>1 DEF MarkIsTrue
<1> QED BY <1>2, <1>3, <1>4, <1>5

LEMMA Invariance == Spec => []IInv
<1>1. Init => IInv
  <2> SUFFICES ASSUME Init PROVE IInv
    OBVIOUS
  <2>1. 0 \notin Item
    BY DEF Item
  <2>2. PromptTypes
    BY DEF Init, PromptTypes, ItemState, DrainPc, Verdict
  <2>3. DispatchingIsHeld /\ DrainsHold /\ MarkIsTrue /\ VerdictIsTrue
    BY <2>1 DEF Init, DispatchingIsHeld, DrainsHold, MarkIsTrue, VerdictIsTrue, Holding
  <2> QED BY <2>2, <2>3 DEF IInv
<1>2. IInv /\ [Next]_vars => IInv'
  <2> SUFFICES ASSUME IInv, [Next]_vars PROVE IInv'
    OBVIOUS
  <2>1. ASSUME NEW c \in Conv, RunGetsSession(c) \/ RunEnds(c) \/ DeleteSession(c) PROVE IInv'
    BY <2>1, Bystanders, BystandInv
  <2>2. ASSUME NEW u \in User, CallStep(u) \/ \E c \in Conv : Continue(u, c) \/ Resume(u, c) \/ Preempt(u, c)
        PROVE  IInv'
    BY <2>2, Bystanders, BystandInv, EnqueueInv DEF CallStep
  <2>3. ASSUME NEW d \in Drain, DrainLists(d) \/ DrainStep(d) PROVE IInv'
    BY <2>3, Bystanders, BystandInv, ClaimInv, DispatchInv, MarkInv DEF DrainStep
  <2>4. CASE UNCHANGED vars
    BY <2>4 DEF IInv, PromptTypes, DispatchingIsHeld, DrainsHold, MarkIsTrue, VerdictIsTrue, vars, queue, drains
  <2> QED BY <2>1, <2>2, <2>3, <2>4, RestartInv DEF Next
<1> QED BY <1>1, <1>2, PTL DEF Spec

-----------------------------------------------------------------------------
(* A prompt being dispatched is in the hands of exactly one drain, whatever *)
(* drains, users and restarts interleave.                                   *)
THEOREM HeldByOne == Spec => []DispatchingIsHeld
BY Invariance, PTL DEF IInv

(* A prompt marked done has been run; and without faults none is run twice, *)
(* or run and queued again or marked failed.                                *)
THEOREM MarkedTruly == Spec => []MarkIsTrue
BY Invariance, PTL DEF IInv

(* With one drain, nothing is queued ahead of the prompt it has claimed.    *)
OneDrain ==
  /\ prio \in [Item -> {0, 100}]
  /\ \A d \in Drain : ahead[d] = {}

LEMMA OneDrainStep ==
  ASSUME Kicked = {}, IInv, OneDrain, [Next]_vars
  PROVE  OneDrain'
<1> USE DEF OneDrain
<1>0. Drain = {Loop}
  BY DEF Drain
<1>1. ASSUME NEW u \in User, Enqueue(u) PROVE OneDrain'
  BY <1>1 DEF Enqueue
<1>2. ASSUME NEW d \in Drain, DrainClaims(d) PROVE OneDrain'
  <2> DEFINE P == PendingOf(Head(todo[d]))
  <2>1. \A j \in Item : state[j] # "dispatching"
    BY <1>0, <1>2 DEF IInv, DispatchingIsHeld, DrainsHold, Holding, DrainClaims, DrainAt, Item
  <2>2. CASE UNCHANGED ahead
    BY <1>2, <2>2 DEF DrainClaims
  <2>3. ASSUME NEW i \in P, FirstOf(P, i),
               ahead' = [ahead EXCEPT ![d] = {j \in Item : conv[j] = conv[i]
                           /\ state[j] \in {"pending", "dispatching"} /\ Preferred(j, i)}]
        PROVE  OneDrain'
    <3>1. i \in Item /\ conv[i] = Head(todo[d])
      BY <2>3 DEF PendingOf
    <3>2. ASSUME NEW j \in Item, conv[j] = conv[i], state[j] \in {"pending", "dispatching"}, Preferred(j, i)
          PROVE  FALSE
      <4>1. j \in P
        BY <2>1, <3>1, <3>2 DEF PendingOf
      <4>2. i = j \/ Preferred(i, j)
        BY <2>3, <4>1 DEF FirstOf
      <4>3. i \in Int /\ j \in Int /\ prio[i] \in Int /\ prio[j] \in Int
        BY <3>1 DEF Item
      <4> QED BY <3>2, <4>2, <4>3 DEF Preferred
    <3>3. UNCHANGED prio
      BY <1>2 DEF DrainClaims
    <3> QED BY <2>3, <3>2, <3>3
  <2> QED BY <1>2, <2>2, <2>3 DEF DrainClaims
<1>3. ASSUME NEW d \in Drain, DrainMarks(d) PROVE OneDrain'
  BY <1>3 DEF DrainMarks
<1>4. CASE ServerRestarts
  BY <1>4 DEF ServerRestarts, ServerForgets
<1>5. ASSUME UNCHANGED <<prio, ahead>> PROVE OneDrain'
  BY <1>5
<1>6. ASSUME NEW c \in Conv, RunGetsSession(c) \/ RunEnds(c) \/ DeleteSession(c) PROVE OneDrain'
  BY <1>5, <1>6 DEF RunGetsSession, RunEnds, DeleteSession, queue
<1>7. ASSUME NEW u \in User, UserCreates(u) \/ PreemptCancels(u)
             \/ \E c \in Conv : Continue(u, c) \/ Resume(u, c) \/ Preempt(u, c)
      PROVE  OneDrain'
  BY <1>5, <1>7 DEF UserCreates, PreemptCancels, Continue, Resume, Preempt, queue
<1>8. ASSUME NEW d \in Drain, DrainLists(d) \/ DrainReturns(d) \/ DrainScans(d) \/ DrainReads(d)
             \/ DrainCreates(d) \/ DrainStarts(d)
      PROVE  OneDrain'
  BY <1>5, <1>8 DEF DrainLists, DrainReturns, DrainScans, DrainReads, DrainCreates, DrainStarts, queue
<1>9. CASE UNCHANGED vars
  BY <1>5, <1>9 DEF vars, queue
<1> QED
  BY <1>1, <1>2, <1>3, <1>4, <1>6, <1>7, <1>8, <1>9 DEF Next, CallStep, DrainStep

(* The ticker alone runs the prompts of a conversation in order: it takes   *)
(* drains that run side by side to overtake.                                *)
THEOREM OrderAlone ==
  ASSUME Kicked = {}
  PROVE  Spec => InOrder
<1> DEFINE Ordered == \A d \in Drain : DrainAt(d, "creating") /\ dpc'[d] = "starting"
                        => \A j \in ahead[d] : state[j] \in {"done", "failed"}
<1>1. Init => OneDrain
  BY DEF Init, OneDrain
<1>2. IInv /\ OneDrain /\ [Next]_vars => OneDrain'
  BY OneDrainStep
<1>3. OneDrain => Ordered
  BY DEF OneDrain
<1>4. OneDrain /\ [Next]_vars => [Ordered]_vars
  BY <1>3
<1> QED BY <1>1, <1>2, <1>4, Invariance, PTL DEF Spec, InOrder

-----------------------------------------------------------------------------
(* The runs that drains start: whose they are, and where they run.         *)

(* The run a drain is about to start, while nobody has ended or replaced   *)
(* it.                                                                     *)
HasRun(d) ==
  LET c == Head(todo[d]) IN
  DrainAt(d, "starting") /\ latest[c] = "inflight" /\ runs[c] = made[d]

(* Of the latest runs of the conversations of one workdir, one is in       *)
(* flight: what lets the model leave out the earlier ones.                 *)
OneInFlight ==
  \A b, c \in Conv : b # c /\ DirOf[b] = DirOf[c] => latest[b] # "inflight" \/ latest[c] # "inflight"

(* What a drain is about to start is a run of the conversation of the      *)
(* prompt it holds, and no two drains are about to start runs in one       *)
(* workdir, nor the same run.                                              *)
StartsApart ==
  /\ OneInFlight
  /\ \A d \in Drain : DrainAt(d, "starting") => conv[item[d]] = Head(todo[d])
  /\ \A d, e \in Drain :
       d # e /\ HasRun(d) /\ HasRun(e) => DirOf[Head(todo[d])] # DirOf[Head(todo[e])]

(* The types this rests on: a prompt that was queued is of a conversation. *)
RunTypes ==
  /\ DOMAIN conv = Item /\ \A i \in Item : state[i] # "absent" => conv[i] \in Conv
  /\ runs \in [Conv -> Nat]
  /\ latest \in [Conv -> {"inflight", "ended", "blocked"}]
  /\ made \in [Drain -> Nat] /\ DOMAIN todo = Drain
  /\ DOMAIN call = User
  /\ \A u \in User : call[u].pc # "idle" => call[u].conv \in Conv

(* A drain with a prompt in hand is at the prompt's conversation; the run  *)
(* it has made is one of it, and another drain's is another one.           *)
RunsMade ==
  /\ \A d \in Drain : dpc[d] \in Holding => conv[item[d]] = Head(todo[d]) /\ Head(todo[d]) \in Conv
  /\ \A d \in Drain : dpc[d] = "starting" => made[d] <= runs[Head(todo[d])]
  /\ \A d, e \in Drain :
       d # e /\ dpc[d] = "starting" /\ dpc[e] = "starting" /\ Head(todo[d]) = Head(todo[e])
         => made[d] # made[e]

HInv == RunTypes /\ OneInFlight /\ RunsMade

(* Requests that leave the rows and the drains alone.                      *)
LEMMA CallsMove ==
  ASSUME HInv, UNCHANGED <<queue, drains>>, UNCHANGED <<latest, runs>>, DOMAIN call' = User,
         \A u \in User : call'[u].pc # "idle" => call'[u].conv \in Conv
  PROVE  HInv'
BY DEF HInv, RunTypes, OneInFlight, RunsMade, Holding, queue, drains

LEMMA UserStep ==
  ASSUME HInv, NEW u \in User,
         CallStep(u) \/ \E c \in Conv : Continue(u, c) \/ Resume(u, c) \/ Preempt(u, c),
         IInv
  PROVE  HInv'
<1>1. ASSUME NEW c \in Conv, Continue(u, c) \/ Resume(u, c) \/ Preempt(u, c) PROVE HInv'
  <2>1. UNCHANGED <<queue, drains>> /\ UNCHANGED <<latest, runs>>
    BY <1>1 DEF Continue, Resume, Preempt, rows
  <2>2. \E pc : call' = [call EXCEPT ![u] = [pc |-> pc, conv |-> c, run |-> runs[c]]]
    BY <1>1 DEF Continue, Resume, Preempt, CallGoes
  <2> QED BY <2>1, <2>2, CallsMove DEF HInv, RunTypes
<1>2. CASE UserCreates(u)
  <2> DEFINE c == call[u].conv
  <2>1. UNCHANGED <<queue, drains>> /\ call' = [call EXCEPT ![u] = NoConv]
    BY <1>2 DEF UserCreates, CallEnds
  <2>2. DOMAIN call' = User
        /\ \A v \in User : call'[v].pc # "idle" => call'[v].conv \in Conv
    BY <2>1 DEF HInv, RunTypes, NoConv
  <2>0. c \in Conv
    BY <1>2 DEF UserCreates, At, HInv, RunTypes
  <2>3. /\ runs' \in [Conv -> Nat] /\ \A b \in Conv : runs'[b] >= runs[b]
        /\ latest' \in [Conv -> {"inflight", "ended", "blocked"}]
        /\ OneInFlight'
    <3>1. CASE UNCHANGED rows
      BY <3>1 DEF rows, HInv, RunTypes, OneInFlight
    <3>2. CASE CreateRun(c)
      BY <2>0, <3>2 DEF CreateRun, DirBusy, HInv, RunTypes, OneInFlight
    <3> QED BY <1>2, <3>1, <3>2 DEF UserCreates
  <2>4. RunTypes'
    BY <2>1, <2>2, <2>3 DEF HInv, RunTypes, queue, drains
  <2>5. RunsMade'
    BY <2>1, <2>3 DEF HInv, RunTypes, RunsMade, Holding, queue, drains
  <2> QED BY <2>3, <2>4, <2>5 DEF HInv
<1>3. CASE PreemptCancels(u)
  <2>1. UNCHANGED <<queue, drains>> /\ UNCHANGED runs
    BY <1>3 DEF PreemptCancels, EndRun, rows
  <2>2. /\ DOMAIN call' = User
        /\ \A v \in User : call'[v].pc # "idle" => call'[v].conv \in Conv
    BY <1>3 DEF PreemptCancels, CallGoes, CallEnds, At, NoConv, HInv, RunTypes
  <2>3. latest' \in [Conv -> {"inflight", "ended", "blocked"}]
        /\ \A c \in Conv : latest'[c] = "inflight" => latest[c] = "inflight"
    BY <1>3 DEF PreemptCancels, EndRun, rows, HInv, RunTypes
  <2> QED BY <2>1, <2>2, <2>3 DEF HInv, RunTypes, OneInFlight, RunsMade, Holding, queue, drains
<1>4. CASE Enqueue(u)
  <2>1. PICK i \in Item :
          /\ state[i] = "absent" /\ state' = [state EXCEPT ![i] = "pending"]
          /\ conv' = [conv EXCEPT ![i] = call[u].conv]
    BY <1>4 DEF Enqueue
  <2>2. UNCHANGED <<latest, runs, drains>> /\ call' = [call EXCEPT ![u] = NoConv] /\ call[u].conv \in Conv
    BY <1>4 DEF Enqueue, rows, CallEnds, At, HInv, RunTypes
  <2>3. RunTypes'
    BY <2>1, <2>2 DEF HInv, RunTypes, drains, NoConv, IInv, PromptTypes
  <2>4. \A d \in Drain : dpc[d] \in Holding => item[d] \in Item /\ item[d] # i
    BY <2>1 DEF IInv, PromptTypes, DrainsHold, DispatchingIsHeld
  <2>5. RunsMade'
    BY <2>1, <2>2, <2>4 DEF HInv, RunTypes, RunsMade, drains, Holding
  <2>6. OneInFlight'
    BY <2>2 DEF HInv, OneInFlight
  <2> QED BY <2>3, <2>5, <2>6 DEF HInv
<1> QED BY <1>1, <1>2, <1>3, <1>4 DEF CallStep

(* Drains that go on, or stop, without a new prompt or a new run.          *)
LEMMA Onwards ==
  ASSUME HInv, UNCHANGED <<conv, runs>>,
         \A i \in Item : state[i] = "absent" => state'[i] = "absent",
         latest' \in [Conv -> {"inflight", "ended", "blocked"}],
         \A c \in Conv : latest'[c] = "inflight" => latest[c] = "inflight",
         made' \in [Drain -> Nat], DOMAIN todo' = Drain, DOMAIN call' = User,
         \A u \in User : call'[u].pc # "idle" => call'[u].conv \in Conv,
         \A e \in Drain : dpc'[e] \in Holding =>
           dpc[e] \in Holding /\ todo'[e] = todo[e] /\ item'[e] = item[e],
         \A e \in Drain : dpc'[e] = "starting" => dpc[e] = "starting" /\ made'[e] = made[e]
  PROVE  HInv'
<1>1. RunTypes'
  BY DEF HInv, RunTypes
<1>2. OneInFlight'
  BY DEF HInv, OneInFlight
<1>3. \A d \in Drain : dpc'[d] = "starting" => dpc'[d] \in Holding
  BY DEF Holding
<1>4. RunsMade'
  BY <1>3 DEF HInv, RunsMade
<1> QED BY <1>1, <1>2, <1>4 DEF HInv

LEMMA ClaimStep ==
  ASSUME HInv, IInv, NEW d \in Drain, DrainClaims(d)
  PROVE  HInv'
<1> USE DEF HInv, RunTypes, IInv, PromptTypes
<1>1. UNCHANGED <<conv, latest, runs, made, call>>
  BY DEF DrainClaims, rows
<1>2. CASE PendingOf(Head(todo[d])) = {} /\ todo' = [todo EXCEPT ![d] = Tail(@)]
           /\ DrainGoes(d, "scanning") /\ UNCHANGED <<state, item, ahead>>
  BY <1>1, <1>2, Onwards DEF DrainGoes, Holding
<1>3. ASSUME NEW i \in PendingOf(Head(todo[d])), state' = [state EXCEPT ![i] = "dispatching"],
             item' = [item EXCEPT ![d] = i], DrainGoes(d, "reading"), UNCHANGED todo
      PROVE  HInv'
  <2>1. i \in Item /\ conv[i] = Head(todo[d]) /\ state[i] = "pending" /\ conv[i] \in Conv
    BY <1>3 DEF PendingOf
  <2>2. RunTypes'
    BY <1>1, <1>3, <2>1
  <2>3. OneInFlight'
    BY <1>1 DEF OneInFlight
  <2>4. RunsMade'
    BY <1>1, <1>3, <2>1 DEF RunsMade, DrainGoes, Holding
  <2> QED BY <2>2, <2>3, <2>4
<1> QED BY <1>2, <1>3 DEF DrainClaims

LEMMA CreateStep ==
  ASSUME HInv, IInv, NEW d \in Drain, DrainCreates(d)
  PROVE  HInv'
<1> DEFINE c == Head(todo[d])
<1> USE DEF HInv, RunTypes, IInv, PromptTypes
<1>1. UNCHANGED <<state, conv, todo, item, call>> /\ dpc[d] = "creating" /\ c \in Conv
  BY DEF DrainCreates, queue, DrainAt, RunsMade, Holding
<1>2. CASE DrainDecides(d, "pending") /\ UNCHANGED <<rows, made>>
  <2>1. dpc' = [dpc EXCEPT ![d] = "marking"] /\ UNCHANGED <<latest, runs, made>>
    BY <1>2 DEF DrainDecides, DrainGoes, rows
  <2> QED BY <1>1, <2>1, Onwards DEF Holding
<1>3. CASE CreateRun(c) /\ made' = [made EXCEPT ![d] = runs'[c]] /\ DrainGoes(d, "starting")
  <2>1. runs' = [runs EXCEPT ![c] = @ + 1] /\ latest' = [latest EXCEPT ![c] = "inflight"] /\ ~DirBusy(c)
    BY <1>3 DEF CreateRun
  <2>2. RunTypes'
    BY <1>1, <1>3, <2>1
  <2>3. OneInFlight'
    BY <1>1, <2>1 DEF OneInFlight, DirBusy
  <2>4. made'[d] = runs[c] + 1 /\ runs'[c] = runs[c] + 1 /\ \A b \in Conv : runs'[b] >= runs[b]
    BY <1>1, <1>3, <2>1
  <2>5. \A e \in Drain : e # d => made'[e] = made[e] /\ dpc'[e] = dpc[e]
    BY <1>3 DEF DrainGoes
  <2>6. \A e \in Drain : e # d /\ dpc[e] = "starting" => made[e] <= runs[Head(todo[e])] /\ Head(todo[e]) \in Conv
    BY DEF RunsMade, Holding
  <2>7. \A e \in Drain : e # d /\ dpc[e] = "starting" /\ Head(todo[e]) = c => made'[e] # made'[d]
    BY <1>1, <2>4, <2>5, <2>6
  <2>8. \A e \in Drain : dpc'[e] = "starting" => made'[e] <= runs'[Head(todo[e])]
    <3>1. ASSUME NEW e \in Drain, e # d, dpc[e] = "starting" PROVE made'[e] <= runs'[Head(todo'[e])]
      <4>1. made[e] <= runs[Head(todo[e])] /\ Head(todo[e]) \in Conv /\ made'[e] = made[e]
        BY <2>5, <2>6, <3>1
      <4>2. made[e] \in Nat /\ runs[Head(todo[e])] \in Nat /\ runs'[Head(todo[e])] \in Nat
        BY <2>2, <4>1
      <4> QED BY <1>1, <2>4, <4>1, <4>2
    <3>2. made'[d] <= runs'[Head(todo[d])]
      BY <1>1, <2>4
    <3> QED BY <1>1, <2>5, <3>1, <3>2
  <2>9. \A e \in Drain : dpc'[e] \in Holding => conv[item[e]] = Head(todo[e]) /\ Head(todo[e]) \in Conv
    BY <1>1, <2>5 DEF RunsMade, Holding
  <2>10. RunsMade'
    BY <1>1, <2>5, <2>7, <2>8, <2>9 DEF RunsMade
  <2> QED BY <2>2, <2>3, <2>10
<1> QED BY <1>2, <1>3 DEF DrainCreates

LEMMA DrainMoves ==
  ASSUME HInv, IInv, NEW d \in Drain, DrainLists(d) \/ DrainStep(d)
  PROVE  HInv'
<1> USE DEF HInv, RunTypes, IInv, PromptTypes
<1>1. CASE DrainLists(d) \/ DrainReturns(d) \/ DrainScans(d)
  <2>1. UNCHANGED <<state, conv, latest, runs, item, made, call>>
    BY <1>1 DEF DrainLists, DrainReturns, DrainScans, queue, rows
  <2>2. /\ \A e \in Drain : e # d => dpc'[e] = dpc[e] /\ todo'[e] = todo[e]
        /\ dpc'[d] \notin Holding /\ DOMAIN todo' = Drain
    BY <1>1 DEF DrainLists, DrainReturns, DrainScans, DrainGoes, DrainAt, Holding
  <2> QED BY <2>1, <2>2, Onwards DEF Holding
<1>2. CASE DrainReads(d)
  <2>1. UNCHANGED <<state, conv, latest, runs, todo, item, made, call>>
    BY <1>2 DEF DrainReads, queue, rows
  <2>2. /\ \A e \in Drain : e # d => dpc'[e] = dpc[e]
        /\ dpc[d] = "reading" /\ dpc'[d] \in {"marking", "creating"}
    BY <1>2 DEF DrainReads, DrainDecides, DrainGoes, DrainAt
  <2> QED BY <2>1, <2>2, Onwards DEF Holding
<1>3. CASE DrainStarts(d)
  <2>1. UNCHANGED <<state, conv, runs, todo, item, call>> /\ made' = [made EXCEPT ![d] = 0]
    BY <1>3 DEF DrainStarts, queue
  <2>2. latest' \in {latest, [latest EXCEPT ![Head(todo[d])] = "ended"]}
    BY <1>3 DEF DrainStarts
  <2>3. dpc[d] = "starting" /\ dpc' = [dpc EXCEPT ![d] = "marking"]
    BY <1>3 DEF DrainStarts, DrainDecides, DrainGoes, DrainAt
  <2>4. /\ latest' \in [Conv -> {"inflight", "ended", "blocked"}]
        /\ \A c \in Conv : latest'[c] = "inflight" => latest[c] = "inflight"
    BY <2>2
  <2> QED BY <2>1, <2>3, <2>4, Onwards DEF Holding
<1>4. CASE DrainMarks(d)
  <2>1. UNCHANGED <<conv, latest, runs, made, call>>
    BY <1>4 DEF DrainMarks, rows
  <2>2. dpc[d] = "marking" /\ dpc' = [dpc EXCEPT ![d] = "scanning"] /\ todo' = [todo EXCEPT ![d] = Tail(@)]
        /\ item' = [item EXCEPT ![d] = 0] /\ state' = [state EXCEPT ![item[d]] = verdict[d]]
    BY <1>4 DEF DrainMarks, DrainGoes, DrainAt
  <2>3. \A i \in Item : state[i] = "absent" => i # item[d]
    BY <2>2 DEF DispatchingIsHeld
  <2> QED BY <2>1, <2>2, <2>3, Onwards DEF Holding
<1> QED BY <1>1, <1>2, <1>3, <1>4, ClaimStep, CreateStep DEF DrainStep

LEMMA HInvStep == HInv /\ IInv /\ [Next]_vars => HInv'
<1> SUFFICES ASSUME HInv, IInv, [Next]_vars PROVE HInv'
  OBVIOUS
<1>1. ASSUME NEW c \in Conv, RunGetsSession(c) \/ RunEnds(c) \/ DeleteSession(c) PROVE HInv'
  <2>1. UNCHANGED <<queue, drains>> /\ UNCHANGED <<runs, call>>
    BY <1>1 DEF RunGetsSession, RunEnds, DeleteSession
  <2>2. UNCHANGED latest \/ \E s \in {"ended", "blocked"} : latest' = [latest EXCEPT ![c] = s]
    BY <1>1 DEF RunGetsSession, RunEnds, DeleteSession
  <2> QED BY <2>1, <2>2, Onwards DEF HInv, RunTypes, queue, drains
<1>2. CASE ServerRestarts
  <2>1. UNCHANGED <<conv, latest, runs>> /\ made' \in [Drain -> Nat] /\ DOMAIN todo' = Drain /\ DOMAIN call' = User
    BY <1>2 DEF ServerRestarts, ServerForgets, rows
  <2>2. \A e \in Drain : dpc'[e] = "idle"
    BY <1>2 DEF ServerRestarts, ServerForgets
  <2>3. \A u \in User : call'[u].pc = "idle"
    BY <1>2 DEF ServerRestarts, ServerForgets, NoConv
  <2>4. \A i \in Item : state[i] = "absent" => state'[i] = "absent"
    BY <1>2 DEF ServerRestarts
  <2> QED BY <2>1, <2>2, <2>3, <2>4, Onwards DEF HInv, RunTypes, Holding
<1>3. CASE UNCHANGED vars
  BY <1>3, Onwards DEF vars, queue, rows, drains, HInv, RunTypes
<1> QED BY <1>1, <1>2, <1>3, UserStep, DrainMoves DEF Next

(* However the ticker's drain, those of preempting requests, users' own     *)
(* requests and restarts interleave, a prompt's run is made in its own      *)
(* conversation, no two runs are in flight in a workdir, and no two drains  *)
(* are about to start one there (CreateContinueTaskForConversation,         *)
(* drainContinueQueueConversation).                                         *)
THEOREM DispatchedApart == Spec => []StartsApart
<1>1. Init => HInv
  <2> SUFFICES ASSUME Init PROVE HInv
    OBVIOUS
  <2>1. RunTypes
    BY DEF Init, RunTypes, NoConv
  <2>2. OneInFlight
    BY DEF Init, OneInFlight
  <2>3. RunsMade
    BY DEF Init, RunsMade, Holding
  <2> QED BY <2>1, <2>2, <2>3 DEF HInv
<1>2. HInv => StartsApart
  <2> SUFFICES ASSUME HInv PROVE StartsApart
    OBVIOUS
  <2>1. \A d \in Drain : DrainAt(d, "starting") => conv[item[d]] = Head(todo[d]) /\ Head(todo[d]) \in Conv
    BY DEF HInv, RunsMade, Holding, DrainAt
  <2>2. ASSUME NEW d \in Drain, NEW e \in Drain, d # e, HasRun(d), HasRun(e),
               DirOf[Head(todo[d])] = DirOf[Head(todo[e])]
        PROVE  FALSE
    <3>1. Head(todo[d]) = Head(todo[e])
      BY <2>1, <2>2 DEF HInv, OneInFlight, HasRun
    <3> QED BY <2>2, <3>1 DEF HInv, RunsMade, HasRun, DrainAt
  <2> QED BY <2>1, <2>2 DEF StartsApart, HInv
<1> QED BY <1>1, <1>2, HInvStep, Invariance, PTL DEF Spec
=============================================================================
