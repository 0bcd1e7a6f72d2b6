---------------------------- MODULE WorkdirLock ----------------------------
(***************************************************************************)
(* What the tasks table promises about working directories: each is a lock *)
(* with a first-come first-served queue.  A client comes once, takes the   *)
(* lock of its directory or waits for it, and leaves.  A restart may take  *)
(* the lock from any set of holders.  If Reopens, a client that has left   *)
(* may be back as a holder without asking, and the lock is not exclusive   *)
(* with respect to it.                                                     *)
(***************************************************************************)
EXTENDS Integers

CONSTANTS
  NClients,   \* the number of clients, named by the order they come in
  Dir,        \* the directories
  DirOf,      \* the directory of each client
  Reopens     \* may a client that has left come back?

Client == 1 .. NClients

VARIABLES
  phase,      \* where each client is
  reopened    \* clients that have come back

vars == <<phase, reopened>>

TypeOK ==
  /\ phase \in [Client -> {"new", "waiting", "holding", "left"}]
  /\ reopened \subseteq Client

Init ==
  /\ phase = [c \in Client |-> "new"]
  /\ reopened = {}

In(c, p) == {d \in Client : DirOf[d] = DirOf[c] /\ phase[d] = p}

Comes(c, p) ==
  /\ phase[c] = "new"
  /\ \A d \in Client : d < c => phase[d] # "new"
  /\ phase' = [phase EXCEPT ![c] = p]
  /\ UNCHANGED reopened

Take(c) ==
  /\ In(c, "holding") \cup In(c, "waiting") = {}
  /\ Comes(c, "holding")

Wait(c) ==
  /\ In(c, "holding") \cup In(c, "waiting") # {}
  /\ Comes(c, "waiting")

Grant(c) ==
  /\ phase[c] = "waiting"
  /\ In(c, "holding") = {}
  /\ \A d \in In(c, "waiting") : c <= d
  /\ phase' = [phase EXCEPT ![c] = "holding"]
  /\ UNCHANGED reopened

GiveUp(c) ==
  /\ phase[c] = "waiting"
  /\ phase' = [phase EXCEPT ![c] = "left"]
  /\ UNCHANGED reopened

Release(S) ==
  /\ \A c \in S : phase[c] = "holding"
  /\ phase' = [c \in Client |-> IF c \in S THEN "left" ELSE phase[c]]
  /\ UNCHANGED reopened

Reopen(c) ==
  /\ Reopens
  /\ phase[c] = "left"
  /\ phase' = [phase EXCEPT ![c] = "holding"]
  /\ reopened' = reopened \cup {c}

Next ==
  \/ \E c \in Client : Take(c) \/ Wait(c) \/ Grant(c) \/ GiveUp(c) \/ Reopen(c)
  \/ \E S \in SUBSET Client : Release(S)

Spec == Init /\ [][Next]_vars

=============================================================================
