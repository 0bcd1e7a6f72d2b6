------------------------------ MODULE Startup ------------------------------
(***************************************************************************)
(* How servers and runner daemons of one data directory come up.  A server *)
(* looks for a running server, takes the instance token (or makes one),    *)
(* attaches to the daemon of its own build (replacing one of another), and *)
(* only then binds its port.  A daemon starts under a lock on the data     *)
(* directory, interrupts the runs of its predecessor and binds its port.   *)
(* Processes start concurrently, are slow, and die.                        *)
(*                                                                         *)
(* A token is the number of the process that made it; 0 is no token.       *)
(***************************************************************************)
EXTENDS Integers, FiniteSets

CONSTANTS
  NServers,     \* servers that may be launched
  NDaemons,     \* daemons that may be spawned
  BuildOf,      \* the binary stamp of each server
  MaxCrashes    \* bound on the processes that die by themselves

Server == 1 .. NServers
Daemon == NServers + 1 .. NServers + NDaemons
None   == 0

ASSUME StartupAssumption ==
  /\ NServers \in Nat /\ NDaemons \in Nat /\ MaxCrashes \in Nat

VARIABLES
  tokenFile,    \* instance.token
  server,       \* pc, token in hand, daemon it is to kill
  daemon,       \* pc, token, build
  lockOwner,    \* who holds the flock of runnerd.lock
  serverPort, daemonPort,   \* who listens
  crashes,
  attached,     \* history: the daemon each server found healthy
  marked        \* history: daemons that were running tasks when another interrupted them

startupVars == <<tokenFile, server, daemon, lockOwner, serverPort, daemonPort,
                 crashes, attached, marked>>

Build    == {BuildOf[s] : s \in Server}
ServerPc == {"idle", "probe", "token", "new_token", "health", "kill", "wait_down", "spawn",
             "poll", "loops", "bind", "serving", "gone"}
DaemonPc == {"none", "lock", "token", "new_token", "mark", "listen", "serving", "dying", "dead"}

StartupTypeOK ==
  /\ tokenFile \in 0 .. NServers + NDaemons
  /\ server \in [Server -> [pc : ServerPc, token : 0 .. NServers + NDaemons, victim : Daemon \cup {None}]]
  /\ daemon \in [Daemon -> [pc : DaemonPc, token : 0 .. NServers + NDaemons, build : Build \cup {"none"}]]
  /\ lockOwner \in Daemon \cup {None} /\ daemonPort \in Daemon \cup {None}
  /\ serverPort \in Server \cup {None}
  /\ crashes \in 0 .. MaxCrashes
  /\ attached \in [Server -> Daemon \cup {None}]
  /\ marked \subseteq Daemon

StartupInit ==
  /\ tokenFile = None
  /\ server = [s \in Server |-> [pc |-> "idle", token |-> None, victim |-> None]]
  /\ daemon = [d \in Daemon |-> [pc |-> "none", token |-> None, build |-> "none"]]
  /\ lockOwner = None /\ serverPort = None /\ daemonPort = None
  /\ crashes = 0
  /\ attached = [s \in Server |-> None]
  /\ marked = {}

-----------------------------------------------------------------------------
ServerAt(s, from, to) ==
  /\ server[s].pc = from
  /\ server' = [server EXCEPT ![s].pc = to]
DaemonAt(d, from, to) ==
  /\ daemon[d].pc = from
  /\ daemon' = [daemon EXCEPT ![d].pc = to]

Files   == <<tokenFile>>
Ports   == <<serverPort, daemonPort>>
History == <<crashes, attached, marked>>

(* What /health answers: nothing (refused, too slow), a refusal, or the     *)
(* daemon's build.  A daemon that is dying may still answer.                *)
Healthy(s)   == daemonPort # None /\ daemon[daemonPort].token = server[s].token
Forbidden(s) == daemonPort # None /\ daemon[daemonPort].token # server[s].token
SameBuild(s) == daemon[daemonPort].build = BuildOf[s]

-----------------------------------------------------------------------------
(* main: is a server running already? *)
LaunchServer(s) ==
  /\ ServerAt(s, "idle", "probe")
  /\ UNCHANGED <<Files, daemon, lockOwner, Ports, History>>

ProbeServer(s) ==
  /\ \/ serverPort # None /\ ServerAt(s, "probe", "gone")
     \/ ServerAt(s, "probe", "token")      \* none, or too slow to answer
  /\ UNCHANGED <<Files, daemon, lockOwner, Ports, History>>

(* LoadOrCreateInstanceToken: read; without a token, make one and rename it *)
(* into place.  Nothing keeps two processes from making one each.           *)
ServerReadsToken(s) ==
  /\ server[s].pc = "token"
  /\ server' = [server EXCEPT ![s].pc = IF tokenFile # None THEN "health" ELSE "new_token",
                              ![s].token = tokenFile]
  /\ UNCHANGED <<Files, daemon, lockOwner, Ports, History>>

ServerMakesToken(s) ==
  /\ server[s].pc = "new_token"
  /\ server' = [server EXCEPT ![s].pc = "health", ![s].token = s]
  /\ tokenFile' = s
  /\ UNCHANGED <<daemon, lockOwner, Ports, History>>

Attach(s) == attached' = [attached EXCEPT ![s] = daemonPort]

(* ensureRunnerd, first check. *)
EnsureRunnerd(s) ==
  /\ server[s].pc = "health"
  /\ \/ /\ server' = [server EXCEPT ![s].pc = "spawn"]      \* refused or too slow
        /\ UNCHANGED attached
     \/ /\ Forbidden(s)
        /\ server' = [server EXCEPT ![s].pc = "gone"]
        /\ UNCHANGED attached
     \/ /\ Healthy(s) /\ SameBuild(s)
        /\ server' = [server EXCEPT ![s].pc = "loops"]
        /\ Attach(s)
     \/ /\ Healthy(s) /\ ~SameBuild(s)
        /\ server' = [server EXCEPT ![s].pc = "kill", ![s].victim = daemonPort]
        /\ UNCHANGED attached
  /\ UNCHANGED <<Files, daemon, lockOwner, Ports, crashes, marked>>

(* killProcessByPID: the process dies, not at once. *)
KillDaemon(s) ==
  /\ ServerAt(s, "kill", "wait_down")
  /\ daemon' = [daemon EXCEPT ![server[s].victim].pc = IF @ \in {"dying", "dead"} THEN @ ELSE "dying"]
  /\ UNCHANGED <<Files, lockOwner, Ports, History>>

(* waitRunnerdDown: down, refused by someone else's daemon, or two seconds  *)
(* are over.                                                                *)
WaitDown(s) ==
  /\ \/ ~Healthy(s) /\ ~Forbidden(s) /\ ServerAt(s, "wait_down", "spawn")
     \/ daemonPort # None /\ ServerAt(s, "wait_down", "gone")
  /\ UNCHANGED <<Files, daemon, lockOwner, Ports, History>>

NewDaemon(d, build) ==
  /\ daemon[d].pc = "none" /\ \A e \in Daemon : daemon[e].pc = "none" => d <= e
  /\ daemon' = [daemon EXCEPT ![d] = [pc |-> "lock", token |-> None, build |-> build]]

SpawnDaemon(s) ==
  /\ ServerAt(s, "spawn", "poll")
  /\ \E d \in Daemon : NewDaemon(d, BuildOf[s])
  /\ UNCHANGED <<Files, lockOwner, Ports, History>>

(* A user may start a daemon without a server (--mode runnerd). *)
LaunchDaemon(d, build) ==
  /\ NewDaemon(d, build)
  /\ UNCHANGED <<Files, server, lockOwner, Ports, History>>

(* Poll until healthy; another build, a refusal or three seconds: give up.  *)
PollRunnerd(s) ==
  /\ \/ Healthy(s) /\ SameBuild(s) /\ ServerAt(s, "poll", "loops") /\ Attach(s)
     \/ ServerAt(s, "poll", "gone") /\ UNCHANGED attached
  /\ UNCHANGED <<Files, daemon, lockOwner, Ports, crashes, marked>>

(* StartBackgroundLoops comes before the port is bound. *)
StartLoops(s) ==
  /\ ServerAt(s, "loops", "bind")
  /\ UNCHANGED <<Files, daemon, lockOwner, Ports, History>>

BindServer(s) ==
  /\ \/ serverPort = None /\ ServerAt(s, "bind", "serving") /\ serverPort' = s
     \/ serverPort # None /\ ServerAt(s, "bind", "gone") /\ UNCHANGED serverPort
  /\ UNCHANGED <<Files, daemon, lockOwner, daemonPort, History>>

-----------------------------------------------------------------------------
(* runRunnerd. *)
UnlockedOrUnbound == lockOwner = None \/ daemonPort = None

Unlocked == lockOwner = None

(* AcquireSingleInstanceLock. *)
AcquireLock(d) ==
  /\ daemon[d].pc = "lock"
  /\ \/ Unlocked /\ lockOwner' = d /\ DaemonAt(d, "lock", "token")
     \/ ~Unlocked /\ DaemonAt(d, "lock", "dead") /\ UNCHANGED lockOwner
  /\ UNCHANGED <<Files, server, Ports, History>>

DaemonReadsToken(d) ==
  /\ daemon[d].pc = "token"
  /\ daemon' = [daemon EXCEPT ![d].pc = IF tokenFile # None THEN "mark" ELSE "new_token",
                              ![d].token = tokenFile]
  /\ UNCHANGED <<Files, server, lockOwner, Ports, History>>

DaemonMakesToken(d) ==
  /\ daemon[d].pc = "new_token"
  /\ daemon' = [daemon EXCEPT ![d].pc = "mark", ![d].token = d]
  /\ tokenFile' = d
  /\ UNCHANGED <<server, lockOwner, Ports, History>>

(* MarkInterrupted, for the runs of whatever daemon was there before.       *)
Running(d) ==
  \/ daemon[d].pc \in {"listen", "serving"}
  \/ daemon[d].pc = "dying" /\ lockOwner = d
DaemonMarks(d) ==
  /\ DaemonAt(d, "mark", "listen")
  /\ marked' = marked \cup {e \in Daemon \ {d} : Running(e)}
  /\ UNCHANGED <<Files, server, lockOwner, Ports, crashes, attached>>

BindDaemon(d) ==
  /\ \/ daemonPort = None /\ DaemonAt(d, "listen", "serving") /\ daemonPort' = d
     \/ daemonPort # None /\ DaemonAt(d, "listen", "dying") /\ UNCHANGED daemonPort
  /\ UNCHANGED <<Files, server, lockOwner, serverPort, History>>

(* A process that ends closes its sockets and its lock file in some order,  *)
(* once its threads have stopped.                                           *)
ClosePort(d) ==
  /\ daemon[d].pc = "dying" /\ daemonPort = d
  /\ daemonPort' = None
  /\ UNCHANGED <<Files, server, daemon, lockOwner, serverPort, History>>

ReleaseLock(d) ==
  /\ daemon[d].pc = "dying" /\ lockOwner = d
  /\ lockOwner' = None
  /\ UNCHANGED <<Files, server, daemon, Ports, History>>

DaemonIsGone(d) ==
  /\ daemonPort # d /\ lockOwner # d
  /\ DaemonAt(d, "dying", "dead")
  /\ UNCHANGED <<Files, server, lockOwner, Ports, History>>

DaemonCrashes(d) ==
  /\ crashes < MaxCrashes /\ crashes' = crashes + 1
  /\ daemon[d].pc \in {"token", "new_token", "mark", "listen", "serving"}
  /\ daemon' = [daemon EXCEPT ![d].pc = "dying"]
  /\ UNCHANGED <<Files, server, lockOwner, Ports, attached, marked>>

ServerCrashes(s) ==
  /\ crashes < MaxCrashes /\ crashes' = crashes + 1
  /\ server[s].pc \notin {"idle", "gone"}
  /\ server' = [server EXCEPT ![s].pc = "gone"]
  /\ serverPort' = IF serverPort = s THEN None ELSE serverPort
  /\ UNCHANGED <<Files, daemon, lockOwner, daemonPort, attached, marked>>

StartupNext ==
  \/ \E s \in Server :
       \/ LaunchServer(s) \/ ProbeServer(s) \/ ServerReadsToken(s) \/ ServerMakesToken(s)
       \/ EnsureRunnerd(s) \/ KillDaemon(s) \/ WaitDown(s) \/ SpawnDaemon(s) \/ PollRunnerd(s)
       \/ StartLoops(s) \/ BindServer(s) \/ ServerCrashes(s)
  \/ \E d \in Daemon :
       \/ AcquireLock(d) \/ DaemonReadsToken(d) \/ DaemonMakesToken(d) \/ DaemonMarks(d)
       \/ BindDaemon(d) \/ ClosePort(d) \/ ReleaseLock(d) \/ DaemonIsGone(d)
       \/ DaemonCrashes(d)
  \/ \E d \in Daemon, b \in Build : LaunchDaemon(d, b)

StartupSpec == StartupInit /\ [][StartupNext]_startupVars

-----------------------------------------------------------------------------
(* Servers launched together, daemons spawned twice, killed and slow to     *)
(* die, tokens made twice: no daemon ever interrupts the runs of one that   *)
(* is still there, two daemons never run tasks at a time, and a server that *)
(* serves has a daemon of its own build that takes its token for as long as *)
(* that daemon is there.                                                    *)
DaemonIsMine ==
  /\ marked = {}
  /\ Cardinality({d \in Daemon : Running(d)}) <= 1
  /\ \A s \in Server :
       server[s].pc = "serving" =>
         /\ attached[s] # None
         /\ daemon[attached[s]].token = server[s].token
         /\ daemon[attached[s]].build = BuildOf[s]
=============================================================================
