----------------------------- MODULE EventFlow -----------------------------
(***************************************************************************)
(* How a change of one task reaches those who watch it: the goroutines of  *)
(* the daemon publish the row to the daemon's hub, a bridge republishes    *)
(* its events in the server's hub, whose subscribers are the browser (over *)
(* SSE) and the secretary's reporter.  A row is read before its event is   *)
(* numbered, and numbered before it is delivered; a full buffer and a      *)
(* broken connection lose events without notice.                           *)
(*                                                                         *)
(* The row is its version; the last one is terminal.  Bridged heartbeats   *)
(* only take sequence numbers and are left out.                            *)
(***************************************************************************)
EXTENDS Integers, Sequences

CONSTANTS
  Publisher,    \* goroutines of the daemon that publish the row
  Direct,       \* a request of the server that publishes it to the server's hub
  Bridge,       \* the goroutine of BridgeSSEToHub
  MaxVersion,   \* versions of the row; the last one is its end
  MaxExtra,     \* bound on the publishes that follow no write (throttled updates)
  BufferSize,   \* of each subscription (256)
  MaxBreaks     \* bound on the broken connections

ASSUME EventFlowAssumption ==
  /\ MaxVersion \in Nat \ {0} /\ BufferSize \in Nat \ {0}
  /\ MaxExtra \in Nat /\ MaxBreaks \in Nat

Goroutine == Publisher \cup {Direct, Bridge}

VARIABLES
  row,        \* version of the row in the tasks table
  pub,        \* what each goroutine is about to publish
  seq,        \* Hub.seq of the server
  toBridge, toBrowser, toReporter,   \* the subscriptions' channels
  bridgeUp, browserUp,               \* the SSE connections
  extra, breaks,
  ui,         \* the row the browser shows
  lastSeq,    \* lastEventSeq
  fetch,      \* refreshTasks in flight: not asked, asked, or the answer
  reported,   \* lastStatus of the reporter
  told,       \* how often the secretary was told of the end
  lost        \* history: an event of the end was lost on its way

eventVars == <<row, pub, seq, toBridge, toBrowser, toReporter, bridgeUp, browserUp,
               extra, breaks, ui, lastSeq, fetch, reported, told, lost>>

Version  == 0 .. MaxVersion
None     == -1
Asked    == -2
Event    == [version : Version, seq : Nat]
Idle     == [at |-> "idle", version |-> None, seq |-> 0]

EventTypeOK ==
  /\ row \in Version
  /\ pub \in [Goroutine -> [at : {"idle", "written", "read", "numbered"},
                            version : Version \cup {None}, seq : Nat]]
  /\ seq \in Nat
  /\ toBridge \in Seq(Version) /\ toBrowser \in Seq(Event) /\ toReporter \in Seq(Version)
  /\ bridgeUp \in BOOLEAN /\ browserUp \in BOOLEAN
  /\ extra \in 0 .. MaxExtra /\ breaks \in 0 .. MaxBreaks
  /\ ui \in Version /\ lastSeq \in Nat
  /\ fetch \in Version \cup {None, Asked}
  /\ reported \in Version \cup {None}
  /\ told \in Nat /\ lost \in BOOLEAN

EventInit ==
  /\ row = 0 /\ ui = 0
  /\ pub = [g \in Goroutine |-> Idle]
  /\ seq = 0
  /\ toBridge = <<>> /\ toBrowser = <<>> /\ toReporter = <<>>
  /\ bridgeUp = TRUE /\ browserUp = TRUE
  /\ extra = 0 /\ breaks = 0
  /\ lastSeq = 0 /\ fetch = None
  /\ reported = None /\ told = 0 /\ lost = FALSE

-----------------------------------------------------------------------------
(* Writers: each publishes the row after its write (publishTaskUpdated),    *)
(* some without one (publishTaskUpdatedThrottled).                          *)

WriteRow(g) ==
  /\ pub[g] = Idle /\ row < MaxVersion
  /\ row' = row + 1
  /\ pub' = [pub EXCEPT ![g].at = "written"]
  /\ UNCHANGED <<seq, toBridge, toBrowser, toReporter, bridgeUp, browserUp, extra, breaks,
                 ui, lastSeq, fetch, reported, told, lost>>

PublishUnwritten(g) ==
  /\ g \in Publisher /\ pub[g] = Idle /\ extra < MaxExtra
  /\ extra' = extra + 1
  /\ pub' = [pub EXCEPT ![g].at = "written"]
  /\ UNCHANGED <<row, seq, toBridge, toBrowser, toReporter, bridgeUp, browserUp, breaks,
                 ui, lastSeq, fetch, reported, told, lost>>

(* GetTask. *)
ReadRow(g) ==
  /\ pub[g].at = "written"
  /\ pub' = [pub EXCEPT ![g] = [at |-> "read", version |-> row, seq |-> 0]]
  /\ UNCHANGED <<row, seq, toBridge, toBrowser, toReporter, bridgeUp, browserUp, extra, breaks,
                 ui, lastSeq, fetch, reported, told, lost>>

(* Publish of the daemon's hub: the bridge is a subscriber while it is      *)
(* connected; a full channel drops the event.                               *)
Accepted(channel, event) == IF Len(channel) < BufferSize THEN Append(channel, event) ELSE channel
Refused(channel, version) == version = MaxVersion /\ Len(channel) >= BufferSize

PublishToDaemonHub(g) ==
  /\ g \in Publisher /\ pub[g].at = "read"
  /\ toBridge' = IF bridgeUp THEN Accepted(toBridge, pub[g].version) ELSE toBridge
  /\ lost' = (lost \/ IF bridgeUp THEN Refused(toBridge, pub[g].version) ELSE pub[g].version = MaxVersion)
  /\ pub' = [pub EXCEPT ![g] = Idle]
  /\ UNCHANGED <<row, seq, toBrowser, toReporter, bridgeUp, browserUp, extra, breaks,
                 ui, lastSeq, fetch, reported, told>>

(* consumeSSE hands the next event to the server's hub. *)
BridgeForwards ==
  /\ bridgeUp /\ toBridge # <<>> /\ pub[Bridge] = Idle
  /\ pub' = [pub EXCEPT ![Bridge] = [at |-> "read", version |-> Head(toBridge), seq |-> 0]]
  /\ toBridge' = Tail(toBridge)
  /\ UNCHANGED <<row, seq, toBrowser, toReporter, bridgeUp, browserUp, extra, breaks,
                 ui, lastSeq, fetch, reported, told, lost>>

(* Publish of the server's hub takes its number before the lock. *)
TakeNumber(g) ==
  /\ g \in {Direct, Bridge} /\ pub[g].at = "read"
  /\ seq' = seq + 1
  /\ pub' = [pub EXCEPT ![g].at = "numbered", ![g].seq = seq + 1]
  /\ UNCHANGED <<row, toBridge, toBrowser, toReporter, bridgeUp, browserUp, extra, breaks,
                 ui, lastSeq, fetch, reported, told, lost>>

Deliver(g) ==
  /\ g \in {Direct, Bridge} /\ pub[g].at = "numbered"
  /\ toBrowser' = IF browserUp
                  THEN Accepted(toBrowser, [version |-> pub[g].version, seq |-> pub[g].seq])
                  ELSE toBrowser
  /\ toReporter' = Accepted(toReporter, pub[g].version)
  /\ lost' = (lost \/ Refused(toReporter, pub[g].version))
  /\ pub' = [pub EXCEPT ![g] = Idle]
  /\ UNCHANGED <<row, seq, toBridge, bridgeUp, browserUp, extra, breaks,
                 ui, lastSeq, fetch, reported, told>>

-----------------------------------------------------------------------------
(* Connections: what is buffered for one that breaks is gone. *)

BridgeBreaks ==
  /\ bridgeUp /\ breaks < MaxBreaks
  /\ breaks' = breaks + 1 /\ bridgeUp' = FALSE
  /\ lost' = (lost \/ \E i \in DOMAIN toBridge : toBridge[i] = MaxVersion)
  /\ toBridge' = <<>>
  /\ UNCHANGED <<row, pub, seq, toBrowser, toReporter, browserUp, extra,
                 ui, lastSeq, fetch, reported, told>>

BridgeReconnects ==
  /\ ~bridgeUp /\ bridgeUp' = TRUE
  /\ UNCHANGED <<row, pub, seq, toBridge, toBrowser, toReporter, browserUp, extra, breaks,
                 ui, lastSeq, fetch, reported, told, lost>>

BrowserBreaks ==
  /\ browserUp /\ breaks < MaxBreaks
  /\ breaks' = breaks + 1 /\ browserUp' = FALSE
  /\ toBrowser' = <<>>
  /\ UNCHANGED <<row, pub, seq, toBridge, toReporter, bridgeUp, extra,
                 ui, lastSeq, fetch, reported, told, lost>>

(* resync: not while one is in flight, and (throttled) not too soon after   *)
(* the last.                                                                *)
Resync     == fetch' = IF fetch = None THEN Asked ELSE fetch
MayResync  == Resync \/ UNCHANGED fetch

BrowserReconnects ==
  /\ ~browserUp /\ browserUp' = TRUE
  /\ lastSeq' = 0
  /\ MayResync
  /\ UNCHANGED <<row, pub, seq, toBridge, toBrowser, toReporter, bridgeUp, extra, breaks,
                 ui, reported, told, lost>>

(* handleServerEvent. *)
BrowserHandles ==
  /\ browserUp /\ toBrowser # <<>>
  /\ LET event == Head(toBrowser)
     IN /\ IF lastSeq > 0 /\ event.seq # lastSeq + 1 THEN MayResync ELSE UNCHANGED fetch
        /\ lastSeq' = event.seq
        /\ ui' = event.version
  /\ toBrowser' = Tail(toBrowser)
  /\ UNCHANGED <<row, pub, seq, toBridge, toReporter, bridgeUp, browserUp, extra, breaks,
                 reported, told, lost>>

HeartbeatIgnored == browserUp /\ UNCHANGED eventVars

(* A heartbeat more than a minute after the last resync. *)
Heartbeat ==
  /\ browserUp
  /\ Resync
  /\ UNCHANGED <<row, pub, seq, toBridge, toBrowser, toReporter, bridgeUp, browserUp, extra, breaks,
                 ui, lastSeq, reported, told, lost>>

(* The server reads the rows; events may be handled before the answer is    *)
(* here, and the answer then takes their place.                             *)
FetchReads ==
  /\ fetch = Asked /\ fetch' = row
  /\ UNCHANGED <<row, pub, seq, toBridge, toBrowser, toReporter, bridgeUp, browserUp, extra, breaks,
                 ui, lastSeq, reported, told, lost>>

FetchAnswered ==
  /\ fetch \in Version
  /\ ui' = fetch /\ fetch' = None
  /\ UNCHANGED <<row, pub, seq, toBridge, toBrowser, toReporter, bridgeUp, browserUp, extra, breaks,
                 lastSeq, reported, told, lost>>

-----------------------------------------------------------------------------
(* StartTaskStatusReporter: one report at a time, skipped when the status   *)
(* is the one it saw last; in "conservative" mode only the end is told.     *)
ReporterHandlesOnce ==
  /\ toReporter # <<>>
  /\ reported' = IF reported = None THEN Head(toReporter) ELSE reported
  /\ told' = IF reported = None /\ Head(toReporter) = MaxVersion THEN told + 1 ELSE told
  /\ toReporter' = Tail(toReporter)
  /\ UNCHANGED <<row, pub, seq, toBridge, toBrowser, bridgeUp, browserUp, extra, breaks,
                 ui, lastSeq, fetch, lost>>

ReporterHandles ==
  /\ toReporter # <<>>
  /\ reported' = Head(toReporter)
  /\ told' = IF reported # Head(toReporter) /\ Head(toReporter) = MaxVersion THEN told + 1 ELSE told
  /\ toReporter' = Tail(toReporter)
  /\ UNCHANGED <<row, pub, seq, toBridge, toBrowser, bridgeUp, browserUp, extra, breaks,
                 ui, lastSeq, fetch, lost>>

-----------------------------------------------------------------------------
PublishStep(g) == ReadRow(g) \/ PublishToDaemonHub(g) \/ TakeNumber(g) \/ Deliver(g)

EventNext ==
  \/ \E g \in Publisher \cup {Direct} : WriteRow(g) \/ PublishUnwritten(g)
  \/ \E g \in Goroutine : PublishStep(g)
  \/ BridgeForwards \/ BridgeBreaks \/ BridgeReconnects
  \/ BrowserBreaks \/ BrowserReconnects \/ BrowserHandles \/ Heartbeat
  \/ FetchReads \/ FetchAnswered
  \/ ReporterHandles

(* Goroutines run, both ends reconnect after a back-off, a connection that  *)
(* stays up brings a heartbeat every 15 seconds (asked of the time after    *)
(* the first write: nothing can be missed before), requests are answered.  *)
EventFairness ==
  /\ \A g \in Goroutine : WF_eventVars(PublishStep(g))
  /\ WF_eventVars(BridgeForwards) /\ WF_eventVars(BridgeReconnects)
  /\ WF_eventVars(BrowserReconnects) /\ WF_eventVars(BrowserHandles) /\ WF_eventVars(row > 0 /\ Heartbeat)
  /\ WF_eventVars(FetchReads) /\ WF_eventVars(FetchAnswered)
  /\ WF_eventVars(ReporterHandles)

EventSpec == EventInit /\ [][EventNext]_eventVars /\ EventFairness

-----------------------------------------------------------------------------
(* Whatever is dropped, reordered or answered late, the browser shows the   *)
(* row as it is once the row has stopped changing ("UI can refetch state",  *)
(* hub.go): stale events delivered after fresh ones are mended by the       *)
(* heartbeat's refetch alone, their sequence numbers show no gap.           *)
UiConverges == <>[](ui = row)

(* The secretary is told of the end of a task unless an event of that end   *)
(* was dropped (hub.go) or fell into a gap of the bridge: what it saw last  *)
(* may be older than the end, and come after it.                            *)
EndIsTold == (row = MaxVersion) ~> (told > 0 \/ lost)
=============================================================================
