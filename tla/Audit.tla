------------------------------- MODULE Audit -------------------------------
(***************************************************************************)
(* The audit log (internal/audit, api/audit.go): five tables read newest   *)
(* first, page by page with a cursor, while rows are written and the       *)
(* retention loop deletes old ones.  Nothing spans two SQL statements.     *)
(* Texts, titles and JSON are left out, and so are the keyword and stream  *)
(* filters, which like the owner only restrict what a query matches.       *)
(* Rows that other components delete (chat, events) are left out too.      *)
(***************************************************************************)
EXTENDS Naturals, Sequences, FiniteSets, FiniteSetsExt

CONSTANTS
    Reader,   \* callers of GET /api/audit/entries
    Owner,    \* tasks and runs, as numbers from 1
    Sources,  \* the sources of the instance, in the order of allSources
    Query,    \* what readers ask for
    Limit,    \* entries of a page
    Fetch,    \* rows one query takes from a source (perSourceLimit)
    Days,     \* age after which a row is deleted
    RowsKept, \* rows a source keeps (RetentionOptions.MaxRows)
    FirstId,  \* the first row id
    MaxRowsWritten, MaxTime

Source == {"task_log", "task_trace", "secretary_event", "secretary_compression", "secretary_chat"}
NoQuery == [task |-> 0, run |-> 0, from |-> 0, to |-> MaxTime]

ASSUME AuditConstants ==
    /\ Sources \in Seq(Source) /\ \A q \in Query : DOMAIN q = DOMAIN NoQuery
    /\ Owner \subseteq Nat \ {0} /\ Limit \in Nat \ {0} /\ Fetch \in Nat \ {0} /\ Limit <= Fetch
    /\ Days \in Nat /\ RowsKept \in Nat \ {0} /\ FirstId \in Nat \ {0}
    /\ MaxRowsWritten \in Nat /\ MaxTime \in Nat \ {0}

VARIABLES
    auRows,    \* the rows of the five tables
    auEver,    \* the same without the deletions of the retention loop (history)
    auNow,     \* the clock, in milliseconds
    auWritten, \* rows written so far
    auPage,    \* what each reader has asked and been shown
    auGc       \* where the retention loop is

auditVars == << auRows, auEver, auNow, auWritten, auPage, auGc >>

AuditRow == [source : Source, id : Nat, at : 1 .. MaxTime, of : Owner \cup {0}]
NoRow == [source |-> "task_log", id |-> 0, at |-> 0, of |-> 0]

Listed == {Sources[i] : i \in DOMAIN Sources}

\* One type condition for the module.
AuditTypeOK ==
    /\ auRows \subseteq auEver /\ auEver \subseteq AuditRow /\ auNow \in 1 .. MaxTime
    /\ auWritten \in 0 .. MaxRowsWritten
    /\ \A r \in Reader : auPage[r].got \subseteq AuditRow /\ auPage[r].cursor \in AuditRow \cup {NoRow}
    /\ auGc.cut \in AuditRow \cup {NoRow} /\ Len(auGc.left) <= Len(Sources)

AuditInit ==
    /\ auRows = {} /\ auEver = {} /\ auNow = 1 /\ auWritten = 0
    /\ auPage = [r \in Reader |-> [query |-> NoQuery, cursor |-> NoRow, more |-> FALSE, asking |-> FALSE,
                                   left |-> << >>, got |-> {}, base |-> {}, shown |-> {}, fits |-> TRUE,
                                   open |-> NoRow]]
    /\ auGc = [left |-> << >>, at |-> "age", cut |-> NoRow]

----------------------------------------------------------------------------
(* The order of a table and the order of the merged list.                  *)

\* ORDER BY ts DESC, id DESC.
NewerRow(a, b) == a.at > b.at \/ (a.at = b.at /\ a.id > b.id)
NewestRows(rows, k) == {r \in rows : Cardinality({o \in rows : NewerRow(o, r)}) < k}

\* Entry ids are strings "<source>:<id>": 10 sorts before 9 (ids below 100).
SourceRank(s) == CASE s = "secretary_chat" -> 1 [] s = "secretary_compression" -> 2 [] s = "secretary_event" -> 3
                   [] s = "task_log" -> 4 [] s = "task_trace" -> 5
Digits(n) == IF n < 10 THEN 20 * n - 1 ELSE 2 * n
GreaterId(a, b) == \/ SourceRank(a.source) > SourceRank(b.source)
                   \/ a.source = b.source /\ Digits(a.id) > Digits(b.id)
ListedBefore(a, b) == a.at > b.at \/ (a.at = b.at /\ GreaterId(a, b))

\* A mutant: of the entries of the cursor's millisecond none is older.
OlderThanCursorByTime(entry, cursor) == cursor = NoRow \/ entry.at < cursor.at

OlderThanCursor(entry, cursor) == cursor = NoRow \/ ListedBefore(cursor, entry)

----------------------------------------------------------------------------
(* The five queries.  A filter a source does not have leaves it out.       *)

InRange(q) == {r \in auRows : q.from <= r.at /\ r.at <= q.to}
TableRows(q, s, owners) == {r \in InRange(q) : r.source = s /\ r.of \in owners}
OwnedBy(o) == IF o = 0 THEN Owner \cup {0} ELSE {o}

TaskLogs(q)     == IF q.run # 0 THEN {} ELSE TableRows(q, "task_log", OwnedBy(q.task))
TaskTrace(q)    == IF q.run # 0 THEN {} ELSE TableRows(q, "task_trace", OwnedBy(q.task))
SecretaryEvents(q) == IF q.task # 0 THEN {} ELSE TableRows(q, "secretary_event", OwnedBy(q.run))
SecretaryCompressions(q) == IF q.task # 0 \/ q.run # 0 THEN {} ELSE TableRows(q, "secretary_compression", {0})
SecretaryChats(q) == IF q.task # 0 \/ q.run # 0 THEN {} ELSE TableRows(q, "secretary_chat", {0})

Matches(q, s) == CASE s = "task_log" -> TaskLogs(q)
                   [] s = "task_trace" -> TaskTrace(q)
                   [] s = "secretary_event" -> SecretaryEvents(q)
                   [] s = "secretary_compression" -> SecretaryCompressions(q)
                   [] s = "secretary_chat" -> SecretaryChats(q)

\* A first page, of any sources, or the page after the last one.
AskFirst(r, q, asked) ==
    /\ ~auPage[r].asking
    /\ auPage' = [auPage EXCEPT ![r] =
          [query |-> q, cursor |-> NoRow, more |-> FALSE, asking |-> TRUE, left |-> asked, got |-> {},
           base |-> UNION {Matches(q, asked[i]) : i \in DOMAIN asked}, shown |-> {}, fits |-> TRUE, open |-> NoRow]]
    /\ UNCHANGED << auRows, auEver, auNow, auWritten, auGc >>

AskNext(r, asked) ==
    /\ ~auPage[r].asking /\ auPage[r].more
    /\ auPage' = [auPage EXCEPT ![r].asking = TRUE, ![r].left = asked, ![r].got = {}, ![r].open = NoRow]
    /\ UNCHANGED << auRows, auEver, auNow, auWritten, auGc >>

\* The newest rows of one source: the cursor is no part of the SQL.
FetchSource(r) ==
    /\ auPage[r].asking /\ auPage[r].left # << >>
    /\ LET rows == Matches(auPage[r].query, Head(auPage[r].left)) IN
       auPage' = [auPage EXCEPT ![r].left = Tail(@), ![r].got = @ \cup NewestRows(rows, Fetch),
                                ![r].fits = @ /\ Cardinality(rows) <= Fetch]
    /\ UNCHANGED << auRows, auEver, auNow, auWritten, auGc >>

\* Query: merged, what is not older than the cursor dropped, cut at the limit.
AnswerPage(r) ==
    /\ auPage[r].asking /\ auPage[r].left = << >>
    /\ LET older == {e \in auPage[r].got : OlderThanCursor(e, auPage[r].cursor)}
           page == {e \in older : Cardinality({o \in older : ListedBefore(o, e)}) < Limit}
           last == CHOOSE e \in page : \A o \in page : ~ListedBefore(e, o)
           more == page # older
       IN  auPage' = [auPage EXCEPT ![r].asking = FALSE, ![r].got = {}, ![r].shown = @ \cup page,
                                    ![r].more = more, ![r].cursor = IF more THEN last ELSE @]
    /\ UNCHANGED << auRows, auEver, auNow, auWritten, auGc >>

\* The details of an entry of the list, read by source and id.  A chat reply
\* gets the run of the newest event that is not newer, whoever's run that is.
EntryDetail(e) ==
    LET found == {r \in auRows : r.source = e.source /\ r.id = e.id}
    IN  IF found = {} THEN NoRow ELSE CHOOSE r \in found : TRUE
ChatTelemetry(e) ==
    LET events == NewestRows({r \in auRows : r.source = "secretary_event" /\ r.at <= e.at}, 1)
    IN  IF events = {} THEN 0 ELSE (CHOOSE r \in events : TRUE).of
OpenEntry(r, e) ==
    /\ ~auPage[r].asking
    /\ LET row == EntryDetail(e) IN
       auPage' = [auPage EXCEPT ![r].open = IF row.source = "secretary_chat" THEN [row EXCEPT !.of = ChatTelemetry(row)] ELSE row]
    /\ UNCHANGED << auRows, auEver, auNow, auWritten, auGc >>

----------------------------------------------------------------------------
\* What is deleted or replaced is no longer one of the rows that readers had
\* to be shown (history).
Gone(rows) == auPage' = [r \in Reader |-> [auPage[r] EXCEPT !.base = @ \ rows]]

(* Writers: the time of a row is taken before the row is inserted.         *)

AppendRow(s, of, at) ==
    /\ auWritten < MaxRowsWritten /\ s # "task_trace" /\ (s \in {"task_log", "secretary_event"} <=> of # 0)
    /\ LET row == [source |-> s, id |-> FirstId + auWritten, at |-> at, of |-> of]
       IN  auRows' = auRows \cup {row} /\ auEver' = auEver \cup {row}
    /\ auWritten' = auWritten + 1 /\ UNCHANGED << auNow, auPage, auGc >>

\* SetInvocation replaces the row of the task, which one run writes in turn.
RecordInvocation(task, at) ==
    /\ auWritten < MaxRowsWritten
    /\ LET row == [source |-> "task_trace", id |-> task, at |-> at, of |-> task]
           old == {r \in auEver : r.source = "task_trace" /\ r.id = task}
       IN  /\ \A r \in old : r.at <= at
           /\ auRows' = (auRows \ old) \cup {row} /\ auEver' = (auEver \ old) \cup {row} /\ Gone(old \ {row})
    /\ auWritten' = auWritten + 1 /\ UNCHANGED << auNow, auGc >>

AuditTime == auNow < MaxTime /\ auNow' = auNow + 1 /\ UNCHANGED << auRows, auEver, auWritten, auPage, auGc >>

----------------------------------------------------------------------------
(* The retention loop: source after source, by age and then by count.      *)

GcStarts == auGc.left = << >> /\ auGc' = [left |-> Sources, at |-> "age", cut |-> NoRow]
            /\ UNCHANGED << auRows, auEver, auNow, auWritten, auPage >>

InTable(s) == {r \in auRows : r.source = s}
GcNextSource == auGc' = [left |-> Tail(auGc.left), at |-> "age", cut |-> NoRow]

PruneByAge ==
    /\ auGc.left # << >> /\ auGc.at = "age"
    /\ LET old == {r \in InTable(Head(auGc.left)) : r.at + Days < auNow} IN auRows' = auRows \ old /\ Gone(old)
    /\ auGc' = [auGc EXCEPT !.at = "cutoff"] /\ UNCHANGED << auEver, auNow, auWritten >>

\* The oldest row to keep, if the source has that many.
ReadCutoff ==
    /\ auGc.left # << >> /\ auGc.at = "cutoff"
    /\ LET kept == NewestRows(InTable(Head(auGc.left)), RowsKept) IN
       IF Cardinality(kept) < RowsKept THEN GcNextSource
       ELSE auGc' = [auGc EXCEPT !.at = "count", !.cut = CHOOSE r \in kept : \A o \in kept : ~NewerRow(r, o)]
    /\ UNCHANGED << auRows, auEver, auNow, auWritten, auPage >>

PruneByCount ==
    /\ auGc.left # << >> /\ auGc.at = "count"
    /\ LET old == {r \in InTable(Head(auGc.left)) : NewerRow(auGc.cut, r)} IN auRows' = auRows \ old /\ Gone(old)
    /\ GcNextSource /\ UNCHANGED << auEver, auNow, auWritten >>

\* An error ends the source's turn, not the run.
PruneFails == auGc.left # << >> /\ GcNextSource /\ UNCHANGED << auRows, auEver, auNow, auWritten, auPage >>

AuditNext ==
    \/ \E r \in Reader : FetchSource(r) \/ AnswerPage(r) \/ (\E e \in auPage[r].shown : OpenEntry(r, e))
    \/ \E r \in Reader, q \in Query : AskFirst(r, q, Sources)
    \/ \E r \in Reader : AskNext(r, Sources)
    \/ \E s \in Listed, of \in Owner \cup {0}, at \in {auNow - 1, auNow} \ {0} : AppendRow(s, of, at)
    \/ \E task \in Owner, at \in {auNow - 1, auNow} \ {0} : "task_trace" \in Listed /\ RecordInvocation(task, at)
    \/ AuditTime \/ GcStarts \/ PruneByAge \/ ReadCutoff \/ PruneByCount \/ PruneFails

AuditSpec == AuditInit /\ [][AuditNext]_auditVars

----------------------------------------------------------------------------
\* Paging from the newest entry down shows every entry that was there at the
\* first page and has not been deleted since, down to the cursor, and down to
\* the oldest once there is no next cursor, while no source holds more matching
\* rows than a query takes: of what it holds beyond, nothing is ever shown.
PagesAreGapless ==
    \A r \in Reader : LET p == auPage[r] IN
        p.fits /\ ~p.asking => \A e \in p.base :
            e \in p.shown \/ (p.more /\ OlderThanCursor(e, p.cursor) /\ p.cursor # NoRow)

\* The retention loop deletes only what is too old or has the full number of
\* newer rows, though it reads the cutoff and deletes in two statements.
RecentRowsStay ==
    \A e \in auEver \ auRows :
        e.at + Days < auNow \/ Cardinality({o \in InTable(e.source) : NewerRow(o, e)}) >= RowsKept

AuditComplete == PagesAreGapless /\ RecentRowsStay
=============================================================================
