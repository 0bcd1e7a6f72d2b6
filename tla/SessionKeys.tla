----------------------------- MODULE SessionKeys -----------------------------
(***************************************************************************)
(* The database opened by several processes (db/db.go, db/migrate.go) and  *)
(* what is stored under a session's key: its title and deletion, its       *)
(* workspace, its acceptance state (tasks/session_meta.go,                 *)
(* session_workspaces.go, acceptance.go).  A run was once shown under the  *)
(* id of its session, and before that under its own; every process that    *)
(* starts moves what it finds there to the conversation the run belongs to *)
(* (tasks/conversation_id.go).                                             *)
(* SQLite is external: a transaction reads the state of its first read,    *)
(* and its first write fails at once when another connection committed     *)
(* since, or holds the write lock.                                         *)
(***************************************************************************)
EXTENDS Naturals, Sequences, FiniteSets

CONSTANTS
    Opener,      \* processes that open the database
    SessionId,   \* ids the providers give to sessions
    LegacyRuns,  \* runs already in the database
    LegacyRows,  \* keys that have rows already
    MaxRows,     \* runs ever made
    MaxEvents    \* renames, deletions and stops of a process, together

Unset == << >>

ASSUME SessionKeyConstants ==
    /\ LegacyRuns \in Nat /\ LegacyRows \in Nat /\ MaxRows \in Nat /\ MaxEvents \in Nat
    /\ Unset \notin SessionId

VARIABLES
    file,    \* the database
    opener,  \* what each process is doing
    keyCount \* events so far

keyVars == << file, opener, keyCount >>

schemaVersion == 1
Columns == {"run_options", "conversation_id", "chat_conversation_id", "compressions_conversation_id"}

SessionKey(id, session) == IF session # Unset THEN << "s", session >> ELSE << "t", id >>
ConversationKey(conversation) == << "c", conversation >>
SessionKeyForTask(id, run) ==
    IF run.conversation # Unset THEN ConversationKey(run.conversation) ELSE SessionKey(id, run.session)

Has(rows, key) == key \in DOMAIN rows
Put(rows, key, row) == [k \in DOMAIN rows \cup {key} |-> IF k = key THEN row ELSE rows[k]]

\* What a user sees of the session of a run: the rows joined to it by its key.
Shown(f, id) ==
    LET key == SessionKeyForTask(id, f.runs[id]) IN
    [title |-> IF Has(f.meta, key) THEN f.meta[key].title ELSE "",
     deleted |-> Has(f.meta, key) /\ f.meta[key].deleted,
     workspace |-> key \in f.workspaces,
     iteration |-> IF Has(f.acceptance, key) THEN f.acceptance[key].iteration ELSE 0,
     report |-> Has(f.acceptance, key) /\ f.acceptance[key].report]

(* Moving rows from one key to another, for a set of pairs << from, to >>: *)
(* no key is moved to that is itself moved elsewhere.                      *)

\* Where there are rows afterwards, and from which keys they come.
Arrivals(keys, moves) ==
    [to \in {k \in keys : \A m \in moves : m[1] # k} \cup {m[2] : m \in {n \in moves : n[1] \in keys}} |->
        {k \in keys : k = to \/ << k, to >> \in moves}]

\* The titles migrateSessionMetaKeyTx may leave at a key: the one that was
\* there wins; of several that arrive, any may be the first.
MergedTitles(rows, to, keys) ==
    LET arriving == {rows[k].title : k \in keys} \ {""}
        own == {rows[k].title : k \in keys \cap {to}} \ {""} IN
    IF own # {} THEN own ELSE IF arriving # {} THEN arriving ELSE {""}

\* Mutant: the merge forgets a deletion.
MergedMetaTitleOnly(rows, to, keys) ==
    [title : MergedTitles(rows, to, keys), deleted : {(to \in keys) /\ rows[to].deleted}]

MergedMeta(rows, to, keys) ==
    [title : MergedTitles(rows, to, keys), deleted : {\E k \in keys : rows[k].deleted}]

MovedMeta(rows, moves) ==
    LET from == Arrivals(DOMAIN rows, moves) IN
    {moved \in [DOMAIN from -> UNION {MergedMeta(rows, to, from[to]) : to \in DOMAIN from}] :
        \A to \in DOMAIN from : moved[to] \in MergedMeta(rows, to, from[to])}

\* migrateSessionWorkspacesKeyTx: that there is a workspace is all that counts here.
MovedWorkspaces(keys, moves) == DOMAIN Arrivals(keys, moves)

\* migrateAcceptanceStateKeyTx: the newer row, completed from the other one.
MergedAcceptance(rows, keys) ==
    [iteration |-> CHOOSE n \in {rows[k].iteration : k \in keys} : \A k \in keys : rows[k].iteration <= n,
     report |-> \E k \in keys : rows[k].report]

MovedAcceptance(rows, moves) ==
    LET from == Arrivals(DOMAIN rows, moves) IN [to \in DOMAIN from |-> MergedAcceptance(rows, from[to])]

(* EnsureConversationIDs *)

OfConversation(f, session) ==
    {i \in DOMAIN f.runs : f.runs[i].session = session /\ f.runs[i].conversation # Unset}

\* The conversation of the latest run of a session.
ConversationIDForSessionID(f, session) ==
    LET runs == OfConversation(f, session) IN
    IF runs = {} THEN Unset ELSE f.runs[CHOOSE i \in runs : \A j \in runs : j <= i].conversation

Legacy(f) == {i \in DOMAIN f.runs : f.runs[i].conversation = Unset}

\* A run of a session joins its conversation or a new one; any other run is a
\* conversation of its own, named after it.
ConversationFor(f, id) ==
    LET session == f.runs[id].session
        known == ConversationIDForSessionID(f, session) IN
    IF session = Unset THEN << "run", id >> ELSE IF known # Unset THEN known ELSE << "session", session >>

\* What moves where: the sessions that have a conversation, and of each run
\* without one its session's rows and its own.
Moves(f) ==
    {<< SessionKey(0, s), ConversationKey(ConversationIDForSessionID(f, s)) >> :
        s \in {t \in SessionId : ConversationIDForSessionID(f, t) # Unset}}
    \cup {<< SessionKey(i, f.runs[i].session), ConversationKey(ConversationFor(f, i)) >> : i \in Legacy(f)}
    \cup {<< SessionKey(i, Unset), ConversationKey(ConversationFor(f, i)) >> : i \in Legacy(f)}

WithConversations(f) ==
    [i \in DOMAIN f.runs |-> [f.runs[i] EXCEPT !.conversation = IF @ = Unset THEN ConversationFor(f, i) ELSE @]]

EnsureConversationIDs(f) ==
    {[f EXCEPT !.runs = WithConversations(f), !.meta = meta,
               !.workspaces = MovedWorkspaces(@, Moves(f)), !.acceptance = MovedAcceptance(@, Moves(f))] :
        meta \in MovedMeta(f.meta, Moves(f))}

(* Migrate *)

\* The tables an older database lacks, and its first version number.
CreateTables(f, seen) == IF seen = 0 THEN [f EXCEPT !.version = schemaVersion] ELSE f
ensureTaskRunOptionsColumns(f) == [f EXCEPT !.columns = @ \cup {"run_options"}]
ensureTasksColumns(f) == [f EXCEPT !.columns = @ \cup {"conversation_id"}]
\* These two give the older rows to the global conversation.
ensureChatMessagesColumns(f) == [f EXCEPT !.columns = @ \cup {"chat_conversation_id"}]
ensureSecretaryCompressionsColumns(f) == [f EXCEPT !.columns = @ \cup {"compressions_conversation_id"}]

Migrate(f, seen) ==
    ensureSecretaryCompressionsColumns(ensureChatMessagesColumns(
        ensureTasksColumns(ensureTaskRunOptionsColumns(CreateTables(f, seen)))))

(* A database of an older build *)

LegacyRun(i) == [session : SessionId \cup {Unset}, over : {TRUE},
                 conversation : {Unset} \cup {<< "new", j >> : j \in 1 .. i}]
LegacyKeys(runs) == UNION {{SessionKey(i, Unset), SessionKey(i, runs[i].session), SessionKeyForTask(i, runs[i])} :
                               i \in DOMAIN runs}
LegacyMeta == {[title |-> "A", deleted |-> FALSE], [title |-> "C", deleted |-> FALSE], [title |-> "", deleted |-> TRUE]}

\* The session that was deleted had got further.
LegacyDatabase(version, columns, runs, meta) ==
    [version |-> version, columns |-> columns, runs |-> runs, meta |-> meta, workspaces |-> DOMAIN meta,
     acceptance |-> [k \in DOMAIN meta |-> [iteration |-> IF meta[k].deleted THEN 2 ELSE 1,
                                            report |-> meta[k].deleted]]]

Closed == [at |-> "down", seen |-> 0, stale |-> FALSE]

\* Nothing is there yet.
NewDatabase == LegacyDatabase(0, {}, << >>, << >>)

LegacyInit ==
    \E version \in 0 .. schemaVersion + 1, columns \in {{}, Columns}, n \in 0 .. LegacyRuns :
      \E runs \in {r \in [1 .. n -> UNION {LegacyRun(i) : i \in 1 .. n}] : \A i \in 1 .. n : r[i] \in LegacyRun(i)} :
        \E keys \in {k \in SUBSET LegacyKeys(runs) : Cardinality(k) <= LegacyRows} :
          \E meta \in [keys -> LegacyMeta] :
            /\ version # schemaVersion => columns = {} /\ n = 0
            /\ columns # Columns => \A i \in 1 .. n : runs[i].conversation = Unset
            /\ file = LegacyDatabase(version, columns, runs, meta)
OpenersInit ==
    /\ opener = [p \in Opener |-> Closed]
    /\ keyCount = 0
SessionKeysInit == LegacyInit /\ OpenersInit

(* Opening *)

Counted == keyCount < MaxEvents /\ keyCount' = keyCount + 1

\* A transaction that writes makes those under way that have read stale.
At(p, place) == opener[p].at = place
InTransaction(p) == opener[p].at \in {"migrating", "ensuring"}
Onlookers(p, wrote) ==
    [q \in Opener |-> [opener[q] EXCEPT !.stale = @ \/ (wrote /\ InTransaction(q) /\ q # p)]]

\* The version is read before the transaction; another one is refused.
ReadVersion(p) ==
    /\ At(p, "down") /\ file.version \in {0, schemaVersion}
    /\ opener' = [opener EXCEPT ![p] = [at |-> "opened", seen |-> file.version, stale |-> FALSE]]
    /\ UNCHANGED << file, keyCount >>

BeginMigrate(p) ==
    At(p, "opened") /\ opener' = [opener EXCEPT ![p].at = "migrating"] /\ UNCHANGED << file, keyCount >>

Commits(p, f, next) ==
    LET wrote == f # file \/ opener[p].seen = 0 IN
    /\ wrote => ~opener[p].stale
    /\ file' = f
    /\ opener' = [Onlookers(p, wrote) EXCEPT ![p].at = next, ![p].stale = FALSE, ![p].seen = schemaVersion]
    /\ UNCHANGED keyCount

\* The second transaction follows the first at once: what another process
\* commits between them it could have committed before, when the first has
\* nothing left to write.
CommitMigrate(p) == At(p, "migrating") /\ Commits(p, Migrate(file, opener[p].seen), "ensuring")
CommitEnsure(p) ==
    /\ At(p, "ensuring")
    /\ \E f \in EnsureConversationIDs(file) : Commits(p, f, "serving")

\* Stale, or another one is writing: the process ends, as it may at any time.
Fails(p) ==
    /\ InTransaction(p) /\ (opener[p].stale \/ \E q \in Opener \ {p} : InTransaction(q))
    /\ opener' = [opener EXCEPT ![p] = Closed] /\ UNCHANGED << file, keyCount >>
Stops(p) ==
    /\ ~At(p, "down") /\ Counted
    /\ opener' = [opener EXCEPT ![p] = Closed] /\ UNCHANGED file

(* Serving *)

Writes(p, f) == At(p, "serving") /\ file' = f /\ opener' = Onlookers(p, f # file)

\* With the key of the list, which is the conversation's.
RenameSession(p, id, title) ==
    LET key == SessionKeyForTask(id, file.runs[id]) IN
    /\ Counted
    /\ Writes(p, [file EXCEPT !.meta = Put(@, key, [title |-> title, deleted |-> Has(@, key) /\ @[key].deleted])])
DeleteSession(p, id) ==
    LET key == SessionKeyForTask(id, file.runs[id]) IN
    /\ Counted
    /\ Writes(p, [file EXCEPT !.meta =
                      Put(@, key, [title |-> IF Has(@, key) THEN @[key].title ELSE "", deleted |-> TRUE])])

\* A run starts a conversation, joins its session's, or continues one that
\* is not deleted.
CreateTask(p, session, conversation) ==
    /\ Len(file.runs) < MaxRows
    /\ Writes(p, [file EXCEPT !.runs =
                      Append(@, [session |-> session, conversation |-> conversation, over |-> FALSE])])
    /\ UNCHANGED keyCount
CreateNew(p) == CreateTask(p, Unset, << "new", Len(file.runs) + 1 >>)
CreateResumed(p, session) ==
    LET known == ConversationIDForSessionID(file, session) IN
    CreateTask(p, session, IF known # Unset THEN known ELSE << "new", Len(file.runs) + 1 >>)
Continue(p, id) ==
    ~Shown(file, id).deleted /\ CreateTask(p, file.runs[id].session, file.runs[id].conversation)

\* The rows of a run without a conversation follow it to its session's key.
Follow(f, id, session) ==
    IF file.runs[id].conversation = Unset /\ file.runs[id].session = Unset
      THEN LET moves == {<< SessionKey(id, Unset), SessionKey(id, session) >>} IN
           {[f EXCEPT !.meta = meta, !.workspaces = MovedWorkspaces(@, moves)] : meta \in MovedMeta(f.meta, moves)}
      ELSE {f}
SetSessionID(p, id, session) ==
    /\ file.runs[id].session = Unset /\ ~file.runs[id].over
    /\ \E f \in Follow([file EXCEPT !.runs[id].session = session], id, session) : Writes(p, f)
    /\ UNCHANGED keyCount
FinishTask(p, id, session) ==
    /\ ~file.runs[id].over
    /\ \E f \in Follow([file EXCEPT !.runs[id].over = TRUE,
                                    !.runs[id].session = IF session # Unset THEN session ELSE @], id, session) :
          Writes(p, f)
    /\ UNCHANGED keyCount

\* ensure, with the key of the conversation.
EnsureForTask(p, id) ==
    LET key == SessionKeyForTask(id, file.runs[id]) IN
    key \notin file.workspaces /\ Writes(p, [file EXCEPT !.workspaces = @ \cup {key}]) /\ UNCHANGED keyCount

UserEdits == \E p \in Opener, id \in DOMAIN file.runs :
    DeleteSession(p, id) \/ \E title \in {"", "B"} : RenameSession(p, id, title)

SessionKeysNext ==
    \/ \E p \in Opener :
          \/ ReadVersion(p) \/ BeginMigrate(p) \/ CommitMigrate(p) \/ CommitEnsure(p)
          \/ Fails(p) \/ Stops(p) \/ CreateNew(p)
          \/ \E session \in SessionId : CreateResumed(p, session)
          \/ \E id \in DOMAIN file.runs :
                \/ Continue(p, id) \/ EnsureForTask(p, id)
                \/ \E session \in SessionId : SetSessionID(p, id, session)
                \/ \E session \in SessionId \cup {Unset} : FinishTask(p, id, session)
    \/ UserEdits

SessionKeysSpec == SessionKeysInit /\ [][SessionKeysNext]_keyVars

(* Properties *)

\* A process that serves finds the whole schema and no run without a
\* conversation, however many were upgrading the database at once.
ServedComplete ==
    (\E p \in Opener : At(p, "serving")) =>
        file.version = schemaVersion /\ file.columns = Columns /\ Legacy(file) = {}

\* What a user saw of a session stays: its title unless they rename it (or it
\* joins a conversation that has one), its deletion, its workspace, how far its
\* acceptance was.
ShownStays(id) ==
    LET before == Shown(file, id)
        after == Shown(file', id) IN
    /\ before.title # "" /\ ~UserEdits =>
          IF file.runs[id].conversation = Unset THEN after.title # "" ELSE after.title = before.title
    /\ before.deleted => after.deleted
    /\ before.workspace => after.workspace
    /\ before.iteration <= after.iteration
    /\ before.report => after.report

\* Runs shown as one session.
Together(f, id, other) == SessionKeyForTask(id, f.runs[id]) = SessionKeyForTask(other, f.runs[other])

\* What a step never changes for users.
SessionsStay ==
    \A id \in DOMAIN file.runs :
        /\ ShownStays(id)
        /\ \A other \in DOMAIN file.runs : Together(file, id, other) => Together(file', id, other)

\* However processes start, fail and write, users keep what they saw, and what
\* they saw as one session stays one.
SessionsKept == []ServedComplete /\ [][SessionsStay]_file
=============================================================================
