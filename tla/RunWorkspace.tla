---------------------------- MODULE RunWorkspace ----------------------------
(***************************************************************************)
(* The isolated directory a session's runs work in (internal/runworkspace, *)
(* internal/worktree, tasks/session_workspaces_store.go): a git worktree   *)
(* when the base is a repository with a commit, a copy with a manifest of  *)
(* fingerprints otherwise.  The daemon ensures the workspace before a run, *)
(* the server ensures, merges and discards it for the user, and every      *)
(* creation collects old ones; nothing serialises these calls.             *)
(* A file's content is the set of edits it is made of; {} is "no file".    *)
(***************************************************************************)
EXTENDS Naturals, Sequences, SequencesExt

CONSTANTS
    Key,              \* the sessions that share one base directory
    Caller,           \* calls in flight at once: runs that start, HTTP requests
    File,             \* the files of the base directory
    Edit,             \* the user's own edits of the base
    Retain,           \* newest workspaces the collection leaves alone
    MaxBreaks,        \* creations that fail half way
    EditsDuringCopy   \* the user may edit between a copy and its fingerprint

ASSUME WorkspaceConstants ==
    /\ Key # {} /\ Retain \in Nat \ {0} /\ MaxBreaks \in Nat /\ EditsDuringCopy \in BOOLEAN

VARIABLES
    rwKind,      \* "git-worktree" or "copy": what the base directory allows
    rwStatus,    \* status of the session_workspaces row, "none" without a row
    rwRecent,    \* the rows, most recently updated first
    rwDir,       \* sessions whose run root exists on disk
    rwBranch,    \* sessions whose work branch exists
    rwBase,      \* content of each base file
    rwDirty,     \* the base repository has uncommitted changes
    rwCopy,      \* content of each file in each workspace
    rwManifest,  \* fingerprints stored at creation, NoManifest without a file
    rwMade,      \* edits that have reached each base file (history)
    rwBusy,      \* sessions with a run at work in their directory
    rwRefused,   \* sessions whose last EnsureForTask failed
    rwBreaks,    \* creations that failed half way so far
    rwCall       \* what each caller is doing

workspaceVars == << rwKind, rwStatus, rwRecent, rwDir, rwBranch, rwBase, rwDirty, rwCopy,
                    rwManifest, rwMade, rwBusy, rwRefused, rwBreaks, rwCall >>

Original == "original"
Content == SUBSET (Edit \cup Key \cup {Original})
Absent == [f \in File |-> {}]
NoManifest == << >>
Idle == [at |-> "idle", key |-> CHOOSE k \in Key : TRUE, files |-> {}, snap |-> NoManifest,
         clean |-> TRUE, old |-> << >>]

\* One type condition for the module.
WorkspaceTypeOK ==
    /\ rwKind \in {"git-worktree", "copy"}
    /\ rwStatus \in [Key -> {"none", "active", "merged", "discarded"}]
    /\ ToSet(rwRecent) = {k \in Key : rwStatus[k] # "none"}
    /\ rwDir \subseteq Key /\ rwBranch \subseteq Key
    /\ rwBusy \subseteq Key /\ rwRefused \subseteq Key
    /\ rwBase \in [File -> Content] /\ rwMade \in [File -> Content] /\ rwDirty \in BOOLEAN
    /\ rwCopy \in [Key -> [File -> Content]]
    /\ \A k \in Key : rwManifest[k] = NoManifest \/ rwManifest[k] \in [File -> Content]
    /\ rwBreaks \in 0 .. MaxBreaks
    /\ \A c \in Caller : rwCall[c].key \in Key /\ rwCall[c].files \subseteq File

WorkspaceInit ==
    /\ rwKind \in {"git-worktree", "copy"}
    /\ rwStatus = [k \in Key |-> "none"] /\ rwRecent = << >>
    /\ rwDir = {} /\ rwBranch = {} /\ rwBusy = {} /\ rwRefused = {} /\ rwBreaks = 0
    /\ rwBase = [f \in File |-> {Original}] /\ rwMade = rwBase /\ rwDirty = FALSE
    /\ rwCopy = [k \in Key |-> Absent] /\ rwManifest = [k \in Key |-> NoManifest]
    /\ rwCall = [c \in Caller |-> Idle]

At(c, place) == rwCall[c].at = place
Goto(c, place) == rwCall' = [rwCall EXCEPT ![c].at = place]
Return(c) == rwCall' = [rwCall EXCEPT ![c] = Idle]
Begin(c, k, place) == At(c, "idle") /\ rwCall' = [rwCall EXCEPT ![c] = [Idle EXCEPT !.key = k, !.at = place]]

Rows == << rwStatus, rwRecent >>
Disk == << rwDir, rwBranch, rwCopy, rwManifest >>
Base == << rwBase, rwDirty, rwMade >>
Others == << rwKind, rwBusy, rwRefused, rwBreaks >>

\* A mutant: an update, which makes no row where there is none.
UpsertKnown(k, status) ==
    /\ rwStatus' = [rwStatus EXCEPT ![k] = status]
    /\ rwRecent' = IF rwStatus[k] = "none" THEN rwRecent ELSE << k >> \o RemoveFirst(rwRecent, k)

\* UpsertSessionWorkspace: sets the status and updated_at, whatever the row says now.
Upsert(k, status) ==
    /\ rwStatus' = [rwStatus EXCEPT ![k] = status]
    /\ rwRecent' = << k >> \o RemoveFirst(rwRecent, k)

\* RemoveAll, or git worktree remove --force: the branch stays.
RemoveRunRoots(ks) ==
    /\ rwDir' = rwDir \ ks
    /\ rwCopy' = [k \in Key |-> IF k \in ks THEN Absent ELSE rwCopy[k]]
    /\ rwManifest' = [k \in Key |-> IF k \in ks THEN NoManifest ELSE rwManifest[k]]
    /\ UNCHANGED rwBranch

----------------------------------------------------------------------------
(* EnsureForTask, for a run that starts or for the session page.           *)

EnsureBegins(c, k) ==
    /\ Begin(c, k, IF rwStatus[k] = "none" \/ k \notin rwDir THEN "create"
                   ELSE IF rwStatus[k] = "active" THEN "ensured" ELSE "reactivate")
    /\ UNCHANGED << Rows, Disk, Base, Others >>

EnsureReactivates(c) ==
    /\ At(c, "reactivate") /\ Upsert(rwCall[c].key, "active") /\ Goto(c, "ensured")
    /\ UNCHANGED << Disk, Base, Others >>

Refuse(c) ==
    /\ rwRefused' = rwRefused \cup {rwCall[c].key} /\ Return(c)
    /\ UNCHANGED << Rows, Base, rwKind, rwBusy >>

\* git worktree add -b: refused while the directory or the branch exists.
WorktreeRefused(c) ==
    /\ At(c, "create") /\ rwKind = "git-worktree" /\ rwCall[c].key \in rwDir \cup rwBranch
    /\ Refuse(c) /\ UNCHANGED << Disk, rwBreaks >>

\* worktree.Create: HEAD, then the uncommitted patch and the untracked files.
WorktreeAdded(c) ==
    LET k == rwCall[c].key IN
    /\ At(c, "create") /\ rwKind = "git-worktree" /\ k \notin rwDir \cup rwBranch
    /\ rwDir' = rwDir \cup {k} /\ rwBranch' = rwBranch \cup {k}
    /\ rwCopy' = [rwCopy EXCEPT ![k] = rwBase]
    /\ Goto(c, "record") /\ UNCHANGED << Rows, Base, Others, rwManifest >>

\* createCopyWorkspace: a clean slate, then every file not excluded.
FilesCopied(c) ==
    LET k == rwCall[c].key IN
    /\ At(c, "create") /\ rwKind = "copy"
    /\ rwDir' = rwDir \cup {k} /\ rwCopy' = [rwCopy EXCEPT ![k] = rwBase]
    /\ rwManifest' = [rwManifest EXCEPT ![k] = NoManifest]
    /\ Goto(c, "fingerprint") /\ UNCHANGED << Rows, Base, Others, rwBranch >>

\* The fingerprint is taken of the base file, read again after it was copied.
FilesFingerprinted(c) ==
    /\ At(c, "fingerprint")
    /\ rwManifest' = [rwManifest EXCEPT ![rwCall[c].key] = rwBase]
    /\ Goto(c, "record") /\ UNCHANGED << Rows, Base, Others, rwDir, rwBranch, rwCopy >>

\* The patch does not apply, a file cannot be read, git stays locked: what was
\* made on disk stays and no row is written.
CreationBreaks(c) ==
    /\ At(c, "record") /\ rwBreaks < MaxBreaks /\ rwBreaks' = rwBreaks + 1
    /\ Refuse(c) /\ UNCHANGED Disk

WorkspaceRecorded(c) ==
    /\ At(c, "record") /\ Upsert(rwCall[c].key, "active") /\ Goto(c, "collect")
    /\ UNCHANGED << Disk, Base, Others >>

\* gcList: rows beyond the newest Retain, judged by the status in the list.
CollectionLists(c) ==
    LET tail == SubSeq(rwRecent, Retain + 1, Len(rwRecent))
    IN  /\ At(c, "collect")
        /\ rwCall' = [rwCall EXCEPT ![c].at = "collecting", ![c].old =
                         SelectSeq(tail, LAMBDA k : rwStatus[k] \in {"merged", "discarded"})]
        /\ UNCHANGED << Rows, Disk, Base, Others >>

CollectionRemoves(c) ==
    /\ At(c, "collecting") /\ rwCall[c].old # << >>
    /\ LET k == Head(rwCall[c].old)
       IN  /\ RemoveRunRoots({k})
           /\ rwStatus' = [rwStatus EXCEPT ![k] = "none"]
           /\ rwRecent' = RemoveFirst(rwRecent, k)
    /\ rwCall' = [rwCall EXCEPT ![c].old = Tail(@)]
    /\ UNCHANGED << Base, Others >>

\* The run's work directory becomes the workspace.
EnsureReturns(c) ==
    /\ At(c, "ensured") \/ (At(c, "collecting") /\ rwCall[c].old = << >>)
    /\ rwBusy' = rwBusy \cup {rwCall[c].key} /\ rwRefused' = rwRefused \ {rwCall[c].key}
    /\ Return(c) /\ UNCHANGED << Rows, Disk, Base, rwKind, rwBreaks >>

----------------------------------------------------------------------------
(* Merge.                                                                  *)

\* A copy needs its manifest, a repository a clean base.
MergeBegins(c, k) ==
    /\ rwStatus[k] # "none"
    /\ \/ rwKind = "copy" /\ rwManifest[k] # NoManifest
       \/ rwKind = "git-worktree" /\ ~rwDirty /\ k \in rwDir
    /\ At(c, "idle")
    /\ rwCall' = [rwCall EXCEPT ![c] = [Idle EXCEPT !.key = k, !.snap = rwManifest[k],
                     !.at = IF rwKind = "copy" THEN "apply" ELSE "merge", !.files = File]]
    /\ UNCHANGED << Rows, Disk, Base, Others >>

\* A mutant: the base is compared with the workspace only after a first merge.
ConflictsNever(k, f, snap) == rwBase[f] # snap[f] /\ rwStatus[k] = "merged" /\ rwBase[f] # rwCopy[k][f]

\* The base has changed since the snapshot, and not into what the workspace holds.
Conflicts(k, f, snap) == rwBase[f] # snap[f] /\ rwBase[f] # rwCopy[k][f]

\* applyBackCopyWorkspace on one file: unchanged, in conflict, copied or removed.
FileApplied(c) ==
    \E f \in rwCall[c].files :
        LET k == rwCall[c].key
            changed == rwCopy[k][f] # rwCall[c].snap[f]
            conflict == changed /\ Conflicts(k, f, rwCall[c].snap)
        IN  /\ At(c, "apply")
            /\ rwCall' = [rwCall EXCEPT ![c].files = @ \ {f}, ![c].clean = @ /\ ~conflict]
            /\ rwBase' = [rwBase EXCEPT ![f] = IF changed /\ ~conflict THEN rwCopy[k][f] ELSE @]
            /\ rwMade' = [rwMade EXCEPT ![f] = @ \cup rwBase'[f]]
            /\ UNCHANGED << Rows, Disk, Others, rwDirty >>

\* gitSnapshotCommit of the worktree, then git merge --no-ff of its branch.
BranchMerged(c) ==
    /\ At(c, "merge") /\ rwCall[c].files # {}
    /\ \/ /\ rwBase' = [f \in File |-> rwBase[f] \cup rwCopy[rwCall[c].key][f]]
          /\ rwMade' = [f \in File |-> rwMade[f] \cup rwBase'[f]]
          /\ rwCall' = [rwCall EXCEPT ![c].files = {}] /\ UNCHANGED rwDirty
       \/ /\ \E f \in File : rwBase[f] # rwCopy[rwCall[c].key][f]
          /\ rwDirty' = TRUE /\ Return(c) /\ UNCHANGED << rwBase, rwMade >>
    /\ UNCHANGED << Rows, Disk, Others >>

\* The row becomes merged only when no file was in conflict.
MergeReturns(c) ==
    /\ rwCall[c].at \in {"apply", "merge"} /\ rwCall[c].files = {}
    /\ IF rwCall[c].clean THEN Upsert(rwCall[c].key, "merged") ELSE UNCHANGED Rows
    /\ Return(c) /\ UNCHANGED << Disk, Base, Others >>

----------------------------------------------------------------------------
(* Discard, and the people and runs that edit.                             *)

DiscardRemoves(c, k) ==
    /\ rwStatus[k] # "none" /\ Begin(c, k, "discard")
    /\ RemoveRunRoots({k}) /\ UNCHANGED << Rows, Base, Others >>

DiscardReturns(c) ==
    /\ At(c, "discard") /\ Upsert(rwCall[c].key, "discarded")
    /\ Return(c) /\ UNCHANGED << Disk, Base, Others >>

\* The agent of a run changes a file of its workspace, if that still exists.
AgentEdits(k) ==
    /\ k \in rwBusy
    /\ \E f \in File : rwCopy' = [rwCopy EXCEPT ![k][f] = IF k \in rwDir THEN @ \cup {k} ELSE @]
    /\ rwBusy' = rwBusy \ {k}
    /\ UNCHANGED << Rows, Base, rwKind, rwDir, rwBranch, rwManifest, rwRefused, rwBreaks, rwCall >>

UserEdits(e) ==
    /\ EditsDuringCopy \/ \A c \in Caller : ~At(c, "fingerprint")
    /\ \E f \in File : /\ \A g \in File : e \notin rwMade[g]
                       /\ rwBase' = [rwBase EXCEPT ![f] = @ \cup {e}]
                       /\ rwMade' = [rwMade EXCEPT ![f] = @ \cup {e}]
    /\ rwDirty' = (rwKind = "git-worktree") /\ UNCHANGED << Rows, Disk, Others, rwCall >>

UserCommits == rwDirty /\ rwDirty' = FALSE /\ UNCHANGED << Rows, Disk, Others, rwBase, rwMade, rwCall >>

WorkspaceNext ==
    \/ \E c \in Caller, k \in Key : EnsureBegins(c, k) \/ MergeBegins(c, k) \/ DiscardRemoves(c, k)
    \/ \E c \in Caller :
          \/ EnsureReactivates(c) \/ WorktreeRefused(c) \/ WorktreeAdded(c) \/ FilesCopied(c)
          \/ FilesFingerprinted(c) \/ CreationBreaks(c) \/ WorkspaceRecorded(c)
          \/ CollectionLists(c) \/ CollectionRemoves(c) \/ EnsureReturns(c)
          \/ FileApplied(c) \/ BranchMerged(c) \/ MergeReturns(c) \/ DiscardReturns(c)
    \/ \E k \in Key : AgentEdits(k)
    \/ \E e \in Edit : UserEdits(e)
    \/ UserCommits

WorkspaceSpec == WorkspaceInit /\ [][WorkspaceNext]_workspaceVars

----------------------------------------------------------------------------
\* What the user edited, and what a merge brought, stays in the base: neither a
\* merge of a workspace copied earlier, nor one after another session's merge,
\* nor a second merge with the first manifest undoes it (conflict detection of
\* applyBackCopyWorkspace).
EditsKept == rwMade = rwBase

\* "If the workspace was previously merged/discarded, treat new runs as active
\* again" (EnsureForTask): a discarded session can run once more.
RunsAfterDiscard == \A k \in rwRefused : rwStatus[k] # "discarded"
=============================================================================
