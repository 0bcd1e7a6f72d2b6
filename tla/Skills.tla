------------------------------- MODULE Skills -------------------------------
(***************************************************************************)
(* One skill: its directory in the canonical store, what each tool's       *)
(* skills root holds under its name, and its snapshots (internal/skills,   *)
(* api/skills*.go).  Requests of the skills page and the background        *)
(* version scan run concurrently; the file system is their only lock.      *)
(* A directory's content is a number, 0 when there is no directory; a      *)
(* snapshot's id is day * PerDay + n, so ids sort as their names do.       *)
(***************************************************************************)
EXTENDS Naturals, FiniteSets, FiniteSetsExt

CONSTANTS
    Tool,       \* the tools with a skills root
    CopyTool,   \* those that get copies, never links (cursor)
    Panel,      \* requests of the page in flight
    MaxText,    \* contents the user and the upstream write
    MaxDay,     \* days
    PerDay,     \* one more than the snapshots of a day
    MaxRequests \* requests and removals by the user

ASSUME SkillsConstants ==
    CopyTool \subseteq Tool /\ MaxText \in Nat \ {0} /\ MaxDay \in Nat \ {0} /\ PerDay \in Nat \ {0} /\ MaxRequests \in Nat

VARIABLES
    skCanon,      \* the canonical directory: content, kind and stamp of its manifest
    skUpstream,   \* content (and revision) at the place it was installed from
    skTool,       \* what each tool's root holds
    skBackups,    \* contents moved out of tool roots
    skVersions,   \* the snapshots on disk, by id
    skAcked,      \* the snapshots a caller was told of and nobody deleted (history)
    skOwn,        \* contents users put into a tool root themselves (history)
    skBadge,      \* the "new version" marker
    skTexts,      \* contents written so far
    skDay,        \* today
    skAsked,      \* requests so far
    skWork        \* what each request and the scan are doing

skillVars == << skCanon, skUpstream, skTool, skBackups, skVersions, skAcked, skOwn,
                skBadge, skTexts, skDay, skAsked, skWork >>

Worker == Panel \cup {"scan"}
VersionId == 1 .. (MaxDay + 1) * PerDay
NoSkill == [text |-> 0, kind |-> "none", rev |-> 0, day |-> 0]
Skill == [text : 0 .. MaxText, kind : {"none", "plain", "clone", "local", "git"} \cup Tool,
          rev : 0 .. MaxText, day : 0 .. MaxDay]
ToolEntry == [kind : {"missing", "link", "copy", "own"}, text : 0 .. MaxText]
Resting == [at |-> "rest", id |-> 0, copy |-> NoSkill, then |-> "rest", old |-> 0]

\* One type condition for the module.
SkillsTypeOK ==
    /\ skCanon \in Skill /\ skUpstream \in 0 .. MaxText
    /\ skTool \in [Tool -> ToolEntry]
    /\ skBackups \subseteq 1 .. MaxText /\ skOwn \subseteq 1 .. MaxText
    /\ skVersions \in [VersionId -> Skill] /\ skAcked \in [VersionId -> Skill]
    /\ skBadge \in BOOLEAN /\ skTexts \in 0 .. MaxText /\ skDay \in 1 .. MaxDay
    /\ skAsked \in 0 .. MaxRequests
    /\ \A w \in Worker : skWork[w].id \in 0 .. (MaxDay + 1) * PerDay /\ skWork[w].copy \in Skill

SkillsInit ==
    /\ skCanon = NoSkill /\ skUpstream = 1 /\ skTexts = 1 /\ skDay = 1 /\ skAsked = 0
    /\ skTool = [t \in Tool |-> [kind |-> "missing", text |-> 0]]
    /\ skBackups = {} /\ skOwn = {} /\ skBadge = FALSE
    /\ skVersions = [i \in VersionId |-> NoSkill] /\ skAcked = skVersions
    /\ skWork = [w \in Worker |-> Resting]

Doing(w, place) == skWork[w].at = place
GoTo(w, place) == skWork' = [skWork EXCEPT ![w].at = place]
Rest(w) == skWork' = [skWork EXCEPT ![w] = Resting]
Clock == << skTexts, skDay, skAsked >>
Ask == skAsked < MaxRequests /\ skAsked' = skAsked + 1 /\ UNCHANGED << skTexts, skDay >>
Snapshots == << skVersions, skAcked, skBadge >>
Roots == << skTool, skBackups, skOwn >>

\* os.Stat follows a link: a tool's entry has content only while the link holds.
Seen(t) == IF skTool[t].kind = "link" THEN skCanon.text ELSE skTool[t].text

\* The manifest of an installed or imported skill; a directory the user wrote or
\* cloned into the store has none.  rev is the content it was installed from
\* (the revision, or the content hash in the manifest); the kind of an imported
\* one is the tool it came from.
Managed(skill) == skill.kind \in {"local", "git"} \cup Tool

\* writeManagedManifest stamps the day it is written.
Manifested(text, kind, rev) == [text |-> text, kind |-> kind, rev |-> rev, day |-> skDay]

\* resyncManagedCopies: every managed copy follows the canonical directory.
Resynced == [t \in Tool |-> IF skTool[t].kind = "copy" THEN [kind |-> "copy", text |-> skCanon'.text] ELSE skTool[t]]

----------------------------------------------------------------------------
(* Snapshots: an id nobody has, a copy in a temporary directory, a rename. *)

\* nextAutoID, nextAutoIDForDay: the lowest number of the day that is free.
NextId(day) == Min({i \in VersionId : i > day * PerDay /\ skVersions[i] = NoSkill})
DayIsFull(day) == \A i \in day * PerDay + 1 .. day * PerDay + PerDay - 1 : skVersions[i] # NoSkill

Snapshot(w, source, day, next, old) ==
    /\ ~DayIsFull(day)
    /\ skWork' = [skWork EXCEPT ![w] = [at |-> "rename", id |-> NextId(day), copy |-> source, then |-> next, old |-> old]]

\* Create: an id that is taken meanwhile is an error, and a restore stops there.
CreateFinishes(w) ==
    /\ Doing(w, "rename") /\ skWork[w].then # "badge"
    /\ LET i == skWork[w].id IN
       IF skVersions[i] # NoSkill THEN Rest(w) /\ UNCHANGED Snapshots
       ELSE /\ skVersions' = [skVersions EXCEPT ![i] = skWork[w].copy]
            /\ skAcked' = [skAcked EXCEPT ![i] = skWork[w].copy]
            /\ GoTo(w, skWork[w].then) /\ UNCHANGED skBadge
    /\ UNCHANGED << skCanon, skUpstream, Roots, Clock >>

\* createAutoSnapshot: an id that is taken meanwhile is chosen anew.
SnapshotFinishes(w) ==
    /\ Doing(w, "rename") /\ skWork[w].then = "badge"
    /\ LET i == skWork[w].id IN
       IF skVersions[i] # NoSkill
         THEN /\ IF DayIsFull((i - 1) \div PerDay) THEN Rest(w)
                 ELSE skWork' = [skWork EXCEPT ![w].id = NextId((i - 1) \div PerDay)]
              /\ UNCHANGED << skVersions, skAcked >>
         ELSE /\ skVersions' = [skVersions EXCEPT ![i] = skWork[w].copy]
              /\ skAcked' = [skAcked EXCEPT ![i] = skWork[w].copy]
              /\ GoTo(w, "badge")
    /\ UNCHANGED << skBadge, skCanon, skUpstream, Roots, Clock >>

CreateRequest(w) ==
    /\ Doing(w, "rest") /\ skCanon # NoSkill /\ Snapshot(w, skCanon, skDay, "rest", 0)
    /\ Ask /\ UNCHANGED << skCanon, skUpstream, Roots, Snapshots >>

DeleteVersion(i) ==
    /\ skVersions[i] # NoSkill
    /\ skVersions' = [skVersions EXCEPT ![i] = NoSkill] /\ skAcked' = [skAcked EXCEPT ![i] = NoSkill]
    /\ Ask /\ UNCHANGED << skCanon, skUpstream, Roots, skBadge, skWork >>

\* Restore: a backup of what is there, a staged copy, two renames.
RestoreBegins(w, i) ==
    /\ Doing(w, "rest") /\ skVersions[i] # NoSkill
    /\ IF skCanon = NoSkill THEN skWork' = [skWork EXCEPT ![w].at = "stage", ![w].old = i]
                            ELSE Snapshot(w, skCanon, skDay, "stage", i)
    /\ Ask /\ UNCHANGED << skCanon, skUpstream, Roots, Snapshots >>

\* The manifest of the directory that is replaced is kept; the snapshot's is the fallback.
RestoreStages(w) ==
    /\ Doing(w, "stage")
    /\ LET v == skVersions[skWork[w].old]
           m == IF Managed(skCanon) THEN skCanon ELSE v
           restored == IF ~Managed(m) THEN [text |-> v.text, kind |-> "plain", rev |-> 0, day |-> 0]
                       ELSE Manifested(v.text, m.kind, IF m.kind = "git" THEN m.rev ELSE v.text)
       IN  IF v = NoSkill THEN Rest(w)
           ELSE skWork' = [skWork EXCEPT ![w].at = "swap", ![w].copy = restored]
    /\ UNCHANGED << skCanon, skUpstream, Roots, Snapshots, Clock >>

RestoreSwaps(w) ==
    /\ Doing(w, "swap")
    /\ skCanon' = skWork[w].copy /\ skTool' = Resynced /\ Rest(w)
    /\ UNCHANGED << skUpstream, skBackups, skOwn, Snapshots, Clock >>

----------------------------------------------------------------------------
(* The version scan, and the same check when the versions page is opened.  *)

\* latestSnapshotManifest: the greatest id is taken for the newest snapshot.
Latest == LET ids == {i \in VersionId : skVersions[i] # NoSkill}
          IN  IF ids = {} THEN NoSkill ELSE skVersions[Max(ids)]

\* snapshotChanged: a revision decides if both have one, the content otherwise,
\* which without revisions includes the manifest and its time stamp.
BothRevised == {skCanon.kind, Latest.kind} \subseteq {"clone", "git"}
RevisionChanged == BothRevised /\ skCanon.rev # Latest.rev
ContentChanged == skCanon.text # Latest.text \/ (~BothRevised /\ Managed(skCanon) /\ skCanon.day # Latest.day)

\* currentSnapshotMeta: the manifest's stamp, the last fetch of a clone, or now.
Anchor == IF skCanon.day = 0 THEN skDay ELSE skCanon.day

\* ensureSkill: baseline, revision update anchored at the manifest's day, or
\* content update anchored today; without a directory nothing is written.
Ensures(w) ==
    /\ skCanon # NoSkill /\ Doing(w, "rest")
    /\ \/ Latest = NoSkill /\ Snapshot(w, skCanon, Anchor, "badge", 1)
       \/ Latest # NoSkill /\ RevisionChanged /\ Snapshot(w, skCanon, Anchor, "badge", 0)
       \/ Latest # NoSkill /\ ~RevisionChanged /\ ContentChanged /\ Snapshot(w, skCanon, skDay, "badge", 0)
    /\ UNCHANGED << skCanon, skUpstream, Roots, Snapshots, Clock >>

\* The scan marks an update; the page that shows it takes the mark away.
Badges(w) ==
    /\ Doing(w, "badge") /\ skBadge' = IF w # "scan" THEN FALSE ELSE skBadge \/ skWork[w].old = 0
    /\ Rest(w) /\ UNCHANGED << skCanon, skUpstream, Roots, skVersions, skAcked, Clock >>

BadgeExpires == skBadge /\ skBadge' = FALSE
                /\ UNCHANGED << skCanon, skUpstream, Roots, skVersions, skAcked, Clock, skWork >>

\* ImportExisting: the directory a tool has becomes the canonical one.  What it
\* overwrites is removed first, and with it what the tool's link leads to.
ImportExisting(t, overwrite) ==
    /\ Seen(t) # 0 /\ (skCanon = NoSkill \/ overwrite)
    /\ skCanon' = IF skTool[t].kind = "link" THEN NoSkill ELSE Manifested(Seen(t), t, Seen(t))
    /\ Ask /\ UNCHANGED << skUpstream, Roots, Snapshots, skWork >>

\* LinkWithAutoImport: only when all tools that have it agree on the content.
AutoImports(t) ==
    /\ skCanon = NoSkill /\ \A other \in Tool : Seen(other) \in {0, Seen(t)}
    /\ ImportExisting(t, FALSE)

----------------------------------------------------------------------------
(* Installing, updating and mounting.                                      *)

\* An existing directory is removed first if the request overwrites; otherwise a
\* local install is refused and one from git goes to another name.
Install(overwrite, kind) ==
    /\ skCanon = NoSkill \/ overwrite
    /\ skCanon' = Manifested(skUpstream, kind, skUpstream)
    /\ Ask /\ UNCHANGED << skUpstream, Roots, Snapshots, skWork >>

InstallLocal(overwrite) == Install(overwrite, "local")

\* InstallGit, and one skill of InstallGitBatch.
InstallGit(overwrite) == Install(overwrite, "git")

\* What an update copies: the tool's directory it was imported from, or the upstream.
SourceText == IF skCanon.kind \in Tool THEN Seen(skCanon.kind) ELSE skUpstream

\* UpdateManagedSkill and the copies that follow, then a snapshot if it changed.
Update(w) ==
    /\ Doing(w, "rest") /\ Managed(skCanon) /\ SourceText # 0
    /\ skCanon' = Manifested(SourceText, skCanon.kind, SourceText)
    /\ skTool' = Resynced
    /\ IF skCanon'.rev # skCanon.rev THEN GoTo(w, "updated") ELSE UNCHANGED skWork
    /\ Ask /\ UNCHANGED << skUpstream, skBackups, skOwn, Snapshots >>

UpdateSnapshots(w) ==
    /\ Doing(w, "updated") /\ skCanon # NoSkill /\ Snapshot(w, skCanon, skDay, "rest", 0)
    /\ UNCHANGED << skCanon, skUpstream, Roots, Snapshots, Clock >>

\* The canonical directory was removed, or the day's numbers are used up.
UpdateStops(w) ==
    /\ Doing(w, "updated") /\ (skCanon = NoSkill \/ DayIsFull(skDay))
    /\ Rest(w) /\ UNCHANGED << skCanon, skUpstream, Roots, Snapshots, Clock >>

\* A mutant: a directory of the user's is removed like a managed copy.
ReplaceableAny(t, overwrite) == TRUE

\* linkOne: a link into the store and a managed copy are replaced, anything
\* else only by a request that overwrites, after it was moved to the backups.
Replaceable(t, overwrite) == skTool[t].kind # "own" \/ overwrite

\* backupTargetEntry: the entry is renamed to a place nobody uses.
BackedUp(t) == skBackups \cup ({Seen(t)} \ {0})

Sync(t, overwrite) ==
    /\ skCanon # NoSkill /\ Replaceable(t, overwrite)
    /\ skBackups' = IF overwrite /\ skTool[t].kind \in {"own", "link"} THEN BackedUp(t) ELSE skBackups
    /\ \E kind \in {"link", "copy"} :
          /\ t \in CopyTool => kind = "copy"
          /\ skTool' = [skTool EXCEPT ![t] = [kind |-> kind, text |-> IF kind = "copy" THEN skCanon.text ELSE 0]]
    /\ Ask /\ UNCHANGED << skCanon, skUpstream, skOwn, Snapshots, skWork >>

\* unlinkOne refuses what is neither a link into the store nor a managed copy.
Unlink(t) ==
    /\ skTool[t].kind \in {"link", "copy"}
    /\ skTool' = [skTool EXCEPT ![t] = [kind |-> "missing", text |-> 0]]
    /\ Ask /\ UNCHANGED << skCanon, skUpstream, skBackups, skOwn, Snapshots, skWork >>

----------------------------------------------------------------------------
(* People, agents and the upstream.                                        *)

NewText == skTexts < MaxText /\ skTexts' = skTexts + 1 /\ UNCHANGED << skDay, skAsked >>

UserEditsSkill == NewText /\ skCanon # NoSkill /\ skCanon' = [skCanon EXCEPT !.text = skTexts']
                  /\ UNCHANGED << skUpstream, Roots, Snapshots, skWork >>

\* The user's own directory in the store, a plain one or a clone just fetched.
UserWritesSkill(kind) ==
    /\ NewText /\ skCanon = NoSkill
    /\ skCanon' = [text |-> skTexts', kind |-> kind, rev |-> IF kind = "clone" THEN skTexts' ELSE 0,
                   day |-> IF kind = "clone" THEN skDay ELSE 0]
    /\ UNCHANGED << skUpstream, Roots, Snapshots, skWork >>

\* A commit in a clone moves HEAD and not FETCH_HEAD.
UserCommitsSkill ==
    /\ skCanon.kind = "clone" /\ skCanon.rev # skCanon.text
    /\ skCanon' = [skCanon EXCEPT !.rev = skCanon.text]
    /\ UNCHANGED << skUpstream, Roots, Snapshots, Clock, skWork >>

UserDeletesSkill == skCanon # NoSkill /\ skCanon' = NoSkill
                    /\ Ask /\ UNCHANGED << skUpstream, Roots, Snapshots, skWork >>

\* The user makes a directory of that name in a tool's root.
UserAdds(t) ==
    /\ NewText /\ skTool[t].kind = "missing"
    /\ skTool' = [skTool EXCEPT ![t] = [kind |-> "own", text |-> skTexts']]
    /\ skOwn' = skOwn \cup {skTexts'}
    /\ UNCHANGED << skCanon, skUpstream, skBackups, Snapshots, skWork >>

UpstreamMoves == NewText /\ skUpstream' = skTexts' /\ UNCHANGED << skCanon, Roots, Snapshots, skWork >>

DayPasses == skDay < MaxDay /\ skDay' = skDay + 1
             /\ UNCHANGED << skCanon, skUpstream, Roots, Snapshots, skTexts, skAsked, skWork >>

SkillsNext ==
    \/ \E w \in Worker :
          \/ CreateFinishes(w) \/ SnapshotFinishes(w) \/ Ensures(w) \/ Badges(w)
          \/ RestoreStages(w) \/ RestoreSwaps(w) \/ UpdateSnapshots(w) \/ UpdateStops(w)
    \/ \E w \in Panel : CreateRequest(w) \/ Update(w)
    \/ \E w \in Panel, i \in VersionId : RestoreBegins(w, i)
    \/ \E i \in VersionId : DeleteVersion(i)
    \/ \E overwrite \in BOOLEAN : InstallLocal(overwrite) \/ InstallGit(overwrite)
    \/ \E t \in Tool, overwrite \in BOOLEAN : Sync(t, overwrite) \/ ImportExisting(t, overwrite)
    \/ \E kind \in {"plain", "clone"} : UserWritesSkill(kind)
    \/ \E t \in Tool : Unlink(t) \/ UserAdds(t) \/ AutoImports(t)
    \/ BadgeExpires \/ UserEditsSkill \/ UserCommitsSkill \/ UserDeletesSkill \/ UpstreamMoves \/ DayPasses

SkillsSpec == SkillsInit /\ [][SkillsNext]_skillVars

----------------------------------------------------------------------------
\* A snapshot somebody was told of keeps its content until it is deleted, and a
\* directory a user made in a tool's root is still there or in the backups,
\* however requests, updates and the scan interleave.
NothingIsLost ==
    /\ skAcked = skVersions
    /\ skOwn \subseteq skBackups \cup {skTool[t].text : t \in {u \in Tool : skTool[u].kind = "own"}}
=============================================================================
