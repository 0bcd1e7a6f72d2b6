----------------------------- MODULE Providers -----------------------------
(***************************************************************************)
(* Provider profiles (internal/providers, api/providers.go): a list kept   *)
(* in memory under a lock and saved as one file, the profile each target   *)
(* uses, the credentials handed to the auth store and, for profiles that   *)
(* ask for it, the configuration files of the CLIs.  A handler reads the   *)
(* list, works outside the lock and comes back to it.                      *)
(* A profile's fields are its name, one secret and the sync switch.        *)
(***************************************************************************)
EXTENDS Naturals, Sequences, FiniteSets, SequencesExt, FiniteSetsExt

CONSTANTS
    Request,      \* requests that may be in progress at once
    Name,         \* profile names
    AgentTarget,  \* the targets in use
    MaxProfiles,  \* profiles ever made
    MaxSecret,    \* secrets typed in, the same number of edits of live files
    BackupKeep,   \* backups kept of a live file
    SyncChoice,   \* what profiles say of live synchronisation
    MaxActivations,
    MaxFailures   \* saves that fail

ASSUME ProviderConstants ==
    AgentTarget \subseteq {"claude", "codex", "secretary"} /\ MaxProfiles \in Nat \ {0} /\ MaxSecret \in Nat /\ BackupKeep \in Nat \ {0} /\ MaxActivations \in Nat
    /\ SyncChoice \subseteq BOOLEAN /\ MaxFailures \in Nat

VARIABLES
    pvMem,     \* the store: profiles in order, and the active one of each target
    pvDisk,    \* providers.json
    pvFailed,  \* saves that failed
    pvAuth,    \* the secrets in the auth store
    pvLive,    \* settings.json, auth.json and config.toml
    pvBackups, \* the backups of each, oldest first
    pvTyped,   \* what the user last wrote into each (history)
    pvCall,    \* what each request is doing
    pvCount    \* how often: profiles made, secrets and edits, activations

providerVars == << pvMem, pvDisk, pvFailed, pvAuth, pvLive, pvBackups, pvTyped, pvCall, pvCount >>

FilesOf(target) == CASE target = "claude" -> {"settings"} [] target = "codex" -> {"auth", "config"} [] target = "secretary" -> {}
LiveFile == UNION {FilesOf(t) : t \in AgentTarget}
MaskedSecret == MaxSecret + 1
Secret == 0 .. MaskedSecret
Profile == [id : 1 .. MaxProfiles, name : Name, secret : Secret, sync : BOOLEAN]
LiveContent == [text : 0 .. MaxSecret, secret : Secret, broken : BOOLEAN, there : BOOLEAN]
NoFile == [text |-> 0, secret |-> 0, broken |-> FALSE, there |-> FALSE]
Waiting == [at |-> "idle", profile |-> << >>, target |-> "secretary", left |-> << >>, read |-> NoFile, force |-> FALSE]

\* One type condition for the module.
ProvidersTypeOK ==
    /\ \A s \in {pvMem, pvDisk} : /\ \A i \in DOMAIN s.profiles : s.profiles[i] \in Profile
                                           /\ s.active \in [AgentTarget -> 0 .. MaxProfiles]
    /\ pvFailed \in 0 .. MaxFailures /\ pvAuth \in [AgentTarget -> Secret] /\ pvLive \in [LiveFile -> LiveContent]
    /\ pvTyped \in [LiveFile -> 0 .. MaxSecret]
    /\ \A f \in LiveFile : Len(pvBackups[f]) <= BackupKeep
    /\ \A r \in Request : Len(pvCall[r].left) <= 2 /\ pvCall[r].read \in LiveContent

ProvidersInit ==
    /\ pvMem = [profiles |-> << >>, active |-> [t \in AgentTarget |-> 0]]
    /\ pvDisk = pvMem /\ pvFailed = 0
    /\ pvAuth = [t \in AgentTarget |-> 0]
    /\ pvLive = [f \in LiveFile |-> NoFile] /\ pvBackups = [f \in LiveFile |-> << >>]
    /\ pvTyped = [f \in LiveFile |-> 0]
    /\ pvCall = [r \in Request |-> Waiting]
    /\ pvCount = [made |-> 0, typed |-> 0, activations |-> 0]

Live == << pvLive, pvBackups, pvTyped >>
Store == << pvMem, pvDisk, pvFailed >>
CallAt(r, place) == pvCall[r].at = place
CallGoes(r, place) == pvCall' = [pvCall EXCEPT ![r].at = place]
Answer(r) == pvCall' = [pvCall EXCEPT ![r] = Waiting]
Count(field) == pvCount' = [pvCount EXCEPT ![field] = @ + 1]

Known(id) == \E i \in DOMAIN pvMem.profiles : pvMem.profiles[i].id = id
PlaceOf(id) == CHOOSE i \in DOMAIN pvMem.profiles : pvMem.profiles[i].id = id
ProfileOf(id) == pvMem.profiles[PlaceOf(id)]
NameTaken(name, except) == \E i \in DOMAIN pvMem.profiles :
                               pvMem.profiles[i].name = name /\ pvMem.profiles[i].id # except

\* saveLocked: a temporary file and a rename.  Memory keeps a change that could
\* not be saved, though the request is answered with an error.
Save(next) ==
    /\ pvMem' = next
    /\ \/ pvDisk' = next /\ UNCHANGED pvFailed
       \/ pvFailed < MaxFailures /\ pvFailed' = pvFailed + 1 /\ UNCHANGED pvDisk

----------------------------------------------------------------------------
(* Editing the list.                                                       *)

\* mergeProviderProfileForUpsert, outside the lock: an empty or masked secret is
\* replaced by the stored one, if the profile is still known.
Merged(p) == IF Known(p.id) /\ p.secret \in {0, MaskedSecret} THEN [p EXCEPT !.secret = ProfileOf(p.id).secret] ELSE p

UpsertReads(r, p, typed) ==
    /\ CallAt(r, "idle")
    /\ p.id \in 1 .. pvCount.made \/ (p.id = pvCount.made + 1 /\ pvCount.made < MaxProfiles)
    /\ IF typed THEN p.secret = pvCount.typed + 1 /\ pvCount.typed < MaxSecret
                ELSE p.secret \in IF p.id > pvCount.made THEN {0} ELSE {MaskedSecret}
    /\ pvCall' = [pvCall EXCEPT ![r] = [Waiting EXCEPT !.at = "upsert", !.profile = << Merged(p) >>]]
    /\ pvCount' = [pvCount EXCEPT !.made = IF p.id > @ THEN @ + 1 ELSE @, !.typed = IF typed THEN @ + 1 ELSE @]
    /\ UNCHANGED << Store, pvAuth, Live >>

\* Upsert: a profile deleted meanwhile is made again.
UpsertStores(r) ==
    /\ CallAt(r, "upsert")
    /\ LET p == Head(pvCall[r].profile) IN
       IF NameTaken(p.name, p.id) THEN Answer(r) /\ UNCHANGED Store
       ELSE /\ Save([pvMem EXCEPT !.profiles =
                        IF Known(p.id) THEN [i \in DOMAIN @ |-> IF @[i].id = p.id THEN p ELSE @[i]] ELSE Append(@, p)])
            /\ IF Len(pvCall[r].profile) > 1 /\ pvDisk' = pvMem'
                 THEN pvCall' = [pvCall EXCEPT ![r].profile = Tail(@)]
                 ELSE Answer(r)
    /\ UNCHANGED << pvAuth, Live, pvCount >>

DeleteProfile(id) ==
    /\ Known(id)
    /\ Save([profiles |-> RemoveAt(pvMem.profiles, PlaceOf(id)),
             active |-> [t \in AgentTarget |-> IF pvMem.active[t] = id THEN 0 ELSE pvMem.active[t]]])
    /\ UNCHANGED << pvAuth, Live, pvCall, pvCount >>

DuplicateProfile(id, name) ==
    /\ Known(id) /\ ~NameTaken(name, 0) /\ pvCount.made < MaxProfiles
    /\ Save([pvMem EXCEPT !.profiles = Append(@, [ProfileOf(id) EXCEPT !.id = pvCount.made + 1, !.name = name])])
    /\ Count("made") /\ UNCHANGED << pvAuth, Live, pvCall >>

\* Reorder: every profile of the list exactly once.
ReorderProfiles(i, j) ==
    /\ i < j /\ j <= Len(pvMem.profiles)
    /\ Save([pvMem EXCEPT !.profiles = [@ EXCEPT ![i] = pvMem.profiles[j], ![j] = pvMem.profiles[i]]])
    /\ UNCHANGED << pvAuth, Live, pvCall, pvCount >>

\* Import: names nobody had when the list was read, one Upsert after another;
\* the first that is refused ends the request and the earlier ones stay.
ImportReads(r, names, secret, sync) ==
    /\ CallAt(r, "idle") /\ pvCount.made + Len(names) <= MaxProfiles
    /\ \A i \in DOMAIN names : ~NameTaken(names[i], 0) /\ \A j \in DOMAIN names : names[i] = names[j] => i = j
    /\ pvCall' = [pvCall EXCEPT ![r] = [Waiting EXCEPT !.at = "upsert", !.profile =
          [i \in DOMAIN names |-> [id |-> pvCount.made + i, name |-> names[i], secret |-> secret, sync |-> sync]]]]
    /\ pvCount' = [pvCount EXCEPT !.made = @ + Len(names)]
    /\ UNCHANGED << Store, pvAuth, Live >>

SecretIn(f) == IF f \in LiveFile THEN pvLive[f].secret ELSE 0

\* ImportLive: a profile from each CLI's files, refused if one cannot be parsed.
ImportsLive(r, first, second) ==
    /\ CallAt(r, "idle") /\ pvCount.made + 2 <= MaxProfiles
    /\ \A f \in LiveFile : ~pvLive[f].broken
    /\ pvCall' = [pvCall EXCEPT ![r] = [Waiting EXCEPT !.at = "upsert", !.profile =
          << [id |-> pvCount.made + 1, name |-> first, secret |-> SecretIn("settings"), sync |-> FALSE],
             [id |-> pvCount.made + 2, name |-> second, secret |-> SecretIn("auth"), sync |-> FALSE] >>]]
    /\ pvCount' = [pvCount EXCEPT !.made = @ + 2]
    /\ UNCHANGED << Store, pvAuth, Live >>

----------------------------------------------------------------------------
(* Activating: the CLI's files first, then the auth store, then the choice. *)

\* The files of the target; config.toml is left alone without a model.
ActivationReads(r, id, target, force) ==
    /\ CallAt(r, "idle") /\ Known(id) /\ pvCount.activations < MaxActivations
    /\ LET p == ProfileOf(id) IN \E files \in
          IF ~p.sync \/ target = "secretary" THEN {<< >>}
          ELSE IF target = "claude" THEN {<< "settings" >>} ELSE {<< "auth" >>, << "auth", "config" >>} :
       /\ p.sync /\ target = "codex" => p.secret # 0
       /\ pvCall' = [pvCall EXCEPT ![r] = [Waiting EXCEPT !.at = "read", !.profile = << p >>, !.target = target,
                                                          !.left = files, !.force = force]]
    /\ Count("activations") /\ UNCHANGED << Store, pvAuth, Live >>

\* A file that does not parse ends the request unless it is forced.
SyncReads(r) ==
    /\ CallAt(r, "read") /\ pvCall[r].left # << >>
    /\ LET file == pvLive[Head(pvCall[r].left)] IN
       IF file.broken /\ ~pvCall[r].force THEN Answer(r)
       ELSE pvCall' = [pvCall EXCEPT ![r].at = "backup", ![r].read = IF file.broken THEN [NoFile EXCEPT !.there = TRUE] ELSE file]
    /\ UNCHANGED << Store, pvAuth, Live, pvCount >>

\* CreateRotatingBackup reads the file again.
Rotated(backups) == SubSeq(backups, Max({1, Len(backups) - BackupKeep + 1}), Len(backups))
SyncBacksUp(r) ==
    /\ CallAt(r, "backup") /\ CallGoes(r, "write")
    /\ LET f == Head(pvCall[r].left) IN
       pvBackups' = IF pvCall[r].read.there THEN [pvBackups EXCEPT ![f] = Rotated(Append(@, pvLive[f]))] ELSE pvBackups
    /\ UNCHANGED << Store, pvAuth, pvLive, pvTyped, pvCount >>

SyncWrites(r) ==
    /\ CallAt(r, "write")
    /\ LET f == Head(pvCall[r].left)
           secret == Head(pvCall[r].profile).secret
       IN pvLive' = [pvLive EXCEPT ![f] = [pvCall[r].read EXCEPT !.there = TRUE, !.secret = IF secret = 0 THEN @ ELSE secret]]
    /\ pvCall' = [pvCall EXCEPT ![r].at = "read", ![r].left = Tail(@)]
    /\ UNCHANGED << Store, pvAuth, pvBackups, pvTyped, pvCount >>

\* Activate reads the profile anew.
PatchAuth(r) ==
    /\ CallAt(r, "read") /\ pvCall[r].left = << >>
    /\ LET id == Head(pvCall[r].profile).id IN
       IF ~Known(id) THEN Answer(r) /\ UNCHANGED pvAuth
       ELSE /\ CallGoes(r, "activate")
            /\ pvAuth' = IF pvCall[r].target = "secretary" THEN pvAuth ELSE [pvAuth EXCEPT ![pvCall[r].target] = ProfileOf(id).secret]
    /\ UNCHANGED << Store, Live, pvCount >>

\* A mutant: the profile was known a moment ago.
SetActiveUnchecked(r) ==
    /\ CallAt(r, "activate") /\ Save([pvMem EXCEPT !.active[pvCall[r].target] = Head(pvCall[r].profile).id])
    /\ Answer(r) /\ UNCHANGED << pvAuth, Live, pvCount >>

\* SetActive checks again under the lock; the auth store keeps the new secrets.
SetActive(r) ==
    /\ CallAt(r, "activate")
    /\ LET id == Head(pvCall[r].profile).id IN
       IF Known(id) THEN Save([pvMem EXCEPT !.active[pvCall[r].target] = id]) ELSE UNCHANGED Store
    /\ Answer(r) /\ UNCHANGED << pvAuth, Live, pvCount >>

----------------------------------------------------------------------------
(* The user and the process.                                               *)

\* The user's own edits of a CLI's file, well-formed or not, but not after the
\* backup of a file that is about to be written, nor after the look that did
\* not find it: such an edit is lost.
UserEditsLive(f, broken) ==
    /\ pvCount.typed < MaxSecret /\ (f = "config" => ~broken)
    /\ \A r \in Request : ~CallAt(r, "write") /\ (CallAt(r, "backup") => pvCall[r].read.there)
    /\ Count("typed")
    /\ pvLive' = [pvLive EXCEPT ![f].text = pvCount'.typed, ![f].broken = broken, ![f].there = TRUE]
    /\ pvTyped' = [pvTyped EXCEPT ![f] = pvCount'.typed]
    /\ UNCHANGED << Store, pvAuth, pvBackups, pvCall >>

\* A new process reads providers.json; requests in progress are gone.
ProvidersRestart ==
    /\ pvMem' = pvDisk /\ pvCall' = [r \in Request |-> Waiting]
    /\ UNCHANGED << pvDisk, pvFailed, pvAuth, Live, pvCount >>

ProvidersNext ==
    \/ \E r \in Request : \/ UpsertStores(r) \/ SyncReads(r) \/ SyncBacksUp(r) \/ SyncWrites(r)
                          \/ PatchAuth(r) \/ SetActive(r)
    \/ \E r \in Request, id \in 1 .. MaxProfiles, name \in Name, secret \in Secret, sync \in SyncChoice, typed \in BOOLEAN :
          UpsertReads(r, [id |-> id, name |-> name, secret |-> secret, sync |-> sync], typed)
    \/ \E r \in Request, first, second \in Name : ImportsLive(r, first, second)
    \/ \E r \in Request, first, second \in Name, sync \in SyncChoice : ImportReads(r, << first, second >>, MaskedSecret, sync)
    \/ \E r \in Request, id \in 1 .. MaxProfiles, target \in AgentTarget, force \in BOOLEAN : ActivationReads(r, id, target, force)
    \/ \E id \in 1 .. MaxProfiles, name \in Name : DuplicateProfile(id, name)
    \/ \E id \in 1 .. MaxProfiles : DeleteProfile(id)
    \/ \E i, j \in 1 .. MaxProfiles : ReorderProfiles(i, j)
    \/ \E f \in LiveFile, broken \in BOOLEAN : UserEditsLive(f, broken)
    \/ ProvidersRestart

ProvidersSpec == ProvidersInit /\ [][ProvidersNext]_providerVars

----------------------------------------------------------------------------
\* In memory and in the file the names differ and an active profile exists.
StoreCoherent ==
    /\ \A s \in {pvMem, pvDisk} :
          /\ \A t \in AgentTarget : s.active[t] # 0 => \E i \in DOMAIN s.profiles : s.profiles[i].id = s.active[t]
          /\ \A i, j \in DOMAIN s.profiles : i # j => s.profiles[i].name # s.profiles[j].name /\ s.profiles[i].id # s.profiles[j].id

\* What the user wrote into a CLI's file is in it or in a backup, until the
\* backups made since then filled the directory.
LiveKept ==
    \A f \in LiveFile : \/ pvTyped[f] = pvLive[f].text
                        \/ \E i \in DOMAIN pvBackups[f] : pvBackups[f][i].text = pvTyped[f]
                        \/ Len(pvBackups[f]) = BackupKeep

\* Requests that interleave, fail to save or are cut short by a crash leave
\* profiles, choices and the user's files in a state that can be used.
ProvidersCoherent == StoreCoherent /\ LiveKept

\* No stored secret is the placeholder a client was shown instead of it.
NoPlaceholderStored == \A i \in DOMAIN pvMem.profiles : pvMem.profiles[i].secret # MaskedSecret
=============================================================================
