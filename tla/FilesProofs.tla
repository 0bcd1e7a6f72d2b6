---------------------------- MODULE FilesProofs ----------------------------
(***************************************************************************)
(* Proofs about what is kept in files: the run workspaces, the skills and  *)
(* the provider profiles.  Each has an inductive form of its types, then   *)
(* the invariant that says nothing of the user's is lost, and the theorems *)
(* are stated of the specification that runs them one at a time.           *)
(***************************************************************************)
EXTENDS MCFiles, TLAPS, SequenceTheorems, WellFoundedInduction

\* What RemoveAt leaves: the entries before the place, and those after it one place earlier.
LEMMA RemovedAt ==
  ASSUME NEW S, NEW s \in Seq(S), NEW i \in 1 .. Len(s), NEW t, t = RemoveAt(s, i)
  PROVE  /\ t \in Seq(S) /\ Len(t) = Len(s) - 1
         /\ \A j \in 1 .. Len(t) : t[j] = IF j < i THEN s[j] ELSE s[j + 1]
<1> DEFINE a == SubSeq(s, 1, i - 1)
           b == SubSeq(s, i + 1, Len(s))
<1>0. PICK n \in Nat : n = Len(s)
  OBVIOUS
<1>1. i \in 1 .. n /\ \A j \in 1 .. n : s[j] \in S
  BY <1>0
<1>2. a \in Seq(S) /\ Len(a) = i - 1 /\ \A j \in 1 .. i - 1 : a[j] = s[j]
  BY <1>0, <1>1, SubSeqProperties
<1>3. b \in Seq(S) /\ Len(b) = n - i /\ \A j \in 1 .. n - i : b[j] = s[i + j]
  <2>1. \A j \in i + 1 .. n : s[j] \in S
    BY <1>1
  <2>2. /\ b \in Seq(S) /\ Len(b) = IF i + 1 <= n THEN n - (i + 1) + 1 ELSE 0
        /\ \A j \in 1 .. n - (i + 1) + 1 : b[j] = s[(i + 1) + j - 1]
    BY <1>0, <1>1, <2>1, SubSeqProperties
  <2> HIDE DEF b
  <2> QED BY <1>1, <2>2
<1>4. t = a \o b
  BY DEF RemoveAt
<1> HIDE DEF a, b
<1>5. /\ t \in Seq(S) /\ Len(t) = Len(a) + Len(b)
      /\ \A j \in 1 .. Len(a) + Len(b) : t[j] = IF j <= Len(a) THEN a[j] ELSE b[j - Len(a)]
  <2>1. a \in Seq(S) /\ b \in Seq(S)
    BY <1>2, <1>3
  <2> QED BY <2>1, <1>4, ConcatProperties
<1>6. Len(t) = n - 1 /\ Len(a) = i - 1 /\ Len(b) = n - i
  BY <1>1, <1>2, <1>3, <1>5
<1>7. ASSUME NEW j \in 1 .. n - 1 PROVE t[j] = IF j < i THEN s[j] ELSE s[j + 1]
  <2>1. CASE j < i
    BY <1>1, <1>2, <1>5, <1>6, <2>1
  <2>2. CASE ~(j < i)
    <3>1. j \in 1 .. Len(a) + Len(b) /\ ~(j <= Len(a)) /\ j - Len(a) = j - i + 1 /\ j - i + 1 \in 1 .. n - i
      BY <1>1, <1>6, <2>2
    <3>2. t[j] = b[j - i + 1] /\ b[j - i + 1] = s[i + (j - i + 1)]
      BY <1>3, <1>5, <3>1
    <3>3. i + (j - i + 1) = j + 1
      BY <1>1
    <3> QED BY <3>2, <3>3, <2>2
  <2> QED BY <2>1, <2>2
<1> QED BY <1>0, <1>5, <1>6, <1>7

\* Without its first e, a list without duplicates holds all the others, each once.
LEMMA Without ==
  ASSUME NEW S, NEW s \in Seq(S), NEW e,
         NEW t, t = RemoveFirst(s, e), IsInjective(s)
  PROVE  t \in Seq(S) /\ ToSet(t) = ToSet(s) \ {e} /\ IsInjective(t)
<1>1. CASE ~ \E i \in 1 .. Len(s) : s[i] = e
  BY <1>1 DEF RemoveFirst, ToSet
<1>2. CASE \E i \in 1 .. Len(s) : s[i] = e
  <2>1. PICK i \in 1 .. Len(s) : s[i] = e
    BY <1>2
  <2>2. SelectInSeq(s, LAMBDA v : v = e) = i
    BY <2>1 DEF SelectInSeq, Min, IsInjective
  <2>3. t = RemoveAt(s, i)
    BY <1>2, <2>2 DEF RemoveFirst
  <2>4. /\ t \in Seq(S) /\ Len(t) = Len(s) - 1
        /\ \A j \in 1 .. Len(t) : t[j] = IF j < i THEN s[j] ELSE s[j + 1]
    BY <2>3, RemovedAt
  <2>5. DOMAIN t = 1 .. Len(s) - 1 /\ DOMAIN s = 1 .. Len(s)
    BY <2>4
  <2>6. \A j \in 1 .. Len(s) : j # i => \E m \in 1 .. Len(s) - 1 : t[m] = s[j]
    <3> SUFFICES ASSUME NEW j \in 1 .. Len(s), j # i PROVE \E m \in 1 .. Len(s) - 1 : t[m] = s[j]
      OBVIOUS
    <3>1. CASE j < i
      BY <2>4, <3>1
    <3>2. CASE j > i
      <4>1. j - 1 \in 1 .. Len(s) - 1 /\ ~(j - 1 < i) /\ (j - 1) + 1 = j
        BY <3>2
      <4> QED BY <4>1, <2>4
    <3> QED BY <3>1, <3>2
  <2>7. ToSet(t) = ToSet(s) \ {e}
    <3>1. ToSet(t) \subseteq ToSet(s) \ {e}
      BY <2>1, <2>4, <2>5, SMTT(30) DEF ToSet, IsInjective
    <3>2. ToSet(s) \ {e} \subseteq ToSet(t)
      <4> SUFFICES ASSUME NEW j \in 1 .. Len(s), s[j] # e PROVE \E m \in DOMAIN t : t[m] = s[j]
        BY <2>5 DEF ToSet
      <4> QED BY <2>1, <2>6, <2>5
    <3> QED BY <3>1, <3>2
  <2>8. IsInjective(t)
    BY <2>4, <2>5, SMTT(30) DEF IsInjective
  <2> QED BY <2>4, <2>7, <2>8
<1> QED BY <1>1, <1>2

-----------------------------------------------------------------------------
(* Run workspaces: types.                                                    *)

CallField == {"at", "key", "files", "snap", "clean", "old"}
IsCall(x) ==
  /\ x = [field \in CallField |-> x[field]]
  /\ x.key \in Key /\ x.files \subseteq File

CallsTyped == rwCall = [c \in Caller |-> rwCall[c]] /\ \A c \in Caller : IsCall(rwCall[c])

RowsTyped ==
  /\ rwStatus \in [Key -> {"none", "active", "merged", "discarded"}]
  /\ rwRecent \in Seq(Key) /\ ToSet(rwRecent) = {k \in Key : rwStatus[k] # "none"}
  /\ IsInjective(rwRecent)

DiskTyped ==
  /\ rwDir \subseteq Key /\ rwBranch \subseteq Key
  /\ rwCopy \in [Key -> [File -> Content]]
  /\ rwManifest = [k \in Key |-> rwManifest[k]]
  /\ \A k \in Key : rwManifest[k] = NoManifest \/ rwManifest[k] \in [File -> Content]

RestTyped ==
  /\ rwKind \in {"git-worktree", "copy"}
  /\ rwBusy \subseteq Key /\ rwRefused \subseteq Key
  /\ rwBase \in [File -> Content] /\ rwMade \in [File -> Content] /\ rwDirty \in BOOLEAN
  /\ rwBreaks \in 0 .. MaxBreaks

WTyped == CallsTyped /\ RowsTyped /\ DiskTyped /\ RestTyped

\* A caller that rests holds a well-formed call.
LEMMA IdleCall == IsCall(Idle)
<1>1. (CHOOSE k \in Key : TRUE) \in Key
  BY WorkspaceConstants
<1> QED BY <1>1 DEF Idle, IsCall, CallField

\* One caller moves to a well-formed call, the others stay as they are.
LEMMA CallsGo ==
  ASSUME CallsTyped, NEW c \in Caller, NEW x, IsCall(x), rwCall' = [rwCall EXCEPT ![c] = x]
  PROVE  CallsTyped' /\ rwCall'[c] = x /\ \A d \in Caller : d # c => rwCall'[d] = rwCall[d]
<1>1. rwCall' = [d \in Caller |-> IF d = c THEN x ELSE rwCall[d]]
  BY DEF CallsTyped
<1>2. \A d \in Caller : rwCall'[d] = IF d = c THEN x ELSE rwCall[d]
  BY <1>1
<1>3. \A d \in Caller : IsCall(rwCall'[d])
  BY <1>2 DEF CallsTyped
<1> QED BY <1>1, <1>2, <1>3 DEF CallsTyped, IsCall

\* Every step of the workspaces leaves every call well-formed.
LEMMA CallsStep == WTyped /\ [WorkspaceNext]_workspaceVars => CallsTyped'
<1> SUFFICES ASSUME WTyped, [WorkspaceNext]_workspaceVars PROVE CallsTyped'
  OBVIOUS
<1>0. CallsTyped /\ \A c \in Caller : IsCall(rwCall[c])
  BY DEF WTyped, CallsTyped
<1>1. ASSUME UNCHANGED rwCall PROVE CallsTyped'
  BY <1>0, <1>1 DEF CallsTyped, IsCall
<1>2. ASSUME NEW c \in Caller, NEW x, IsCall(x), rwCall' = [rwCall EXCEPT ![c] = x] PROVE CallsTyped'
  BY <1>0, <1>2, CallsGo
<1>3. ASSUME NEW c \in Caller, NEW place, Goto(c, place) PROVE CallsTyped'
  <2>1. rwCall' = [rwCall EXCEPT ![c] = [rwCall[c] EXCEPT !.at = place]]
    BY <1>3 DEF Goto
  <2>2. IsCall([rwCall[c] EXCEPT !.at = place])
    BY <1>0 DEF IsCall, CallField
  <2> QED BY <1>2, <2>1, <2>2
<1>4. ASSUME NEW c \in Caller, Return(c) PROVE CallsTyped'
  BY <1>2, <1>4, IdleCall DEF Return
<1>5. ASSUME NEW c \in Caller, NEW k \in Key, NEW place, Begin(c, k, place) PROVE CallsTyped'
  <2>1. IsCall([Idle EXCEPT !.key = k, !.at = place])
    BY IdleCall DEF IsCall, CallField
  <2> QED BY <1>2, <1>5, <2>1 DEF Begin
<1>6. ASSUME NEW c \in Caller, NEW k \in Key, EnsureBegins(c, k) \/ MergeBegins(c, k) \/ DiscardRemoves(c, k)
      PROVE  CallsTyped'
  <2>1. CASE EnsureBegins(c, k)
    <3>1. \E place : Begin(c, k, place)
      BY <2>1 DEF EnsureBegins
    <3> QED BY <1>5, <3>1
  <2>2. CASE DiscardRemoves(c, k)
    BY <1>5, <2>2 DEF DiscardRemoves
  <2>3. CASE MergeBegins(c, k)
    <3>1. PICK place : rwCall' = [rwCall EXCEPT ![c] = [Idle EXCEPT !.key = k, !.snap = rwManifest[k], !.at = place, !.files = File]]
      BY <2>3 DEF MergeBegins
    <3>2. IsCall([Idle EXCEPT !.key = k, !.snap = rwManifest[k], !.at = place, !.files = File])
      BY IdleCall DEF IsCall, CallField
    <3> QED BY <1>2, <3>1, <3>2
  <2> QED BY <1>6, <2>1, <2>2, <2>3
<1>7. ASSUME NEW c \in Caller,
             \/ EnsureReactivates(c) \/ WorktreeRefused(c) \/ WorktreeAdded(c) \/ FilesCopied(c)
             \/ FilesFingerprinted(c) \/ CreationBreaks(c) \/ WorkspaceRecorded(c)
             \/ EnsureReturns(c) \/ MergeReturns(c) \/ DiscardReturns(c)
      PROVE  CallsTyped'
  <2>1. (\E place : Goto(c, place)) \/ Return(c)
    BY <1>7 DEF EnsureReactivates, WorktreeRefused, WorktreeAdded, FilesCopied, FilesFingerprinted, CreationBreaks,
                WorkspaceRecorded, EnsureReturns, MergeReturns, DiscardReturns, Refuse
  <2> QED BY <1>3, <1>4, <2>1
<1>8. ASSUME NEW c \in Caller, CollectionLists(c) \/ CollectionRemoves(c) \/ FileApplied(c) \/ BranchMerged(c)
      PROVE  CallsTyped'
  <2>0. IsCall(rwCall[c])
    BY <1>0
  <2>1. ASSUME NEW old, rwCall' = [rwCall EXCEPT ![c].at = "collecting", ![c].old = old] PROVE CallsTyped'
    <3>1. IsCall([rwCall[c] EXCEPT !.at = "collecting", !.old = old])
      BY <2>0 DEF IsCall, CallField
    <3> QED BY <1>0, <1>2, <2>1, <3>1 DEF CallsTyped
  <2>2. ASSUME NEW old, rwCall' = [rwCall EXCEPT ![c].old = old] PROVE CallsTyped'
    <3>1. IsCall([rwCall[c] EXCEPT !.old = old])
      BY <2>0 DEF IsCall, CallField
    <3> QED BY <1>2, <2>2, <3>1
  <2>3. ASSUME NEW files \in SUBSET File, NEW clean, rwCall' = [rwCall EXCEPT ![c].files = files, ![c].clean = clean]
        PROVE CallsTyped'
    <3>1. IsCall([rwCall[c] EXCEPT !.files = files, !.clean = clean])
      BY <2>0 DEF IsCall, CallField
    <3> QED BY <1>0, <1>2, <2>3, <3>1 DEF CallsTyped
  <2>4. ASSUME NEW files \in SUBSET File, rwCall' = [rwCall EXCEPT ![c].files = files] PROVE CallsTyped'
    <3>1. IsCall([rwCall[c] EXCEPT !.files = files])
      BY <2>0 DEF IsCall, CallField
    <3> QED BY <1>2, <2>4, <3>1
  <2>5. CASE CollectionLists(c)
    BY <2>1, <2>5 DEF CollectionLists
  <2>6. CASE CollectionRemoves(c)
    BY <2>2, <2>6 DEF CollectionRemoves
  <2>7. CASE FileApplied(c)
    <3>1. PICK f, clean : rwCall' = [rwCall EXCEPT ![c].files = @ \ {f}, ![c].clean = clean]
      <4>1. ASSUME NEW f, NEW conflict,
                   rwCall' = [rwCall EXCEPT ![c].files = @ \ {f}, ![c].clean = @ /\ ~conflict]
            PROVE  \E clean : rwCall' = [rwCall EXCEPT ![c].files = @ \ {f}, ![c].clean = clean]
        BY <4>1
      <4> QED BY <2>7, <4>1 DEF FileApplied
    <3>2. rwCall[c].files \ {f} \in SUBSET File
      BY <2>0 DEF IsCall, CallField
    <3> QED BY <2>3, <3>1, <3>2
  <2>8. CASE BranchMerged(c)
    <3>1. {} \in SUBSET File
      OBVIOUS
    <3> QED BY <1>4, <2>4, <2>8, <3>1 DEF BranchMerged
  <2> QED BY <1>8, <2>5, <2>6, <2>7, <2>8
<1>9. ASSUME \/ \E k \in Key : AgentEdits(k)
             \/ \E e \in Edit : UserEdits(e)
             \/ UserCommits \/ UNCHANGED workspaceVars
      PROVE  CallsTyped'
  BY <1>1, <1>9 DEF AgentEdits, UserEdits, UserCommits, workspaceVars
<1> QED BY <1>6, <1>7, <1>8, <1>9 DEF WorkspaceNext

\* A session whose row was written comes first in the list.
LEMMA Fronted ==
  ASSUME NEW S, NEW r \in Seq(S), NEW e \in S, e \notin ToSet(r), IsInjective(r),
         NEW t, t = << e >> \o r
  PROVE  t \in Seq(S) /\ (\A x : x \in ToSet(t) <=> x \in ToSet(r) \/ x = e) /\ IsInjective(t)
<1>0. PICK n \in Nat : n = Len(r)
  OBVIOUS
<1>1. << e >> \in Seq(S) /\ Len(<< e >>) = 1 /\ << e >>[1] = e
  OBVIOUS
<1>2. t \in Seq(S) /\ Len(t) = 1 + n /\ \A i \in 1 .. 1 + n : t[i] = IF i <= 1 THEN << e >>[i] ELSE r[i - 1]
  BY <1>0, <1>1, ConcatProperties
<1>3. DOMAIN t = 1 .. 1 + n /\ DOMAIN r = 1 .. n /\ t[1] = e /\ \A i \in 2 .. 1 + n : t[i] = r[i - 1]
  BY <1>0, <1>1, <1>2
<1>4. \A i \in 1 .. n : r[i] # e
  BY <1>3 DEF ToSet
<1>5. \A i \in 1 .. n : i + 1 \in 1 .. 1 + n /\ t[i + 1] = r[i]
  <2> SUFFICES ASSUME NEW i \in 1 .. n PROVE i + 1 \in 1 .. 1 + n /\ t[i + 1] = r[i]
    OBVIOUS
  <2>1. i + 1 \in 2 .. 1 + n /\ (i + 1) - 1 = i
    OBVIOUS
  <2> QED BY <1>3, <2>1
<1>6. ToSet(t) \subseteq ToSet(r) \cup {e}
  <2> SUFFICES ASSUME NEW i \in 1 .. 1 + n PROVE t[i] = e \/ \E j \in 1 .. n : r[j] = t[i]
    BY <1>3 DEF ToSet
  <2>1. i = 1 \/ (i \in 2 .. 1 + n /\ i - 1 \in 1 .. n)
    OBVIOUS
  <2> QED BY <1>3, <2>1
<1>7. ToSet(r) \cup {e} \subseteq ToSet(t)
  <2>1. e \in ToSet(t)
    <3>1. 1 \in DOMAIN t
      BY <1>3
    <3> QED BY <1>3, <3>1 DEF ToSet
  <2>2. ASSUME NEW i \in 1 .. n PROVE \E j \in DOMAIN t : t[j] = r[i]
    <3>1. i + 1 \in DOMAIN t /\ t[i + 1] = r[i]
      BY <1>3, <1>5
    <3> QED BY <3>1
  <2>3. ToSet(r) \subseteq ToSet(t)
    <3> SUFFICES ASSUME NEW x \in ToSet(r) PROVE x \in ToSet(t)
      OBVIOUS
    <3>1. PICK i \in 1 .. n : x = r[i]
      BY <1>3 DEF ToSet
    <3> QED BY <2>2, <3>1 DEF ToSet
  <2> QED BY <2>1, <2>3
<1>8. ASSUME NEW i \in 1 .. 1 + n, NEW j \in 1 .. 1 + n, t[i] = t[j] PROVE i = j
  <2>1. CASE i = 1 /\ j = 1
    BY <2>1
  <2>2. CASE i = 1 /\ j # 1
    <3>1. j \in 2 .. 1 + n /\ j - 1 \in 1 .. n
      BY <2>2
    <3> QED BY <1>3, <1>4, <1>8, <2>2, <3>1
  <2>3. CASE i # 1 /\ j = 1
    <3>1. i \in 2 .. 1 + n /\ i - 1 \in 1 .. n
      BY <2>3
    <3> QED BY <1>3, <1>4, <1>8, <2>3, <3>1
  <2>4. CASE i # 1 /\ j # 1
    <3>1. i \in 2 .. 1 + n /\ j \in 2 .. 1 + n /\ i - 1 \in 1 .. n /\ j - 1 \in 1 .. n
      BY <2>4
    <3>2. r[i - 1] = r[j - 1]
      BY <1>3, <1>8, <3>1
    <3>3. i - 1 = j - 1
      BY <1>3, <3>1, <3>2 DEF IsInjective
    <3> QED BY <3>3
  <2> QED BY <2>1, <2>2, <2>3, <2>4
<1> QED BY <1>2, <1>3, <1>6, <1>7, <1>8 DEF IsInjective

\* UpsertSessionWorkspace keeps one row for each session that has one.
LEMMA Upserted ==
  ASSUME RowsTyped, NEW k \in Key, NEW status \in {"active", "merged", "discarded"}, Upsert(k, status)
  PROVE  RowsTyped'
<1>1. PICK r : r = RemoveFirst(rwRecent, k)
  OBVIOUS
<1>2. r \in Seq(Key) /\ ToSet(r) = ToSet(rwRecent) \ {k} /\ IsInjective(r)
  BY <1>1, Without DEF RowsTyped
<1>3. /\ rwRecent' \in Seq(Key) /\ ToSet(rwRecent') = ToSet(r) \cup {k}
      /\ IsInjective(rwRecent')
  <2>1. rwRecent' = << k >> \o r
    BY <1>1 DEF Upsert
  <2>2. k \notin ToSet(r)
    BY <1>2
  <2>3. PICK t : t = << k >> \o r
    OBVIOUS
  <2>4. IsInjective(r) /\ r \in Seq(Key) /\ k \in Key
    BY <1>2
  <2>5. \A x : x \in ToSet(t) <=> x \in ToSet(r) \/ x = k
    BY <2>2, <2>3, <2>4, Fronted
  <2>6. IsInjective(t)
    BY <2>2, <2>3, <2>4, Fronted, ZenonT(30)
  <2>7. t \in Seq(Key)
    BY <2>2, <2>3, <2>4, Fronted
  <2> QED BY <2>1, <2>3, <2>5, <2>6, <2>7
<1>4. rwStatus' \in [Key -> {"none", "active", "merged", "discarded"}]
  BY DEF RowsTyped, Upsert
<1>5. \A h \in Key : rwStatus'[h] = IF h = k THEN status ELSE rwStatus[h]
  BY DEF RowsTyped, Upsert
<1>6. ToSet(rwRecent') = {h \in Key : rwStatus'[h] # "none"}
  BY <1>2, <1>3, <1>5 DEF RowsTyped
<1> QED BY <1>3, <1>4, <1>6 DEF RowsTyped

\* Deleting a row (DeleteSessionWorkspace) keeps the rows of the others.
LEMMA Dropped ==
  ASSUME RowsTyped, NEW k, rwStatus' = [rwStatus EXCEPT ![k] = "none"], rwRecent' = RemoveFirst(rwRecent, k)
  PROVE  RowsTyped'
<1>1. /\ rwRecent' \in Seq(Key) /\ ToSet(rwRecent') = ToSet(rwRecent) \ {k}
      /\ IsInjective(rwRecent')
  BY Without DEF RowsTyped
<1>2. rwStatus' \in [Key -> {"none", "active", "merged", "discarded"}]
  BY DEF RowsTyped
<1>3. \A h \in Key : rwStatus'[h] = IF h = k THEN "none" ELSE rwStatus[h]
  BY DEF RowsTyped
<1>4. ToSet(rwRecent') = {h \in Key : rwStatus'[h] # "none"}
  BY <1>1, <1>3 DEF RowsTyped
<1> QED BY <1>1, <1>2, <1>4 DEF RowsTyped

\* Every step keeps the table and its order in agreement.
LEMMA RowsStep == WTyped /\ [WorkspaceNext]_workspaceVars => RowsTyped'
<1> SUFFICES ASSUME WTyped, [WorkspaceNext]_workspaceVars PROVE RowsTyped'
  OBVIOUS
<1>0. RowsTyped /\ \A c \in Caller : rwCall[c].key \in Key
  BY DEF WTyped, CallsTyped, IsCall
<1>1. ASSUME UNCHANGED Rows PROVE RowsTyped'
  BY <1>0, <1>1 DEF Rows, RowsTyped, ToSet
<1>2. ASSUME NEW c \in Caller,
             \/ EnsureReactivates(c) \/ WorkspaceRecorded(c) \/ DiscardReturns(c) \/ MergeReturns(c)
      PROVE  RowsTyped'
  <2>1. UNCHANGED Rows \/ \E status \in {"active", "merged", "discarded"} : Upsert(rwCall[c].key, status)
    BY <1>2 DEF EnsureReactivates, WorkspaceRecorded, DiscardReturns, MergeReturns
  <2> QED BY <1>0, <1>1, <2>1, Upserted
<1>3. ASSUME NEW c \in Caller, CollectionRemoves(c) PROVE RowsTyped'
  BY <1>0, <1>3, Dropped DEF CollectionRemoves
<1>4. ASSUME \/ \E c \in Caller, k \in Key : EnsureBegins(c, k) \/ MergeBegins(c, k) \/ DiscardRemoves(c, k)
             \/ \E c \in Caller :
                   \/ WorktreeRefused(c) \/ WorktreeAdded(c) \/ FilesCopied(c) \/ FilesFingerprinted(c) \/ CreationBreaks(c)
                   \/ CollectionLists(c) \/ EnsureReturns(c) \/ FileApplied(c) \/ BranchMerged(c)
             \/ \E k \in Key : AgentEdits(k)
             \/ \E e \in Edit : UserEdits(e)
             \/ UserCommits \/ UNCHANGED workspaceVars
      PROVE  UNCHANGED Rows
  BY <1>4 DEF EnsureBegins, MergeBegins, DiscardRemoves, WorktreeRefused, WorktreeAdded, FilesCopied, FilesFingerprinted,
              CreationBreaks, CollectionLists, EnsureReturns, FileApplied, BranchMerged, AgentEdits, UserEdits, UserCommits,
              Refuse, Rows, workspaceVars
<1> QED BY <1>1, <1>2, <1>3, <1>4 DEF WorkspaceNext

\* Removing run roots takes the manifest with the copy, and leaves other sessions alone.
LEMMA Removed ==
  ASSUME DiskTyped, NEW ks, RemoveRunRoots(ks)
  PROVE  /\ DiskTyped'
         /\ \A k \in Key : \/ rwManifest'[k] = rwManifest[k] /\ rwCopy'[k] = rwCopy[k]
                          \/ rwManifest'[k] = NoManifest
<1>1. Absent \in [File -> Content]
  BY DEF Absent, Content
<1>2. /\ rwDir' = rwDir \ ks /\ rwBranch' = rwBranch
      /\ rwCopy' = [k \in Key |-> IF k \in ks THEN Absent ELSE rwCopy[k]]
      /\ rwManifest' = [k \in Key |-> IF k \in ks THEN NoManifest ELSE rwManifest[k]]
  BY DEF RemoveRunRoots
<1> QED BY <1>1, <1>2 DEF DiskTyped

\* Every step leaves directories, branches, copies and manifests within their types.
LEMMA DiskStep == WTyped /\ [WorkspaceNext]_workspaceVars => DiskTyped'
<1> SUFFICES ASSUME WTyped, [WorkspaceNext]_workspaceVars PROVE DiskTyped'
  OBVIOUS
<1>0. DiskTyped /\ rwBase \in [File -> Content] /\ \A c \in Caller : rwCall[c].key \in Key
  BY DEF WTyped, CallsTyped, IsCall, RestTyped
<1>1. ASSUME UNCHANGED Disk PROVE DiskTyped'
  BY <1>0, <1>1 DEF Disk, DiskTyped
<1>2. ASSUME NEW c \in Caller, WorktreeAdded(c) \/ FilesCopied(c) \/ FilesFingerprinted(c) PROVE DiskTyped'
  <2>1. /\ rwDir' \subseteq rwDir \cup {rwCall[c].key} /\ rwBranch' \subseteq rwBranch \cup {rwCall[c].key}
        /\ rwCopy' \in {rwCopy, [rwCopy EXCEPT ![rwCall[c].key] = rwBase]}
        /\ \E m \in {NoManifest, rwBase} : rwManifest' \in {rwManifest, [rwManifest EXCEPT ![rwCall[c].key] = m]}
    BY <1>2 DEF WorktreeAdded, FilesCopied, FilesFingerprinted
  <2>2. /\ rwDir' \subseteq Key /\ rwBranch' \subseteq Key /\ rwCopy' \in [Key -> [File -> Content]]
    BY <1>0, <2>1 DEF DiskTyped
  <2>3. rwManifest' = [k \in Key |-> rwManifest'[k]]
    BY <1>0, <2>1 DEF DiskTyped
  <2>4. \A k \in Key : rwManifest'[k] = NoManifest \/ rwManifest'[k] \in [File -> Content]
    BY <1>0, <2>1 DEF DiskTyped
  <2> QED BY <2>2, <2>3, <2>4 DEF DiskTyped
<1>3. ASSUME NEW ks, RemoveRunRoots(ks) PROVE DiskTyped'
  BY <1>0, <1>3, Removed
<1>4. ASSUME NEW k \in Key, AgentEdits(k) PROVE DiskTyped'
  <2>1. PICK f \in File : rwCopy' = [rwCopy EXCEPT ![k][f] = IF k \in rwDir THEN @ \cup {k} ELSE @]
    BY <1>4 DEF AgentEdits
  <2>2. rwCopy[k] \in [File -> Content] /\ rwCopy[k][f] \in Content /\ rwCopy[k][f] \cup {k} \in Content
    BY <1>0 DEF DiskTyped, Content
  <2>3. PICK x \in Content : rwCopy' = [rwCopy EXCEPT ![k][f] = x]
    BY <2>1, <2>2
  <2>4. [rwCopy[k] EXCEPT ![f] = x] \in [File -> Content]
    BY <2>2
  <2>5. rwCopy' \in [Key -> [File -> Content]]
    BY <1>0, <2>3, <2>4 DEF DiskTyped
  <2> QED BY <1>0, <1>4, <2>5 DEF AgentEdits, DiskTyped
<1>5. ASSUME NEW c \in Caller, NEW k \in Key, EnsureBegins(c, k) \/ MergeBegins(c, k) \/ DiscardRemoves(c, k)
      PROVE  UNCHANGED Disk \/ \E ks : RemoveRunRoots(ks)
  BY <1>5 DEF EnsureBegins, MergeBegins, DiscardRemoves
<1>6. ASSUME NEW c \in Caller,
             \/ EnsureReactivates(c) \/ WorktreeRefused(c) \/ CreationBreaks(c) \/ WorkspaceRecorded(c)
             \/ CollectionLists(c) \/ CollectionRemoves(c) \/ EnsureReturns(c)
             \/ FileApplied(c) \/ BranchMerged(c) \/ MergeReturns(c) \/ DiscardReturns(c)
      PROVE  UNCHANGED Disk \/ \E ks : RemoveRunRoots(ks)
  BY <1>6 DEF EnsureReactivates, WorktreeRefused, CreationBreaks, WorkspaceRecorded, CollectionLists, CollectionRemoves,
              EnsureReturns, FileApplied, BranchMerged, MergeReturns, DiscardReturns
<1>7. ASSUME (\E e \in Edit : UserEdits(e)) \/ UserCommits \/ UNCHANGED workspaceVars PROVE UNCHANGED Disk
  BY <1>7 DEF UserEdits, UserCommits, workspaceVars, Disk
<1> QED BY <1>1, <1>2, <1>3, <1>4, <1>5, <1>6, <1>7 DEF WorkspaceNext

\* Every step leaves the base, the counters and the flags within their types.
LEMMA RestStep == WTyped /\ [WorkspaceNext]_workspaceVars => RestTyped'
<1> SUFFICES ASSUME WTyped, [WorkspaceNext]_workspaceVars PROVE RestTyped'
  OBVIOUS
<1>0. /\ RestTyped /\ rwCopy \in [Key -> [File -> Content]]
      /\ \A c \in Caller : rwCall[c].key \in Key /\ rwCall[c].files \subseteq File
  BY DEF WTyped, CallsTyped, IsCall, DiskTyped
<1>1. ASSUME UNCHANGED << Base, Others >> PROVE RestTyped'
  BY <1>0, <1>1 DEF Base, Others, RestTyped
<1>2. ASSUME NEW c \in Caller, WorktreeRefused(c) \/ CreationBreaks(c) \/ EnsureReturns(c) PROVE RestTyped'
  <2>1. /\ UNCHANGED << Base, rwKind >>
        /\ rwBusy' \subseteq rwBusy \cup {rwCall[c].key} /\ rwRefused' \subseteq rwRefused \cup {rwCall[c].key}
        /\ rwBreaks' = rwBreaks \/ (rwBreaks < MaxBreaks /\ rwBreaks' = rwBreaks + 1)
    BY <1>2 DEF WorktreeRefused, CreationBreaks, EnsureReturns, Refuse
  <2> QED BY <1>0, <2>1, WorkspaceConstants DEF RestTyped, Base
<1>3. ASSUME NEW c \in Caller, FileApplied(c) PROVE RestTyped'
  <2>1. PICK f \in rwCall[c].files : \E x \in {rwCopy[rwCall[c].key][f], rwBase[f]} :
           /\ rwBase' = [rwBase EXCEPT ![f] = x] /\ rwMade' = [rwMade EXCEPT ![f] = @ \cup rwBase'[f]]
           /\ UNCHANGED << Others, rwDirty >>
    BY <1>3 DEF FileApplied
  <2>2. f \in File /\ rwCopy[rwCall[c].key][f] \in Content /\ rwBase[f] \in Content /\ rwMade[f] \in Content
    BY <1>0 DEF RestTyped
  <2>3. rwBase' \in [File -> Content] /\ rwBase'[f] \in Content
    BY <1>0, <2>1, <2>2 DEF RestTyped
  <2>4. rwMade[f] \cup rwBase'[f] \in Content
    BY <2>2, <2>3 DEF Content
  <2>5. rwMade' \in [File -> Content]
    BY <1>0, <2>1, <2>4 DEF RestTyped
  <2> QED BY <1>0, <2>1, <2>3, <2>5 DEF RestTyped, Others
<1>4. ASSUME NEW c \in Caller, BranchMerged(c) PROVE RestTyped'
  <2>1. \A f \in File : rwBase[f] \cup rwCopy[rwCall[c].key][f] \in Content
    BY <1>0 DEF RestTyped, Content
  <2>2. \A f \in File : rwMade[f] \cup (rwBase[f] \cup rwCopy[rwCall[c].key][f]) \in Content
    BY <1>0, <2>1 DEF RestTyped, Content
  <2>3. rwBase' \in [File -> Content]
    BY <1>0, <1>4, <2>1 DEF RestTyped, BranchMerged
  <2>4. rwMade' \in [File -> Content]
    BY <1>0, <1>4, <2>1, <2>2 DEF RestTyped, BranchMerged
  <2>5. rwDirty' \in BOOLEAN /\ UNCHANGED Others
    BY <1>0, <1>4 DEF RestTyped, BranchMerged
  <2> QED BY <1>0, <2>3, <2>4, <2>5 DEF RestTyped, Others
<1>5. ASSUME NEW e \in Edit, UserEdits(e) PROVE RestTyped'
  <2>1. PICK f \in File : rwBase' = [rwBase EXCEPT ![f] = @ \cup {e}] /\ rwMade' = [rwMade EXCEPT ![f] = @ \cup {e}]
    BY <1>5 DEF UserEdits
  <2>2. rwBase[f] \cup {e} \in Content /\ rwMade[f] \cup {e} \in Content
    BY <1>0 DEF RestTyped, Content
  <2>3. rwBase' \in [File -> Content] /\ rwMade' \in [File -> Content]
    BY <1>0, <2>1, <2>2 DEF RestTyped
  <2> QED BY <1>0, <1>5, <2>3 DEF RestTyped, UserEdits, Others
<1>6. ASSUME UserCommits PROVE RestTyped'
  BY <1>0, <1>6 DEF UserCommits, RestTyped, Others
<1>7. ASSUME NEW k \in Key, AgentEdits(k) PROVE RestTyped'
  BY <1>0, <1>7 DEF AgentEdits, RestTyped, Base
<1>8. ASSUME \/ \E c \in Caller, k \in Key : EnsureBegins(c, k) \/ MergeBegins(c, k) \/ DiscardRemoves(c, k)
             \/ \E c \in Caller :
                   \/ EnsureReactivates(c) \/ WorktreeAdded(c) \/ FilesCopied(c) \/ FilesFingerprinted(c) \/ WorkspaceRecorded(c)
                   \/ CollectionLists(c) \/ CollectionRemoves(c) \/ MergeReturns(c) \/ DiscardReturns(c)
             \/ UNCHANGED workspaceVars
      PROVE  UNCHANGED << Base, Others >>
  BY <1>8 DEF EnsureBegins, MergeBegins, DiscardRemoves, EnsureReactivates, WorktreeAdded, FilesCopied, FilesFingerprinted,
              WorkspaceRecorded, CollectionLists, CollectionRemoves, MergeReturns, DiscardReturns, Base, Others, workspaceVars
<1> QED BY <1>1, <1>2, <1>3, <1>4, <1>5, <1>6, <1>7, <1>8 DEF WorkspaceNext

\* The workspaces start within their types.
LEMMA WTypedInit == WorkspaceInit => WTyped
<1> SUFFICES ASSUME WorkspaceInit PROVE WTyped
  OBVIOUS
<1>1. CallsTyped
  BY IdleCall DEF WorkspaceInit, CallsTyped
<1>2. rwRecent = << >> /\ << >> \in Seq(Key) /\ DOMAIN rwRecent = {}
  BY DEF WorkspaceInit
<1>3. RowsTyped
  <2>1. ToSet(rwRecent) = {} /\ IsInjective(rwRecent)
    BY <1>2 DEF ToSet, IsInjective
  <2>2. rwStatus = [k \in Key |-> "none"]
    BY DEF WorkspaceInit
  <2> QED BY <1>2, <2>1, <2>2 DEF RowsTyped
<1>4. Absent \in [File -> Content] /\ [f \in File |-> {Original}] \in [File -> Content]
  BY DEF Absent, Content
<1>5. DiskTyped
  BY <1>4 DEF WorkspaceInit, DiskTyped
<1>6. RestTyped
  <2>1. rwBase = [f \in File |-> {Original}] /\ rwMade = rwBase
    BY DEF WorkspaceInit
  <2>2. rwBase \in [File -> Content] /\ rwMade \in [File -> Content]
    BY <1>4, <2>1
  <2>3. rwBreaks \in 0 .. MaxBreaks
    BY WorkspaceConstants DEF WorkspaceInit
  <2> QED BY <2>2, <2>3 DEF WorkspaceInit, RestTyped
<1> QED BY <1>1, <1>3, <1>5, <1>6 DEF WTyped

\* Every step of the workspaces keeps the types.
LEMMA WTypedStep == WTyped /\ [WorkspaceNext]_workspaceVars => WTyped'
<1> SUFFICES ASSUME WTyped, [WorkspaceNext]_workspaceVars PROVE WTyped'
  OBVIOUS
<1> QED BY CallsStep, RowsStep, DiskStep, RestStep DEF WTyped

\* The inductive form is at least as strong as the type condition of the module.
LEMMA WTypedOK == WTyped => WorkspaceTypeOK
BY DEF WTyped, CallsTyped, IsCall, RowsTyped, DiskTyped, RestTyped, WorkspaceTypeOK

-----------------------------------------------------------------------------
(* Run workspaces: nothing that reached the base is undone.                  *)

\* Nobody writes a base file between its copy and its fingerprint, nobody
\* removes or makes again a workspace that is being fingerprinted or merged.
Undisturbed ==
  \A c \in Caller :
    /\ At(c, "fingerprint") => UNCHANGED rwBase
    /\ rwCall[c].at \in {"fingerprint", "apply"} =>
         \A f \in File : rwCopy[rwCall[c].key][f] \subseteq rwCopy'[rwCall[c].key][f]

ManifestHeld ==
  /\ \A k \in Key : rwManifest[k] # NoManifest =>
       rwKind = "copy" /\ \A f \in File : rwManifest[k][f] \subseteq rwCopy[k][f]

CallHeld(c) ==
  /\ rwCall[c].at = "fingerprint" =>
       rwKind = "copy" /\ \A f \in File : rwBase[f] \subseteq rwCopy[rwCall[c].key][f]
  /\ rwCall[c].at = "apply" => \A f \in File : rwCall[c].snap[f] \subseteq rwCopy[rwCall[c].key][f]

EditsHeld == EditsKept /\ ManifestHeld /\ \A c \in Caller : CallHeld(c)

\* No step of a merge, a creation or a user takes an edit out of the base, as long as
\* manifests and snapshots hold nothing their copies lack.
LEMMA EditsKeptStep ==
  ASSUME WTyped, EditsHeld, WorkspaceNext
  PROVE  EditsKept'
<1>0. /\ rwBase \in [File -> Content] /\ rwMade = rwBase
      /\ \A c \in Caller : rwCall[c].files \subseteq File /\ CallHeld(c)
  BY DEF WTyped, RestTyped, CallsTyped, IsCall, EditsHeld, EditsKept
<1>1. ASSUME UNCHANGED Base PROVE EditsKept'
  BY <1>0, <1>1 DEF Base, EditsKept
<1>2. ASSUME NEW c \in Caller, FileApplied(c) PROVE EditsKept'
  <2>1. PICK k : k = rwCall[c].key
    OBVIOUS
  <2>2. PICK f \in rwCall[c].files :
          /\ At(c, "apply")
          /\ rwBase' = [rwBase EXCEPT ![f] = IF /\ rwCopy[k][f] # rwCall[c].snap[f]
                                                /\ ~(rwCopy[k][f] # rwCall[c].snap[f] /\ Conflicts(k, f, rwCall[c].snap))
                                             THEN rwCopy[k][f] ELSE @]
          /\ rwMade' = [rwMade EXCEPT ![f] = @ \cup rwBase'[f]]
    BY <1>2, <2>1 DEF FileApplied
  <2>3. f \in File /\ rwCall[c].snap[f] \subseteq rwCopy[k][f]
    BY <1>0, <2>1, <2>2 DEF CallHeld, At
  <2>4. PICK x : x = rwBase'[f]
    OBVIOUS
  <2>5. x = rwBase[f] \/ (x = rwCopy[k][f] /\ (rwBase[f] = rwCall[c].snap[f] \/ rwBase[f] = rwCopy[k][f]))
    BY <1>0, <2>2, <2>3, <2>4 DEF Conflicts
  <2>6. rwBase[f] \cup x = x
    BY <2>3, <2>5
  <2>7. rwBase' = [rwBase EXCEPT ![f] = x]
    BY <1>0, <2>2, <2>3, <2>4
  <2>8. rwMade' = [rwBase EXCEPT ![f] = x]
    <3>1. rwMade' = [rwBase EXCEPT ![f] = rwBase[f] \cup x]
      BY <1>0, <2>2, <2>4
    <3> QED BY <2>6, <3>1
  <2> QED BY <2>7, <2>8 DEF EditsKept
<1>3. ASSUME NEW c \in Caller, BranchMerged(c) PROVE EditsKept'
  <2>1. CASE UNCHANGED << rwBase, rwMade >>
    BY <1>0, <2>1 DEF EditsKept
  <2>2. CASE /\ rwBase' = [f \in File |-> rwBase[f] \cup rwCopy[rwCall[c].key][f]]
             /\ rwMade' = [f \in File |-> rwMade[f] \cup rwBase'[f]]
    <3>1. \A f \in File : rwMade[f] \cup rwBase'[f] = rwBase[f] \cup rwCopy[rwCall[c].key][f]
      BY <1>0, <2>2
    <3> QED BY <2>2, <3>1 DEF EditsKept
  <2> QED BY <1>3, <2>1, <2>2 DEF BranchMerged
<1>4. ASSUME NEW e \in Edit, UserEdits(e) PROVE EditsKept'
  BY <1>0, <1>4 DEF UserEdits, EditsKept
<1>5. ASSUME UserCommits PROVE EditsKept'
  BY <1>0, <1>5 DEF UserCommits, EditsKept
<1>6. ASSUME \/ \E c \in Caller, k \in Key : EnsureBegins(c, k) \/ MergeBegins(c, k) \/ DiscardRemoves(c, k)
             \/ \E c \in Caller :
                   \/ EnsureReactivates(c) \/ WorktreeRefused(c) \/ WorktreeAdded(c) \/ FilesCopied(c)
                   \/ FilesFingerprinted(c) \/ CreationBreaks(c) \/ WorkspaceRecorded(c) \/ CollectionLists(c)
                   \/ CollectionRemoves(c) \/ EnsureReturns(c) \/ MergeReturns(c) \/ DiscardReturns(c)
             \/ \E k \in Key : AgentEdits(k)
      PROVE  UNCHANGED Base
  BY <1>6 DEF EnsureBegins, MergeBegins, DiscardRemoves, EnsureReactivates, WorktreeRefused, WorktreeAdded, FilesCopied,
              FilesFingerprinted, CreationBreaks, WorkspaceRecorded, CollectionLists, CollectionRemoves, EnsureReturns,
              MergeReturns, DiscardReturns, AgentEdits, Refuse, Base
<1> QED BY <1>1, <1>2, <1>3, <1>4, <1>5, <1>6 DEF WorkspaceNext

\* What the base directory allows does not change.
LEMMA KindKept == WorkspaceNext => UNCHANGED rwKind
<1> USE DEF Others
<1>1. \A c \in Caller, k \in Key : EnsureBegins(c, k) \/ MergeBegins(c, k) \/ DiscardRemoves(c, k) => UNCHANGED rwKind
  BY DEF EnsureBegins, MergeBegins, DiscardRemoves
<1>2. \A c \in Caller : EnsureReactivates(c) \/ WorktreeRefused(c) \/ WorktreeAdded(c) \/ FilesCopied(c)
                        \/ FilesFingerprinted(c) \/ CreationBreaks(c) \/ WorkspaceRecorded(c) => UNCHANGED rwKind
  BY DEF EnsureReactivates, WorktreeRefused, WorktreeAdded, FilesCopied, FilesFingerprinted, CreationBreaks,
         WorkspaceRecorded, Refuse
<1>3. \A c \in Caller : CollectionLists(c) \/ CollectionRemoves(c) \/ EnsureReturns(c) \/ FileApplied(c) \/ BranchMerged(c)
                        \/ MergeReturns(c) \/ DiscardReturns(c) => UNCHANGED rwKind
  BY DEF CollectionLists, CollectionRemoves, EnsureReturns, FileApplied, BranchMerged, MergeReturns, DiscardReturns
<1>4. (\E k \in Key : AgentEdits(k)) \/ (\E e \in Edit : UserEdits(e)) \/ UserCommits => UNCHANGED rwKind
  BY DEF AgentEdits, UserEdits, UserCommits
<1> QED BY <1>1, <1>2, <1>3, <1>4 DEF WorkspaceNext

\* A manifest holds nothing its copy lacks (createCopyWorkspace takes it after the copy).
LEMMA ManifestHeldStep ==
  ASSUME WTyped, EditsHeld, WorkspaceNext
  PROVE  ManifestHeld'
<1>0. /\ DiskTyped /\ ManifestHeld /\ rwKind' = rwKind /\ rwBase \in [File -> Content]
      /\ \A c \in Caller : rwCall[c].key \in Key /\ CallHeld(c)
  <2>1. rwKind' = rwKind
    BY KindKept
  <2> QED BY <2>1 DEF WTyped, CallsTyped, IsCall, EditsHeld, RestTyped
<1>1. ASSUME UNCHANGED Disk PROVE ManifestHeld'
  BY <1>0, <1>1 DEF Disk, ManifestHeld
<1>2. ASSUME NEW ks, RemoveRunRoots(ks) PROVE ManifestHeld'
  <2>1. \A k \in Key : (rwManifest'[k] = rwManifest[k] /\ rwCopy'[k] = rwCopy[k]) \/ rwManifest'[k] = NoManifest
    BY <1>0, <1>2, Removed
  <2> QED BY <1>0, <2>1 DEF ManifestHeld
<1>3. ASSUME NEW c \in Caller, WorktreeAdded(c) PROVE ManifestHeld'
  BY <1>0, <1>3 DEF WorktreeAdded, ManifestHeld
<1>4. ASSUME NEW c \in Caller, FilesCopied(c) PROVE ManifestHeld'
  BY <1>0, <1>4 DEF FilesCopied, ManifestHeld, DiskTyped
<1>5. ASSUME NEW c \in Caller, FilesFingerprinted(c) PROVE ManifestHeld'
  BY <1>0, <1>5 DEF FilesFingerprinted, ManifestHeld, DiskTyped, CallHeld, At
<1>6. ASSUME NEW k \in Key, AgentEdits(k) PROVE ManifestHeld'
  <2>1. \A h \in Key : \A f \in File : rwCopy[h][f] \subseteq rwCopy'[h][f]
    BY <1>0, <1>6 DEF AgentEdits, DiskTyped
  <2> QED BY <1>0, <1>6, <2>1 DEF AgentEdits, ManifestHeld
<1>7. ASSUME NEW c \in Caller, NEW k \in Key, EnsureBegins(c, k) \/ MergeBegins(c, k) \/ DiscardRemoves(c, k)
      PROVE  UNCHANGED Disk \/ \E ks : RemoveRunRoots(ks)
  BY <1>7 DEF EnsureBegins, MergeBegins, DiscardRemoves
<1>8. ASSUME NEW c \in Caller,
             \/ EnsureReactivates(c) \/ WorktreeRefused(c) \/ CreationBreaks(c) \/ WorkspaceRecorded(c)
             \/ CollectionLists(c) \/ CollectionRemoves(c) \/ EnsureReturns(c)
             \/ FileApplied(c) \/ BranchMerged(c) \/ MergeReturns(c) \/ DiscardReturns(c)
      PROVE  UNCHANGED Disk \/ \E ks : RemoveRunRoots(ks)
  BY <1>8 DEF EnsureReactivates, WorktreeRefused, CreationBreaks, WorkspaceRecorded, CollectionLists, CollectionRemoves,
              EnsureReturns, FileApplied, BranchMerged, MergeReturns, DiscardReturns
<1>9. ASSUME (\E e \in Edit : UserEdits(e)) \/ UserCommits PROVE UNCHANGED Disk
  BY <1>9 DEF UserEdits, UserCommits, Disk
<1> QED BY <1>1, <1>2, <1>3, <1>4, <1>5, <1>6, <1>7, <1>8, <1>9 DEF WorkspaceNext

\* Where a call that fingerprints or merges may come from.
LEMMA CallComes ==
  ASSUME WTyped, WorkspaceNext, NEW d \in Caller
  PROVE  /\ rwCall'[d].at = "fingerprint" =>
              rwCall'[d] = rwCall[d] \/ (FilesCopied(d) /\ rwCall'[d].key = rwCall[d].key)
         /\ rwCall'[d].at = "apply" =>
              \/ rwCall[d].at = "apply" /\ rwCall'[d].key = rwCall[d].key /\ rwCall'[d].snap = rwCall[d].snap
              \/ /\ UNCHANGED Disk /\ rwCall'[d].key \in Key
                 /\ rwManifest[rwCall'[d].key] # NoManifest /\ rwCall'[d].snap = rwManifest[rwCall'[d].key]
<1> DEFINE Comes == /\ rwCall'[d].at = "fingerprint" =>
                         rwCall'[d] = rwCall[d] \/ (FilesCopied(d) /\ rwCall'[d].key = rwCall[d].key)
                    /\ rwCall'[d].at = "apply" =>
                         \/ rwCall[d].at = "apply" /\ rwCall'[d].key = rwCall[d].key /\ rwCall'[d].snap = rwCall[d].snap
                         \/ /\ UNCHANGED Disk /\ rwCall'[d].key \in Key
                            /\ rwManifest[rwCall'[d].key] # NoManifest /\ rwCall'[d].snap = rwManifest[rwCall'[d].key]
<1> SUFFICES Comes
  OBVIOUS
<1>0. CallsTyped /\ (\A c \in Caller : IsCall(rwCall[c])) /\ IsCall(Idle) /\ Idle.at = "idle"
  BY IdleCall DEF WTyped, CallsTyped, Idle
<1>1. ASSUME rwCall'[d] = rwCall[d] PROVE Comes
  BY <1>1
<1>2. ASSUME NEW c \in Caller, NEW x, rwCall' = [rwCall EXCEPT ![c] = x] PROVE rwCall'[c] = x /\ (c # d => rwCall'[d] = rwCall[d])
  BY <1>0, <1>2 DEF CallsTyped
<1>3. ASSUME NEW c \in Caller, NEW x, rwCall' = [rwCall EXCEPT ![c] = x], x.at \notin {"fingerprint", "apply"} PROVE Comes
  <2>1. CASE c = d
    BY <1>2, <1>3, <2>1
  <2>2. CASE c # d
    BY <1>1, <1>2, <1>3, <2>2
  <2> QED BY <2>1, <2>2
<1>4. ASSUME NEW c \in Caller, NEW place, Goto(c, place), place \notin {"fingerprint", "apply"} PROVE Comes
  <2>1. rwCall' = [rwCall EXCEPT ![c] = [rwCall[c] EXCEPT !.at = place]]
    BY <1>4 DEF Goto
  <2>2. [rwCall[c] EXCEPT !.at = place].at = place
    BY <1>0 DEF IsCall, CallField
  <2> QED BY <1>3, <1>4, <2>1, <2>2
<1>5. ASSUME NEW c \in Caller, Return(c) PROVE Comes
  BY <1>0, <1>3, <1>5 DEF Return
<1>6. ASSUME NEW c \in Caller, NEW k, NEW place, Begin(c, k, place), place \notin {"fingerprint", "apply"} PROVE Comes
  <2>1. [Idle EXCEPT !.key = k, !.at = place].at = place
    BY DEF Idle
  <2> QED BY <1>3, <1>6, <2>1 DEF Begin
<1>7. ASSUME NEW c \in Caller, NEW k \in Key, EnsureBegins(c, k) \/ DiscardRemoves(c, k) PROVE Comes
  <2>1. \E place \in {"create", "ensured", "reactivate", "discard"} : Begin(c, k, place)
    BY <1>7 DEF EnsureBegins, DiscardRemoves
  <2> QED BY <1>6, <2>1
<1>8. ASSUME NEW c \in Caller, NEW k \in Key, MergeBegins(c, k) PROVE Comes
  <2>1. PICK x : x = [Idle EXCEPT !.key = k, !.snap = rwManifest[k],
                         !.at = IF rwKind = "copy" THEN "apply" ELSE "merge", !.files = File]
    OBVIOUS
  <2>2. rwCall' = [rwCall EXCEPT ![c] = x] /\ UNCHANGED Disk
    BY <1>8, <2>1 DEF MergeBegins
  <2>3. x.at \in {"apply", "merge"} /\ (x.at = "apply" => x.key = k /\ x.snap = rwManifest[k] /\ rwManifest[k] # NoManifest)
    BY <1>8, <2>1 DEF MergeBegins, Idle
  <2>4. CASE x.at = "merge"
    BY <1>3, <2>2, <2>4
  <2>5. CASE x.at = "apply" /\ c = d
    BY <1>2, <2>2, <2>3, <2>5
  <2>6. CASE c # d
    BY <1>1, <1>2, <2>2, <2>6
  <2> QED BY <2>3, <2>4, <2>5, <2>6
<1>9. ASSUME NEW c \in Caller, FilesCopied(c) PROVE Comes
  <2>1. rwCall' = [rwCall EXCEPT ![c] = [rwCall[c] EXCEPT !.at = "fingerprint"]]
    BY <1>9 DEF FilesCopied, Goto
  <2>2. [rwCall[c] EXCEPT !.at = "fingerprint"].key = rwCall[c].key /\ [rwCall[c] EXCEPT !.at = "fingerprint"].at = "fingerprint"
    BY <1>0 DEF IsCall, CallField
  <2>3. CASE c = d
    BY <1>2, <1>9, <2>1, <2>2, <2>3
  <2>4. CASE c # d
    BY <1>1, <1>2, <2>1, <2>4
  <2> QED BY <2>3, <2>4
<1>10. ASSUME NEW c \in Caller, FileApplied(c) PROVE Comes
  <2>1. PICK files, clean : At(c, "apply") /\ rwCall' = [rwCall EXCEPT ![c].files = files, ![c].clean = clean]
    <3>1. ASSUME NEW f, NEW conflict,
                 rwCall' = [rwCall EXCEPT ![c].files = @ \ {f}, ![c].clean = @ /\ ~conflict]
          PROVE  \E files, clean : rwCall' = [rwCall EXCEPT ![c].files = files, ![c].clean = clean]
      BY <3>1
    <3> QED BY <1>10, <3>1 DEF FileApplied
  <2>2. PICK x : x = [rwCall[c] EXCEPT !.files = files, !.clean = clean]
    OBVIOUS
  <2>3. rwCall' = [rwCall EXCEPT ![c] = x] /\ x.at = "apply" /\ x.key = rwCall[c].key /\ x.snap = rwCall[c].snap
    BY <1>0, <2>1, <2>2 DEF IsCall, CallField, CallsTyped, At
  <2>4. CASE c = d
    BY <1>2, <2>1, <2>3, <2>4 DEF At
  <2>5. CASE c # d
    BY <1>1, <1>2, <2>3, <2>5
  <2> QED BY <2>4, <2>5
<1>11. ASSUME NEW c \in Caller, CollectionLists(c) PROVE Comes
  <2>1. PICK old : rwCall' = [rwCall EXCEPT ![c].at = "collecting", ![c].old = old]
    BY <1>11 DEF CollectionLists
  <2>2. PICK x : x = [rwCall[c] EXCEPT !.at = "collecting", !.old = old]
    OBVIOUS
  <2>3. rwCall' = [rwCall EXCEPT ![c] = x] /\ x.at = "collecting"
    BY <1>0, <2>1, <2>2 DEF IsCall, CallField, CallsTyped
  <2> QED BY <1>3, <2>3
<1>12. ASSUME NEW c \in Caller, CollectionRemoves(c) PROVE Comes
  <2>1. PICK x : x = [rwCall[c] EXCEPT !.old = Tail(@)]
    OBVIOUS
  <2>2. rwCall' = [rwCall EXCEPT ![c] = x] /\ x.at = "collecting"
    BY <1>0, <1>12, <2>1 DEF CollectionRemoves, IsCall, CallField, At
  <2> QED BY <1>3, <2>2
<1>13. ASSUME NEW c \in Caller, BranchMerged(c) PROVE Comes
  <2>1. CASE Return(c)
    BY <1>5, <2>1
  <2>2. CASE rwCall' = [rwCall EXCEPT ![c].files = {}]
    <3>1. PICK x : x = [rwCall[c] EXCEPT !.files = {}]
      OBVIOUS
    <3>2. rwCall' = [rwCall EXCEPT ![c] = x] /\ x.at = "merge"
      BY <1>0, <1>13, <2>2, <3>1 DEF BranchMerged, IsCall, CallField, At
    <3> QED BY <1>3, <3>2
  <2> QED BY <1>13, <2>1, <2>2 DEF BranchMerged
<1>14. ASSUME NEW c \in Caller,
              \/ EnsureReactivates(c) \/ WorktreeRefused(c) \/ WorktreeAdded(c)
              \/ FilesFingerprinted(c) \/ CreationBreaks(c) \/ WorkspaceRecorded(c)
              \/ EnsureReturns(c) \/ MergeReturns(c) \/ DiscardReturns(c)
       PROVE  Comes
  <2>1. (\E place \in {"ensured", "record", "collect"} : Goto(c, place)) \/ Return(c)
    BY <1>14 DEF EnsureReactivates, WorktreeRefused, WorktreeAdded, FilesFingerprinted, CreationBreaks,
                 WorkspaceRecorded, EnsureReturns, MergeReturns, DiscardReturns, Refuse
  <2> QED BY <1>4, <1>5, <2>1
<1>15. ASSUME (\E k \in Key : AgentEdits(k)) \/ (\E e \in Edit : UserEdits(e)) \/ UserCommits PROVE Comes
  BY <1>1, <1>15 DEF AgentEdits, UserEdits, UserCommits
<1> HIDE DEF Comes
<1> QED BY <1>7, <1>8, <1>9, <1>10, <1>11, <1>12, <1>13, <1>14, <1>15 DEF WorkspaceNext

\* What a call compares with is contained in the copy, if nobody disturbs it.
LEMMA CallHeldStep ==
  ASSUME WTyped, EditsHeld, WorkspaceNext, Undisturbed, NEW d \in Caller
  PROVE  CallHeld(d)'
<1>0. /\ CallHeld(d) /\ ManifestHeld /\ rwCall[d].key \in Key /\ DiskTyped
  BY DEF WTyped, CallsTyped, IsCall, EditsHeld
<1>1. rwKind' = rwKind
  BY KindKept
<1>2. ASSUME rwCall'[d].at = "fingerprint"
      PROVE  rwKind' = "copy" /\ \A f \in File : rwBase'[f] \subseteq rwCopy'[rwCall'[d].key][f]
  <2>1. CASE rwCall'[d] = rwCall[d]
    BY <1>0, <1>1, <1>2, <2>1 DEF CallHeld, Undisturbed, At
  <2>2. CASE FilesCopied(d) /\ rwCall'[d].key = rwCall[d].key
    <3>1. rwCopy' = [rwCopy EXCEPT ![rwCall[d].key] = rwBase] /\ rwBase' = rwBase /\ rwKind = "copy"
      BY <2>2 DEF FilesCopied, Base
    <3> QED BY <1>0, <1>1, <2>2, <3>1 DEF DiskTyped
  <2> QED BY <1>2, <2>1, <2>2, CallComes
<1>3. ASSUME rwCall'[d].at = "apply"
      PROVE  \A f \in File : rwCall'[d].snap[f] \subseteq rwCopy'[rwCall'[d].key][f]
  <2>1. CASE rwCall[d].at = "apply" /\ rwCall'[d].key = rwCall[d].key /\ rwCall'[d].snap = rwCall[d].snap
    BY <1>0, <2>1 DEF CallHeld, Undisturbed
  <2>2. CASE /\ UNCHANGED Disk /\ rwCall'[d].key \in Key
             /\ rwManifest[rwCall'[d].key] # NoManifest /\ rwCall'[d].snap = rwManifest[rwCall'[d].key]
    BY <1>0, <2>2 DEF ManifestHeld, Disk
  <2> QED BY <1>3, <2>1, <2>2, CallComes
<1> QED BY <1>2, <1>3 DEF CallHeld

\* The inductive step of EditsKept.
LEMMA EditsHeldStep == WTyped /\ EditsHeld /\ [WorkspaceNext]_workspaceVars /\ [Undisturbed]_workspaceVars => EditsHeld'
<1> SUFFICES ASSUME WTyped, EditsHeld, [WorkspaceNext]_workspaceVars, [Undisturbed]_workspaceVars PROVE EditsHeld'
  OBVIOUS
<1>1. CASE UNCHANGED workspaceVars
  <2>1. EditsKept' /\ ManifestHeld'
    BY <1>1 DEF workspaceVars, EditsHeld, EditsKept, ManifestHeld
  <2>2. \A c \in Caller : CallHeld(c)'
    BY <1>1 DEF workspaceVars, EditsHeld, CallHeld
  <2> QED BY <2>1, <2>2 DEF EditsHeld
<1>2. CASE WorkspaceNext /\ Undisturbed
  <2>1. EditsKept' /\ ManifestHeld'
    BY <1>2, EditsKeptStep, ManifestHeldStep
  <2>2. \A c \in Caller : CallHeld(c)'
    BY <1>2, CallHeldStep
  <2> QED BY <2>1, <2>2 DEF EditsHeld
<1> QED BY <1>1, <1>2

\* Before the first creation there is no manifest to compare with.
LEMMA EditsHeldInit == WorkspaceInit => EditsHeld
<1> SUFFICES ASSUME WorkspaceInit PROVE EditsHeld
  OBVIOUS
<1>1. \A c \in Caller : rwCall[c].at = "idle"
  BY DEF WorkspaceInit, Idle
<1> QED BY <1>1 DEF WorkspaceInit, EditsHeld, EditsKept, ManifestHeld, CallHeld

\* What the user wrote and what a merge brought stays in the base, for any
\* number of sessions, files and calls in flight, as long as no call is
\* disturbed: conflict detection of applyBackCopyWorkspace against the manifest.
THEOREM UndisturbedEditsKept == WorkspaceSpec /\ [][Undisturbed]_workspaceVars => []EditsKept
<1>1. WorkspaceInit => WTyped /\ EditsHeld
  BY WTypedInit, EditsHeldInit
<1>2. WTyped /\ EditsHeld /\ [WorkspaceNext]_workspaceVars /\ [Undisturbed]_workspaceVars => (WTyped /\ EditsHeld)'
  BY WTypedStep, EditsHeldStep
<1>3. EditsHeld => EditsKept
  BY DEF EditsHeld
<1> QED BY <1>1, <1>2, <1>3, PTL DEF WorkspaceSpec

\* One caller at a time, with no edit during a copy, is never disturbed.
LEMMA AloneUndisturbed ==
  ASSUME ~EditsDuringCopy, \A c, d \in Caller : c = d, WTyped, WorkspaceNext
  PROVE  Undisturbed
<1> SUFFICES ASSUME NEW c \in Caller, rwCall[c].at \in {"fingerprint", "apply"}
             PROVE  /\ At(c, "fingerprint") => UNCHANGED rwBase
                    /\ \A f \in File : rwCopy[rwCall[c].key][f] \subseteq rwCopy'[rwCall[c].key][f]
  BY DEF Undisturbed, At
<1>0. rwCall[c].key \in Key /\ rwCopy \in [Key -> [File -> Content]]
  BY DEF WTyped, DiskTyped, CallsTyped, IsCall
<1>1. \A d \in Caller : rwCall[d].at \in {"fingerprint", "apply"} /\ (At(c, "fingerprint") => At(d, "fingerprint"))
  OBVIOUS
<1>2. ASSUME NEW d \in Caller, FileApplied(d) \/ FilesFingerprinted(d) PROVE UNCHANGED rwCopy /\ (At(d, "fingerprint") => UNCHANGED rwBase)
  BY <1>2 DEF FileApplied, FilesFingerprinted, Disk, Base, At
<1>3. ASSUME NEW d \in Caller, MergeReturns(d) PROVE UNCHANGED << rwCopy, rwBase >>
  BY <1>3 DEF MergeReturns, Disk, Base
<1>4. ASSUME NEW k \in Key, AgentEdits(k)
      PROVE  UNCHANGED rwBase /\ \A f \in File : rwCopy[rwCall[c].key][f] \subseteq rwCopy'[rwCall[c].key][f]
  BY <1>0, <1>4 DEF AgentEdits, Base
<1>5. ASSUME NEW e \in Edit, UserEdits(e) PROVE ~At(c, "fingerprint") /\ UNCHANGED rwCopy
  BY <1>5 DEF UserEdits, Disk
<1>6. ASSUME UserCommits PROVE UNCHANGED << rwCopy, rwBase >>
  BY <1>6 DEF UserCommits, Disk
<1>7. ~ \E d \in Caller, k \in Key : EnsureBegins(d, k) \/ MergeBegins(d, k) \/ DiscardRemoves(d, k)
  BY <1>1 DEF EnsureBegins, MergeBegins, DiscardRemoves, Begin, At
<1>8. ~ \E d \in Caller : EnsureReactivates(d) \/ WorktreeRefused(d) \/ WorktreeAdded(d) \/ FilesCopied(d) \/ CreationBreaks(d)
  BY <1>1 DEF EnsureReactivates, WorktreeRefused, WorktreeAdded, FilesCopied, CreationBreaks, At
<1>9. ~ \E d \in Caller : \/ WorkspaceRecorded(d) \/ CollectionLists(d) \/ CollectionRemoves(d) \/ EnsureReturns(d)
                          \/ BranchMerged(d) \/ DiscardReturns(d)
  BY <1>1 DEF WorkspaceRecorded, CollectionLists, CollectionRemoves, EnsureReturns, BranchMerged, DiscardReturns, At
<1> QED BY <1>1, <1>2, <1>3, <1>4, <1>5, <1>6, <1>7, <1>8, <1>9 DEF WorkspaceNext

\* The run's case: calls that follow each other, no edit during a copy.
THEOREM WorkspacesKeepEdits ==
  ASSUME ~EditsDuringCopy, \A c, d \in Caller : c = d
  PROVE  Spec => []EditsKept
<1>1. Init => WTyped /\ EditsHeld
  BY WTypedInit, EditsHeldInit DEF Init
<1>2. WTyped /\ EditsHeld /\ [Next]_vars => (WTyped /\ EditsHeld)'
  <2> SUFFICES ASSUME WTyped, EditsHeld, [Next]_vars PROVE (WTyped /\ EditsHeld)'
    OBVIOUS
  <2>1. [WorkspaceNext]_workspaceVars
    BY DEF Next, vars
  <2>2. [Undisturbed]_workspaceVars
    BY <2>1, AloneUndisturbed
  <2> QED BY <2>1, <2>2, WTypedStep, EditsHeldStep
<1>3. EditsHeld => EditsKept
  BY DEF EditsHeld
<1> QED BY <1>1, <1>2, <1>3, PTL DEF Spec

-----------------------------------------------------------------------------
(* Skills: types.                                                            *)

\* A set of natural numbers that is not empty has a least element.
LEMMA LeastNumber ==
  ASSUME NEW S \in SUBSET Nat, S # {}
  PROVE  \E m \in S : \A n \in S : m <= n
<1>1. PICK m \in S : \A n \in S : ~(<<n, m>> \in OpToRel(<, Nat))
  BY NatLessThanWellFounded, WFMin
<1>2. \A n \in S : ~(n < m)
  BY <1>1 DEF OpToRel
<1> QED BY <1>2

Kinds == {"none", "plain", "clone", "local", "git"} \cup Tool
Places == {"rest", "rename", "stage", "swap", "badge", "updated"}
WorkField == {"at", "id", "copy", "then", "old"}

IsWork(x) ==
  /\ x = [field \in WorkField |-> x[field]]
  /\ x.id \in 0 .. (MaxDay + 1) * PerDay /\ x.copy \in Skill
  /\ x.at \in Places
  /\ x.at = "rename" => x.id \in VersionId /\ x.then \in Places \ {"rename"} /\ (x.then = "stage" => x.old \in VersionId)
  /\ x.at = "stage" => x.old \in VersionId

WorkTyped == skWork = [w \in Worker |-> skWork[w]] /\ \A w \in Worker : IsWork(skWork[w])

StoreTyped ==
  /\ skCanon \in Skill /\ skUpstream \in 0 .. MaxText
  /\ skVersions \in [VersionId -> Skill] /\ skAcked \in [VersionId -> Skill]
  /\ skBadge \in BOOLEAN /\ skTexts \in 0 .. MaxText /\ skDay \in 1 .. MaxDay
  /\ skAsked \in 0 .. MaxRequests

RootsTyped ==
  /\ skTool \in [Tool -> ToolEntry]
  /\ skBackups \subseteq 1 .. MaxText /\ skOwn \subseteq 1 .. MaxText

SkillsTyped == WorkTyped /\ StoreTyped /\ RootsTyped

\* The constants, and the value that stands for no skill, are within their types.
LEMMA NoSkillTyped == NoSkill \in Skill /\ 0 \in 0 .. MaxText /\ MaxText \in Nat \ {0} /\ MaxDay \in Nat \ {0} /\ PerDay \in Nat \ {0}
BY SkillsConstants DEF NoSkill, Skill

\* The fields of a skill.
LEMMA SkillFields ==
  ASSUME NEW s \in Skill
  PROVE  s.text \in 0 .. MaxText /\ s.kind \in Kinds /\ s.rev \in 0 .. MaxText /\ s.day \in 0 .. MaxDay
BY DEF Skill, Kinds

\* A record of well-typed fields is a skill.
LEMMA SkillMade ==
  ASSUME NEW text \in 0 .. MaxText, NEW kind \in Kinds, NEW rev \in 0 .. MaxText, NEW day \in 0 .. MaxDay
  PROVE  [text |-> text, kind |-> kind, rev |-> rev, day |-> day] \in Skill
BY DEF Skill, Kinds

\* The number of a new snapshot: nextAutoIDForDay returns one that is free.
LEMMA NextIdFree ==
  ASSUME NEW day \in 0 .. MaxDay, ~DayIsFull(day)
  PROVE  NextId(day) \in VersionId /\ skVersions[NextId(day)] = NoSkill
<1> DEFINE S == {i \in VersionId : i > day * PerDay /\ skVersions[i] = NoSkill}
<1>0. MaxDay \in Nat /\ PerDay \in Nat \ {0} /\ day * PerDay \in Nat /\ (MaxDay + 1) * PerDay \in Nat
  BY NoSkillTyped
<1>1. day * PerDay + PerDay <= (MaxDay + 1) * PerDay
  <2>1. \A a, b, n \in Nat : a <= b => a * n + n <= (b + 1) * n
    OBVIOUS
  <2> QED BY <1>0, <2>1
<1>2. PICK i \in day * PerDay + 1 .. day * PerDay + PerDay - 1 : skVersions[i] = NoSkill
  BY DEF DayIsFull
<1>3. i \in S
  BY <1>0, <1>1, <1>2 DEF VersionId
<1>4. S \in SUBSET Nat /\ S # {}
  BY <1>0, <1>3 DEF VersionId
<1> HIDE DEF S
<1>5. PICK m \in S : \A n \in S : m <= n
  BY <1>4, LeastNumber
<1>6. Min(S) \in S
  BY <1>5 DEF Min
<1> QED BY <1>6 DEF NextId, S

\* The day a snapshot number belongs to is one that has been.
LEMMA DayOfId ==
  ASSUME NEW i \in VersionId
  PROVE  (i - 1) \div PerDay \in 0 .. MaxDay
<1>0. MaxDay \in Nat /\ PerDay \in Nat \ {0} /\ (MaxDay + 1) * PerDay \in Nat
  BY NoSkillTyped
<1>1. i - 1 \in Nat /\ i - 1 < (MaxDay + 1) * PerDay
  BY <1>0 DEF VersionId
<1>2. PICK a \in Nat : a = i - 1
  BY <1>1
<1>3. PICK q \in Nat : q = a \div PerDay /\ PerDay * q <= a
  BY <1>0, <1>2
<1>4. q <= MaxDay
  <2> SUFFICES ASSUME q >= MaxDay + 1 PROVE FALSE
    BY <1>0, <1>3
  <2>1. \A x, y, n \in Nat : x >= y => n * x >= y * n
    OBVIOUS
  <2>2. PerDay * q >= (MaxDay + 1) * PerDay
    BY <1>0, <1>3, <2>1
  <2> QED BY <1>0, <1>1, <1>2, <1>3, <2>2
<1> QED BY <1>0, <1>2, <1>3, <1>4

\* A worker that rests is well-formed.
LEMMA RestingWork == IsWork(Resting)
BY NoSkillTyped DEF Resting, IsWork, WorkField, Places

\* One worker moves to a well-formed state, the others stay as they are.
LEMMA WorkGo ==
  ASSUME WorkTyped, NEW w \in Worker, NEW x, IsWork(x), skWork' = [skWork EXCEPT ![w] = x]
  PROVE  WorkTyped'
<1>1. skWork' = [v \in Worker |-> IF v = w THEN x ELSE skWork[v]]
  BY DEF WorkTyped
<1>2. \A v \in Worker : IsWork(skWork'[v])
  BY <1>1 DEF WorkTyped
<1> QED BY <1>1, <1>2 DEF WorkTyped, IsWork

\* A worker that starts a snapshot (createAutoSnapshot) has a number that is free.
LEMMA SnapshotWork ==
  ASSUME SkillsTyped, NEW w \in Worker, NEW source \in Skill, NEW day \in 0 .. MaxDay,
         NEW next \in Places \ {"rename"}, NEW old, next = "stage" => old \in VersionId, Snapshot(w, source, day, next, old)
  PROVE  WorkTyped'
<1>1. NextId(day) \in VersionId
  BY NextIdFree DEF Snapshot
<1>2. PICK x : x = [at |-> "rename", id |-> NextId(day), copy |-> source, then |-> next, old |-> old]
  OBVIOUS
<1>3. IsWork(x)
  BY <1>1, <1>2 DEF IsWork, WorkField, Places, VersionId
<1> QED BY <1>2, <1>3, WorkGo DEF Snapshot, SkillsTyped

\* Every step of the skills leaves every worker well-formed.
LEMMA WorkStep == SkillsTyped /\ [SkillsNext]_skillVars => WorkTyped'
<1> SUFFICES ASSUME SkillsTyped, [SkillsNext]_skillVars PROVE WorkTyped'
  OBVIOUS
<1>0. /\ WorkTyped /\ (\A w \in Worker : IsWork(skWork[w])) /\ \A w \in Panel : w \in Worker
      /\ skCanon \in Skill /\ skDay \in 0 .. MaxDay /\ skUpstream \in 0 .. MaxText /\ skVersions \in [VersionId -> Skill]
  BY DEF SkillsTyped, WorkTyped, StoreTyped, Worker
<1>1. ASSUME UNCHANGED skWork PROVE WorkTyped'
  BY <1>0, <1>1 DEF WorkTyped, IsWork
<1>2. ASSUME NEW w \in Worker, Rest(w) PROVE WorkTyped'
  BY <1>0, <1>2, WorkGo, RestingWork DEF Rest
<1>3. ASSUME NEW w \in Worker, NEW place \in Places \ {"rename"}, GoTo(w, place),
             place = "stage" => skWork[w].old \in VersionId
      PROVE  WorkTyped'
  <2>1. PICK x : x = [skWork[w] EXCEPT !.at = place]
    OBVIOUS
  <2>2. skWork' = [skWork EXCEPT ![w] = x]
    BY <1>3, <2>1 DEF GoTo
  <2>3. IsWork(skWork[w])
    BY <1>0
  <2>4. IsWork(x)
    BY <1>3, <2>1, <2>3 DEF IsWork, WorkField
  <2> QED BY <1>0, <2>2, <2>4, WorkGo
<1>4. ASSUME NEW w \in Worker, CreateFinishes(w) PROVE WorkTyped'
  <2>1. CASE Rest(w)
    BY <1>2, <2>1
  <2>2. CASE GoTo(w, skWork[w].then)
    <3>1. skWork[w].then \in Places \ {"rename"} /\ (skWork[w].then = "stage" => skWork[w].old \in VersionId)
      BY <1>0, <1>4 DEF CreateFinishes, Doing, IsWork
    <3> QED BY <1>3, <2>2, <3>1
  <2> QED BY <1>4, <2>1, <2>2 DEF CreateFinishes
<1>5. ASSUME NEW w \in Worker, SnapshotFinishes(w) PROVE WorkTyped'
  <2>1. CASE Rest(w)
    BY <1>2, <2>1
  <2>2. CASE GoTo(w, "badge")
    BY <1>3, <2>2 DEF Places
  <2>3. CASE ~DayIsFull((skWork[w].id - 1) \div PerDay) /\ skWork' = [skWork EXCEPT ![w].id = NextId((skWork[w].id - 1) \div PerDay)]
    <3>1. PICK n : n = NextId((skWork[w].id - 1) \div PerDay)
      OBVIOUS
    <3>2. skWork[w].id \in VersionId
      BY <1>0, <1>5 DEF SnapshotFinishes, Doing, IsWork
    <3>3. n \in VersionId
      <4>1. (skWork[w].id - 1) \div PerDay \in 0 .. MaxDay
        BY <3>2, DayOfId
      <4> QED BY <2>3, <3>1, <4>1, NextIdFree
    <3>4. PICK x : x = [skWork[w] EXCEPT !.id = n]
      OBVIOUS
    <3>5. skWork' = [skWork EXCEPT ![w] = x]
      BY <2>3, <3>1, <3>4
    <3>6. IsWork(skWork[w]) /\ n \in 0 .. (MaxDay + 1) * PerDay
      <4>1. (MaxDay + 1) * PerDay \in Nat
        BY NoSkillTyped
      <4> QED BY <1>0, <3>3, <4>1 DEF VersionId
    <3>7. IsWork(x)
      BY <3>3, <3>4, <3>6 DEF IsWork, WorkField
    <3> QED BY <1>0, <3>5, <3>7, WorkGo
  <2> QED BY <1>5, <2>1, <2>2, <2>3 DEF SnapshotFinishes
<1>6. ASSUME NEW w \in Worker, RestoreStages(w) PROVE WorkTyped'
  <2>1. CASE Rest(w)
    BY <1>2, <2>1
  <2>2. CASE ~Rest(w)
    <3> DEFINE v == skVersions[skWork[w].old]
               m == IF Managed(skCanon) THEN skCanon ELSE v
               restored == IF ~Managed(m) THEN [text |-> v.text, kind |-> "plain", rev |-> 0, day |-> 0]
                           ELSE Manifested(v.text, m.kind, IF m.kind = "git" THEN m.rev ELSE v.text)
    <3>1. skWork' = [skWork EXCEPT ![w].at = "swap", ![w].copy = restored]
      BY <1>6, <2>2 DEF RestoreStages
    <3>2. v \in Skill /\ m \in Skill
      <4>1. skWork[w].old \in VersionId
        BY <1>0, <1>6 DEF RestoreStages, Doing, IsWork
      <4> QED BY <1>0, <4>1
    <3>3. restored \in Skill
      <4> HIDE DEF v, m
      <4>1. v.text \in 0 .. MaxText /\ m.kind \in Kinds /\ m.rev \in 0 .. MaxText /\ "plain" \in Kinds /\ 0 \in 0 .. MaxText /\ 0 \in 0 .. MaxDay
        BY <3>2, SkillFields, NoSkillTyped DEF Kinds
      <4>2. CASE ~Managed(m)
        BY <4>1, <4>2, SkillMade
      <4>3. CASE Managed(m)
        <5>1. restored = Manifested(v.text, m.kind, IF m.kind = "git" THEN m.rev ELSE v.text)
          BY <4>3
        <5> QED BY <1>0, <4>1, <5>1, SkillMade DEF Manifested
      <4> QED BY <4>2, <4>3
    <3> HIDE DEF restored
    <3>4. PICK x : x = [skWork[w] EXCEPT !.at = "swap", !.copy = restored]
      OBVIOUS
    <3>5. IsWork(skWork[w])
      BY <1>0
    <3>6. skWork' = [skWork EXCEPT ![w] = x]
      BY <1>0, <3>1, <3>4 DEF WorkTyped
    <3>7. IsWork(x)
      BY <3>3, <3>4, <3>5 DEF IsWork, WorkField, Places
    <3> QED BY <1>0, <3>6, <3>7, WorkGo
  <2> QED BY <2>1, <2>2
<1>7. ASSUME NEW w \in Panel, NEW i \in VersionId, RestoreBegins(w, i) PROVE WorkTyped'
  <2>1. CASE Snapshot(w, skCanon, skDay, "stage", i)
    BY <1>0, <2>1, SnapshotWork DEF Places
  <2>2. CASE skWork' = [skWork EXCEPT ![w].at = "stage", ![w].old = i]
    <3>1. PICK x : x = [skWork[w] EXCEPT !.at = "stage", !.old = i]
      OBVIOUS
    <3>2. IsWork(skWork[w])
      BY <1>0
    <3>3. IsWork(x)
      BY <3>1, <3>2 DEF IsWork, WorkField, Places
    <3>4. skWork' = [skWork EXCEPT ![w] = x]
      BY <1>0, <2>2, <3>1 DEF WorkTyped
    <3> QED BY <1>0, <3>3, <3>4, WorkGo
  <2> QED BY <1>7, <2>1, <2>2 DEF RestoreBegins
<1>8. ASSUME NEW w \in Worker, NEW day \in 0 .. MaxDay, NEW next \in {"rest", "badge"}, NEW old, Snapshot(w, skCanon, day, next, old)
      PROVE  WorkTyped'
  BY <1>0, <1>8, SnapshotWork DEF Places
<1>9. ASSUME NEW w \in Worker, CreateRequest(w) \/ Ensures(w) \/ UpdateSnapshots(w) PROVE WorkTyped'
  <2>1. Anchor \in 0 .. MaxDay
    BY <1>0, SkillFields DEF Anchor
  <2>2. \E day \in 0 .. MaxDay, next \in {"rest", "badge"}, old \in {0, 1} : Snapshot(w, skCanon, day, next, old)
    BY <1>0, <1>9, <2>1 DEF CreateRequest, Ensures, UpdateSnapshots
  <2> QED BY <1>8, <2>2
<1>10. ASSUME NEW w \in Worker, Badges(w) \/ RestoreSwaps(w) \/ UpdateStops(w) PROVE WorkTyped'
  BY <1>2, <1>10 DEF Badges, RestoreSwaps, UpdateStops
<1>11. ASSUME NEW w \in Worker, Update(w) PROVE WorkTyped'
  <2>1. GoTo(w, "updated") \/ UNCHANGED skWork
    BY <1>11 DEF Update
  <2> QED BY <1>1, <1>3, <2>1 DEF Places
<1>12. ASSUME \/ \E i \in VersionId : DeleteVersion(i)
              \/ \E overwrite \in BOOLEAN : InstallLocal(overwrite) \/ InstallGit(overwrite)
              \/ \E t \in Tool, overwrite \in BOOLEAN : Sync(t, overwrite) \/ ImportExisting(t, overwrite)
              \/ \E kind \in {"plain", "clone"} : UserWritesSkill(kind)
              \/ \E t \in Tool : Unlink(t) \/ UserAdds(t) \/ AutoImports(t)
              \/ BadgeExpires \/ UserEditsSkill \/ UserCommitsSkill \/ UserDeletesSkill \/ UpstreamMoves \/ DayPasses
              \/ UNCHANGED skillVars
       PROVE  UNCHANGED skWork
  BY <1>12 DEF DeleteVersion, InstallLocal, InstallGit, Install, Sync, ImportExisting, UserWritesSkill, Unlink, UserAdds,
               AutoImports, BadgeExpires, UserEditsSkill, UserCommitsSkill, UserDeletesSkill, UpstreamMoves, DayPasses, skillVars
<1> QED BY <1>0, <1>1, <1>4, <1>5, <1>6, <1>7, <1>9, <1>10, <1>11, <1>12 DEF SkillsNext

\* Every step leaves the canonical skill and its upstream within their types.
LEMMA CanonStep == SkillsTyped /\ SkillsNext => skCanon' \in Skill /\ skUpstream' \in 0 .. MaxText
<1> SUFFICES ASSUME SkillsTyped, SkillsNext PROVE skCanon' \in Skill /\ skUpstream' \in 0 .. MaxText
  OBVIOUS
<1>0. /\ skCanon \in Skill /\ skUpstream \in 0 .. MaxText /\ skDay \in 0 .. MaxDay /\ skTexts \in 0 .. MaxText
      /\ skTool \in [Tool -> ToolEntry] /\ (\A w \in Worker : skWork[w].copy \in Skill)
      /\ NoSkill \in Skill /\ MaxText \in Nat /\ 0 \in 0 .. MaxText
      /\ \A w \in Panel : w \in Worker
  <2>1. \A w \in Worker : skWork[w].copy \in Skill
    BY DEF SkillsTyped, WorkTyped, IsWork
  <2>2. skDay \in 0 .. MaxDay
    BY NoSkillTyped DEF SkillsTyped, StoreTyped
  <2> QED BY <2>1, <2>2, NoSkillTyped DEF SkillsTyped, StoreTyped, RootsTyped, Worker
<1>1. /\ skCanon.text \in 0 .. MaxText /\ skCanon.kind \in Kinds /\ skCanon.rev \in 0 .. MaxText /\ skCanon.day \in 0 .. MaxDay
      /\ \A t \in Tool : Seen(t) \in 0 .. MaxText /\ t \in Kinds
  BY <1>0, SkillFields DEF Seen, ToolEntry, Kinds
<1>2. ASSUME UNCHANGED << skCanon, skUpstream >> PROVE skCanon' \in Skill /\ skUpstream' \in 0 .. MaxText
  BY <1>0, <1>2
<1>3. ASSUME NEW text \in 0 .. MaxText, NEW kind \in Kinds, NEW rev \in 0 .. MaxText PROVE Manifested(text, kind, rev) \in Skill
  BY <1>0, SkillMade DEF Manifested
<1>4. ASSUME NewText PROVE skTexts' \in 0 .. MaxText
  BY <1>0, <1>4 DEF NewText
<1>5. ASSUME NEW w \in Worker,
             \/ CreateFinishes(w) \/ SnapshotFinishes(w) \/ Ensures(w) \/ Badges(w) \/ RestoreStages(w)
             \/ UpdateSnapshots(w) \/ UpdateStops(w) \/ CreateRequest(w) \/ \E i \in VersionId : RestoreBegins(w, i)
      PROVE  UNCHANGED << skCanon, skUpstream >>
  BY <1>5 DEF CreateFinishes, SnapshotFinishes, Ensures, Badges, RestoreStages, UpdateSnapshots, UpdateStops, CreateRequest, RestoreBegins
<1>6. ASSUME NEW w \in Worker, RestoreSwaps(w) PROVE skCanon' \in Skill /\ UNCHANGED skUpstream
  BY <1>0, <1>6 DEF RestoreSwaps
<1>7. ASSUME NEW w \in Worker, Update(w) PROVE skCanon' \in Skill /\ UNCHANGED skUpstream
  <2>1. SourceText \in 0 .. MaxText
    BY <1>0, <1>1 DEF SourceText
  <2> QED BY <1>1, <1>3, <1>7, <2>1 DEF Update
<1>8. ASSUME NEW overwrite, InstallLocal(overwrite) \/ InstallGit(overwrite) PROVE skCanon' \in Skill /\ UNCHANGED skUpstream
  <2>1. "local" \in Kinds /\ "git" \in Kinds
    BY DEF Kinds
  <2> QED BY <1>0, <1>3, <1>8, <2>1 DEF InstallLocal, InstallGit, Install
<1>9. ASSUME NEW t \in Tool, NEW overwrite, ImportExisting(t, overwrite) PROVE skCanon' \in Skill /\ UNCHANGED skUpstream
  BY <1>0, <1>1, <1>3, <1>9 DEF ImportExisting
<1>10. ASSUME NEW kind \in {"plain", "clone"}, UserWritesSkill(kind) PROVE skCanon' \in Skill /\ UNCHANGED skUpstream
  <2>1. kind \in Kinds /\ 0 \in 0 .. MaxDay
    BY NoSkillTyped DEF Kinds
  <2> QED BY <1>0, <1>4, <1>10, <2>1, SkillMade DEF UserWritesSkill
<1>11. ASSUME UserEditsSkill PROVE skCanon' \in Skill /\ UNCHANGED skUpstream
  <2>1. \A text \in 0 .. MaxText : [skCanon EXCEPT !.text = text] \in Skill
    BY <1>0 DEF Skill
  <2> QED BY <1>4, <1>11, <2>1 DEF UserEditsSkill
<1>12. ASSUME UserCommitsSkill PROVE skCanon' \in Skill /\ UNCHANGED skUpstream
  <2>1. \A text \in 0 .. MaxText : [skCanon EXCEPT !.rev = text] \in Skill
    BY <1>0 DEF Skill
  <2> QED BY <1>1, <1>12, <2>1 DEF UserCommitsSkill
<1>13. ASSUME UserDeletesSkill \/ UpstreamMoves PROVE skCanon' \in Skill /\ skUpstream' \in 0 .. MaxText
  BY <1>0, <1>4, <1>13 DEF UserDeletesSkill, UpstreamMoves
<1>14. ASSUME \/ \E i \in VersionId : DeleteVersion(i)
              \/ \E t \in Tool, overwrite \in BOOLEAN : Sync(t, overwrite)
              \/ \E t \in Tool : Unlink(t) \/ UserAdds(t)
              \/ BadgeExpires \/ DayPasses
       PROVE  UNCHANGED << skCanon, skUpstream >>
  BY <1>14 DEF DeleteVersion, Sync, Unlink, UserAdds, BadgeExpires, DayPasses
<1>15. \A t \in Tool : AutoImports(t) => ImportExisting(t, FALSE)
  BY DEF AutoImports
<1> QED BY <1>0, <1>2, <1>5, <1>6, <1>7, <1>8, <1>9, <1>10, <1>11, <1>12, <1>13, <1>14, <1>15 DEF SkillsNext

\* The snapshots and what callers were told of them change together.
LEMMA VersionsStep ==
  ASSUME SkillsTyped, SkillsNext
  PROVE  \/ UNCHANGED << skVersions, skAcked >>
         \/ \E i \in VersionId, s \in Skill : /\ skVersions' = [skVersions EXCEPT ![i] = s]
                                              /\ skAcked' = [skAcked EXCEPT ![i] = s]
<1>0. (\A w \in Worker : IsWork(skWork[w])) /\ NoSkill \in Skill /\ \A w \in Panel : w \in Worker
  BY NoSkillTyped DEF SkillsTyped, WorkTyped, Worker
<1>1. ASSUME NEW w \in Worker, CreateFinishes(w) \/ SnapshotFinishes(w)
      PROVE  \/ UNCHANGED << skVersions, skAcked >>
             \/ \E i \in VersionId, s \in Skill : /\ skVersions' = [skVersions EXCEPT ![i] = s]
                                                  /\ skAcked' = [skAcked EXCEPT ![i] = s]
  <2>1. skWork[w].id \in VersionId /\ skWork[w].copy \in Skill
    BY <1>0, <1>1 DEF CreateFinishes, SnapshotFinishes, Doing, IsWork
  <2>2. \/ UNCHANGED << skVersions, skAcked >>
        \/ /\ skVersions' = [skVersions EXCEPT ![skWork[w].id] = skWork[w].copy]
           /\ skAcked' = [skAcked EXCEPT ![skWork[w].id] = skWork[w].copy]
    BY <1>1 DEF CreateFinishes, SnapshotFinishes, Snapshots
  <2> QED BY <2>1, <2>2
<1>2. ASSUME NEW i \in VersionId, DeleteVersion(i)
      PROVE  /\ skVersions' = [skVersions EXCEPT ![i] = NoSkill]
             /\ skAcked' = [skAcked EXCEPT ![i] = NoSkill]
  BY <1>2 DEF DeleteVersion
<1>3. ASSUME NEW w \in Worker,
             \/ Ensures(w) \/ Badges(w) \/ RestoreStages(w) \/ RestoreSwaps(w) \/ UpdateSnapshots(w) \/ UpdateStops(w)
             \/ CreateRequest(w) \/ Update(w) \/ \E i \in VersionId : RestoreBegins(w, i)
      PROVE  UNCHANGED << skVersions, skAcked >>
  BY <1>3 DEF Ensures, Badges, RestoreStages, RestoreSwaps, UpdateSnapshots, UpdateStops, CreateRequest, Update, RestoreBegins, Snapshots
<1>4. ASSUME \/ \E overwrite \in BOOLEAN : InstallLocal(overwrite) \/ InstallGit(overwrite)
             \/ \E t \in Tool, overwrite \in BOOLEAN : Sync(t, overwrite) \/ ImportExisting(t, overwrite)
             \/ \E kind \in {"plain", "clone"} : UserWritesSkill(kind)
             \/ \E t \in Tool : Unlink(t) \/ UserAdds(t) \/ AutoImports(t)
             \/ BadgeExpires \/ UserEditsSkill \/ UserCommitsSkill \/ UserDeletesSkill \/ UpstreamMoves \/ DayPasses
      PROVE  UNCHANGED << skVersions, skAcked >>
  BY <1>4 DEF InstallLocal, InstallGit, Install, Sync, ImportExisting, UserWritesSkill, Unlink, UserAdds, AutoImports,
              BadgeExpires, UserEditsSkill, UserCommitsSkill, UserDeletesSkill, UpstreamMoves, DayPasses, Snapshots
<1> QED BY <1>0, <1>1, <1>2, <1>3, <1>4 DEF SkillsNext

\* The counters of texts, days and requests stay within their bounds.
LEMMA ClockStep ==
  SkillsTyped /\ SkillsNext =>
    /\ skBadge' \in BOOLEAN /\ skTexts' \in 0 .. MaxText /\ skDay' \in 1 .. MaxDay /\ skAsked' \in 0 .. MaxRequests
<1> SUFFICES ASSUME SkillsTyped, SkillsNext
             PROVE  skBadge' \in BOOLEAN /\ skTexts' \in 0 .. MaxText /\ skDay' \in 1 .. MaxDay /\ skAsked' \in 0 .. MaxRequests
  OBVIOUS
<1>0. /\ skBadge \in BOOLEAN /\ skTexts \in 0 .. MaxText /\ skDay \in 1 .. MaxDay /\ skAsked \in 0 .. MaxRequests
      /\ MaxText \in Nat /\ MaxDay \in Nat /\ MaxRequests \in Nat
  BY SkillsConstants DEF SkillsTyped, StoreTyped
<1>1. Ask \/ NewText \/ UNCHANGED Clock \/ (skDay < MaxDay /\ skDay' = skDay + 1 /\ UNCHANGED << skTexts, skAsked >>)
  BY DEF SkillsNext, CreateFinishes, SnapshotFinishes, Ensures, Badges, RestoreStages, RestoreSwaps, UpdateSnapshots, UpdateStops,
         CreateRequest, Update, RestoreBegins, DeleteVersion, InstallLocal, InstallGit, Install, Sync, ImportExisting,
         UserWritesSkill, Unlink, UserAdds, AutoImports, BadgeExpires, UserEditsSkill, UserCommitsSkill, UserDeletesSkill,
         UpstreamMoves, DayPasses
<1>2. skBadge' \in BOOLEAN
  <2>1. UNCHANGED skBadge \/ \E w \in Worker : Badges(w) \/ BadgeExpires
    BY DEF SkillsNext, CreateFinishes, SnapshotFinishes, Ensures, RestoreStages, RestoreSwaps, UpdateSnapshots, UpdateStops,
           CreateRequest, Update, RestoreBegins, DeleteVersion, InstallLocal, InstallGit, Install, Sync, ImportExisting,
           UserWritesSkill, Unlink, UserAdds, AutoImports, UserEditsSkill, UserCommitsSkill, UserDeletesSkill,
           UpstreamMoves, DayPasses, Snapshots, Worker
  <2>2. ASSUME NEW w \in Worker, Badges(w) PROVE skBadge' \in BOOLEAN
    <3>1. skBadge' = FALSE \/ skBadge' = (skBadge \/ skWork[w].old = 0)
      BY <2>2 DEF Badges
    <3> QED BY <1>0, <3>1
  <2> QED BY <1>0, <2>1, <2>2 DEF BadgeExpires
<1> QED BY <1>0, <1>1, <1>2 DEF Ask, NewText, Clock

\* A directory the user made in a tool's root is there, or in the backups.
OwnHeld ==
  /\ \A t \in Tool : skTool[t].kind = "own" => skTool[t].text # 0
  /\ \A text \in skOwn : text \in skBackups \/ \E t \in Tool : skTool[t].kind = "own" /\ skTool[t].text = text

SkillsHeld == skAcked = skVersions /\ OwnHeld

\* Every step keeps the tool roots within their types and every directory of the user's
\* in its place or in the backups (linkOne backs up what it replaces).
LEMMA RootsStep ==
  ASSUME SkillsTyped, OwnHeld, SkillsNext
  PROVE  RootsTyped' /\ OwnHeld'
<1>0. /\ RootsTyped /\ skCanon.text \in 0 .. MaxText /\ skCanon'.text \in 0 .. MaxText /\ MaxText \in Nat /\ skTexts \in 0 .. MaxText
  <2>1. skCanon \in Skill /\ skCanon' \in Skill
    BY CanonStep DEF SkillsTyped, StoreTyped
  <2> QED BY <2>1, SkillFields, NoSkillTyped DEF SkillsTyped, StoreTyped
<1>1. ASSUME UNCHANGED Roots PROVE RootsTyped' /\ OwnHeld'
  BY <1>0, <1>1 DEF Roots, RootsTyped, OwnHeld
<1>2. ASSUME skTool' = Resynced, UNCHANGED << skBackups, skOwn >> PROVE RootsTyped' /\ OwnHeld'
  <2>1. skTool' \in [Tool -> ToolEntry]
    <3>1. [kind |-> "copy", text |-> skCanon'.text] \in ToolEntry
      BY <1>0 DEF ToolEntry
    <3> QED BY <1>0, <1>2, <3>1 DEF Resynced, RootsTyped
  <2>2. \A t \in Tool : /\ skTool'[t].kind = skTool[t].kind
                        /\ skTool[t].kind # "copy" => skTool'[t] = skTool[t]
    BY <1>2 DEF Resynced
  <2> QED BY <1>0, <1>2, <2>1, <2>2 DEF RootsTyped, OwnHeld
<1>3. ASSUME NEW w \in Worker, RestoreSwaps(w) \/ Update(w) PROVE RootsTyped' /\ OwnHeld'
  BY <1>2, <1>3 DEF RestoreSwaps, Update
<1>4. ASSUME NEW t \in Tool, NEW overwrite \in BOOLEAN, Sync(t, overwrite) PROVE RootsTyped' /\ OwnHeld'
  <2>1. PICK entry \in ToolEntry : skTool' = [skTool EXCEPT ![t] = entry] /\ entry.kind # "own"
    <3>1. \A kind \in {"link", "copy"} : [kind |-> kind, text |-> IF kind = "copy" THEN skCanon.text ELSE 0] \in ToolEntry
      BY <1>0 DEF ToolEntry
    <3>2. PICK kind \in {"link", "copy"} :
            skTool' = [skTool EXCEPT ![t] = [kind |-> kind, text |-> IF kind = "copy" THEN skCanon.text ELSE 0]]
      BY <1>4 DEF Sync
    <3>3. PICK entry : entry = [kind |-> kind, text |-> IF kind = "copy" THEN skCanon.text ELSE 0]
      OBVIOUS
    <3> QED BY <3>1, <3>2, <3>3
  <2>2. /\ skBackups \subseteq skBackups' /\ skBackups' \subseteq skBackups \cup ({Seen(t)} \ {0}) /\ skOwn' = skOwn
        /\ skTool[t].kind = "own" => skTool[t].text \in skBackups'
    <3>1. skTool[t].kind = "own" => overwrite /\ Seen(t) = skTool[t].text /\ skTool[t].text # 0
      BY <1>4 DEF Sync, Replaceable, Seen, OwnHeld
    <3> QED BY <1>4, <3>1 DEF Sync, BackedUp
  <2>3. skTool' \in [Tool -> ToolEntry]
    BY <1>0, <2>1 DEF RootsTyped
  <2>4. Seen(t) \in 0 .. MaxText
    BY <1>0 DEF Seen, RootsTyped, ToolEntry
  <2>5. skBackups' \subseteq 1 .. MaxText
    BY <1>0, <2>2, <2>4 DEF RootsTyped
  <2>6. \A u \in Tool : u # t => skTool'[u] = skTool[u]
    BY <1>0, <2>1 DEF RootsTyped
  <2>7. skTool'[t].kind # "own"
    BY <1>0, <2>1 DEF RootsTyped
  <2>8. OwnHeld'
    BY <2>2, <2>6, <2>7 DEF OwnHeld
  <2> QED BY <1>0, <2>2, <2>3, <2>5, <2>8 DEF RootsTyped
<1>5. ASSUME NEW t \in Tool, Unlink(t) PROVE RootsTyped' /\ OwnHeld'
  <2>1. [kind |-> "missing", text |-> 0] \in ToolEntry
    BY <1>0 DEF ToolEntry
  <2>2. skTool' = [skTool EXCEPT ![t] = [kind |-> "missing", text |-> 0]] /\ UNCHANGED << skBackups, skOwn >> /\ skTool[t].kind # "own"
    BY <1>5 DEF Unlink
  <2>3. skTool' \in [Tool -> ToolEntry] /\ \A u \in Tool : skTool'[u] = IF u = t THEN [kind |-> "missing", text |-> 0] ELSE skTool[u]
    BY <1>0, <2>1, <2>2 DEF RootsTyped
  <2> QED BY <1>0, <2>2, <2>3 DEF RootsTyped, OwnHeld
<1>6. ASSUME NEW t \in Tool, UserAdds(t) PROVE RootsTyped' /\ OwnHeld'
  <2>1. skTexts' \in 1 .. MaxText
    BY <1>0, <1>6 DEF UserAdds, NewText
  <2>2. [kind |-> "own", text |-> skTexts'] \in ToolEntry
    BY <2>1 DEF ToolEntry
  <2>3. /\ skTool' = [skTool EXCEPT ![t] = [kind |-> "own", text |-> skTexts']]
        /\ skOwn' = skOwn \cup {skTexts'} /\ skBackups' = skBackups /\ skTool[t].kind # "own"
    BY <1>6 DEF UserAdds
  <2>4. skTool' \in [Tool -> ToolEntry] /\ \A u \in Tool : skTool'[u] = IF u = t THEN [kind |-> "own", text |-> skTexts'] ELSE skTool[u]
    BY <1>0, <2>2, <2>3 DEF RootsTyped
  <2>5. OwnHeld'
    BY <2>1, <2>3, <2>4 DEF OwnHeld
  <2> QED BY <1>0, <2>1, <2>3, <2>4, <2>5 DEF RootsTyped
<1>7. ASSUME NEW w \in Worker,
             \/ CreateFinishes(w) \/ SnapshotFinishes(w) \/ Ensures(w) \/ Badges(w) \/ RestoreStages(w)
             \/ UpdateSnapshots(w) \/ UpdateStops(w) \/ CreateRequest(w) \/ \E i \in VersionId : RestoreBegins(w, i)
      PROVE  UNCHANGED Roots
  BY <1>7 DEF CreateFinishes, SnapshotFinishes, Ensures, Badges, RestoreStages, UpdateSnapshots, UpdateStops, CreateRequest, RestoreBegins
<1>8. ASSUME \/ \E i \in VersionId : DeleteVersion(i)
             \/ \E overwrite \in BOOLEAN : InstallLocal(overwrite) \/ InstallGit(overwrite)
             \/ \E t \in Tool, overwrite \in BOOLEAN : ImportExisting(t, overwrite)
             \/ \E kind \in {"plain", "clone"} : UserWritesSkill(kind)
             \/ \E t \in Tool : AutoImports(t)
             \/ BadgeExpires \/ UserEditsSkill \/ UserCommitsSkill \/ UserDeletesSkill \/ UpstreamMoves \/ DayPasses
      PROVE  UNCHANGED Roots
  BY <1>8 DEF DeleteVersion, InstallLocal, InstallGit, Install, ImportExisting, UserWritesSkill,
              AutoImports, BadgeExpires, UserEditsSkill, UserCommitsSkill, UserDeletesSkill, UpstreamMoves, DayPasses
<1>9. \A w \in Panel : w \in Worker
  BY DEF Worker
<1> QED BY <1>1, <1>3, <1>4, <1>5, <1>6, <1>7, <1>8, <1>9 DEF SkillsNext

\* The skills start with nothing on disk, so nothing can be lost.
LEMMA SkillsInvInit == SkillsInit => SkillsTyped /\ SkillsHeld
<1> SUFFICES ASSUME SkillsInit PROVE SkillsTyped /\ SkillsHeld
  OBVIOUS
<1>1. WorkTyped
  BY RestingWork DEF SkillsInit, WorkTyped, IsWork
<1>2. StoreTyped
  <2>1. skCanon = NoSkill /\ skVersions = [i \in VersionId |-> NoSkill] /\ skAcked = skVersions
    BY DEF SkillsInit
  <2>2. skUpstream = 1 /\ skTexts = 1 /\ skDay = 1 /\ skAsked = 0 /\ skBadge = FALSE
    BY DEF SkillsInit
  <2>3. skVersions \in [VersionId -> Skill] /\ skAcked \in [VersionId -> Skill]
    BY <2>1, NoSkillTyped
  <2>4. skUpstream \in 0 .. MaxText /\ skTexts \in 0 .. MaxText /\ skDay \in 1 .. MaxDay /\ skAsked \in 0 .. MaxRequests
    BY <2>2, SkillsConstants
  <2> QED BY <2>1, <2>2, <2>3, <2>4, NoSkillTyped DEF StoreTyped
<1>3. RootsTyped
  BY NoSkillTyped DEF SkillsInit, RootsTyped, ToolEntry
<1>4. SkillsHeld
  BY DEF SkillsInit, SkillsHeld, OwnHeld
<1> QED BY <1>1, <1>2, <1>3, <1>4 DEF SkillsTyped

\* The inductive step of NothingIsLost.
LEMMA SkillsInvStep == SkillsTyped /\ SkillsHeld /\ [SkillsNext]_skillVars => (SkillsTyped /\ SkillsHeld)'
<1> SUFFICES ASSUME SkillsTyped, SkillsHeld, [SkillsNext]_skillVars PROVE (SkillsTyped /\ SkillsHeld)'
  OBVIOUS
<1>0. skAcked = skVersions /\ OwnHeld /\ skVersions \in [VersionId -> Skill] /\ WorkTyped'
  BY WorkStep DEF SkillsHeld, SkillsTyped, StoreTyped
<1>1. CASE UNCHANGED skillVars
  BY <1>0, <1>1 DEF skillVars, SkillsTyped, SkillsHeld, StoreTyped, RootsTyped, OwnHeld
<1>2. CASE SkillsNext
  <2>1. skVersions' \in [VersionId -> Skill] /\ skAcked' = skVersions'
    BY <1>0, <1>2, VersionsStep
  <2>2. StoreTyped'
    BY <1>2, <2>1, CanonStep, ClockStep DEF StoreTyped
  <2>3. RootsTyped' /\ OwnHeld'
    BY <1>0, <1>2, RootsStep
  <2> QED BY <1>0, <2>1, <2>2, <2>3 DEF SkillsTyped, SkillsHeld
<1> QED BY <1>1, <1>2

\* The inductive form is at least as strong as the type condition of the module.
LEMMA SkillsTypedOK == SkillsTyped => SkillsTypeOK
BY DEF SkillsTyped, WorkTyped, IsWork, StoreTyped, RootsTyped, SkillsTypeOK

\* A snapshot a caller was told of keeps its content until it is deleted
\* (Create's rename, createAutoSnapshot's retry), and a directory of the user's
\* in a tool's root is never removed without a backup (linkOne, unlinkOne), for
\* any number of tools, requests, contents and days.
THEOREM SkillsNothingIsLost == Spec => []NothingIsLost
<1>1. Init => SkillsTyped /\ SkillsHeld
  BY SkillsInvInit DEF Init
<1>2. SkillsTyped /\ SkillsHeld /\ [Next]_vars => (SkillsTyped /\ SkillsHeld)'
  <2>1. [Next]_vars => [SkillsNext]_skillVars
    BY DEF Next, vars
  <2> QED BY <2>1, SkillsInvStep
<1>3. SkillsHeld => NothingIsLost
  BY DEF SkillsHeld, OwnHeld, NothingIsLost
<1> QED BY <1>1, <1>2, <1>3, PTL DEF Spec

-----------------------------------------------------------------------------
(* Provider profiles: the list.                                              *)

Lists == [profiles : Seq(Profile), active : [AgentTarget -> 0 .. MaxProfiles]]
Distinct(ps) == \A i, j \in DOMAIN ps : i # j => ps[i].name # ps[j].name /\ ps[i].id # ps[j].id
Has(ps, id) == \E i \in DOMAIN ps : ps[i].id = id
UpTo(ps, made) == \A i \in DOMAIN ps : ps[i].id <= made

Coherent(s, made) ==
  /\ s \in Lists /\ Distinct(s.profiles) /\ UpTo(s.profiles, made)
  /\ \A t \in AgentTarget : s.active[t] # 0 => Has(s.profiles, s.active[t])

\* The fields of a profile.
LEMMA ProfileFields ==
  ASSUME NEW p \in Profile
  PROVE  p.id \in 1 .. MaxProfiles /\ p.name \in Name /\ p.secret \in Secret /\ p.sync \in BOOLEAN
BY DEF Profile

\* The constants of the profiles are numbers, and the placeholder is a secret.
LEMMA Numbers ==
  /\ MaxProfiles \in Nat \ {0} /\ MaxSecret \in Nat /\ BackupKeep \in Nat \ {0} /\ MaxFailures \in Nat
  /\ 0 \in Secret /\ MaskedSecret \in Secret /\ (0 .. MaxSecret) \subseteq Secret /\ 0 \in 0 .. MaxSecret
BY ProviderConstants DEF Secret, MaskedSecret

\* A list stays coherent when more numbers have been handed out.
LEMMA CoherentLater ==
  ASSUME NEW s, NEW m \in Nat, NEW n \in Nat, m <= n, Coherent(s, m)
  PROVE  Coherent(s, n)
<1>1. \A i \in DOMAIN s.profiles : s.profiles[i].id \in Nat
  <2>1. s.profiles \in Seq(Profile)
    BY DEF Coherent, Lists
  <2>2. \A i \in DOMAIN s.profiles : s.profiles[i] \in Profile
    BY <2>1
  <2> QED BY <2>2, ProfileFields, Numbers
<1> QED BY <1>1 DEF Coherent, UpTo

\* A new profile comes last: its name and its number are nobody else's.
LEMMA CoherentAppended ==
  ASSUME NEW s, NEW m \in Nat, Coherent(s, m), NEW p \in Profile, p.id <= m,
         \A i \in DOMAIN s.profiles : s.profiles[i].name # p.name /\ s.profiles[i].id # p.id
  PROVE  Coherent([s EXCEPT !.profiles = Append(@, p)], m)
<1>1. PICK ps : ps = s.profiles
  OBVIOUS
<1>2. PICK n \in Nat : n = Len(ps) /\ DOMAIN ps = 1 .. n
  BY <1>1 DEF Coherent, Lists
<1>3. PICK qs : qs = Append(ps, p)
  OBVIOUS
<1>4. /\ qs \in Seq(Profile) /\ DOMAIN qs = 1 .. n + 1 /\ qs[n + 1] = p
      /\ \A i \in 1 .. n : qs[i] = ps[i]
  <2>1. ps \in Seq(Profile)
    BY <1>1 DEF Coherent, Lists
  <2> QED BY <1>2, <1>3, <2>1, AppendProperties
<1>5. Distinct(qs) /\ UpTo(qs, m)
  <2>1. \A i \in DOMAIN qs : i \in 1 .. n \/ i = n + 1
    BY <1>4
  <2>2. Distinct(ps) /\ UpTo(ps, m)
    BY <1>1 DEF Coherent
  <2>3. Distinct(qs)
    BY <1>1, <1>2, <1>4, <2>1, <2>2, SMTT(30) DEF Distinct
  <2>4. UpTo(qs, m)
    BY <1>1, <1>2, <1>4, <2>1, <2>2, SMTT(30) DEF UpTo
  <2> QED BY <2>3, <2>4
<1>6. \A id : Has(ps, id) => Has(qs, id)
  BY <1>2, <1>4 DEF Has
<1>7. PICK r : r = [s EXCEPT !.profiles = Append(@, p)]
  OBVIOUS
<1>8. r.profiles = qs /\ r.active = s.active /\ r \in Lists
  BY <1>1, <1>3, <1>4, <1>7 DEF Coherent, Lists
<1> QED BY <1>1, <1>5, <1>6, <1>7, <1>8 DEF Coherent

\* A profile replaces the one with its number.
LEMMA CoherentReplaced ==
  ASSUME NEW s, NEW m \in Nat, Coherent(s, m), NEW p \in Profile, p.id <= m,
         \A i \in DOMAIN s.profiles : s.profiles[i].name = p.name => s.profiles[i].id = p.id
  PROVE  Coherent([s EXCEPT !.profiles = [i \in DOMAIN @ |-> IF @[i].id = p.id THEN p ELSE @[i]]], m)
<1>1. PICK ps : ps = s.profiles
  OBVIOUS
<1>2. PICK n \in Nat : n = Len(ps) /\ DOMAIN ps = 1 .. n /\ ps \in [1 .. n -> Profile]
  BY <1>1 DEF Coherent, Lists
<1>3. PICK qs : qs = [i \in DOMAIN ps |-> IF ps[i].id = p.id THEN p ELSE ps[i]]
  OBVIOUS
<1>4. qs \in [1 .. n -> Profile] /\ \A i \in 1 .. n : qs[i] = IF ps[i].id = p.id THEN p ELSE ps[i]
  BY <1>2, <1>3
<1>5. qs \in Seq(Profile) /\ DOMAIN qs = 1 .. n /\ \A i \in 1 .. n : qs[i].id = ps[i].id
  <2>1. qs \in Seq(Profile)
    BY <1>4, SeqDef
  <2> QED BY <1>4, <2>1
<1>6. Distinct(qs) /\ UpTo(qs, m)
  <2>1. Distinct(ps) /\ UpTo(ps, m)
    BY <1>1 DEF Coherent
  <2>3. Distinct(qs)
    BY <1>1, <1>2, <1>4, <1>5, <2>1, SMTT(30) DEF Distinct
  <2>4. UpTo(qs, m)
    BY <1>1, <1>2, <1>4, <1>5, <2>1, SMTT(30) DEF UpTo
  <2> QED BY <2>3, <2>4
<1>7. \A id : Has(ps, id) => Has(qs, id)
  BY <1>2, <1>5 DEF Has
<1>8. PICK r : r = [s EXCEPT !.profiles = [i \in DOMAIN @ |-> IF @[i].id = p.id THEN p ELSE @[i]]]
  OBVIOUS
<1>9. r.profiles = qs /\ r.active = s.active /\ r \in Lists
  BY <1>1, <1>3, <1>5, <1>8 DEF Coherent, Lists
<1> QED BY <1>1, <1>6, <1>7, <1>8, <1>9 DEF Coherent

\* A profile leaves the list, and the targets that used it use none.
LEMMA CoherentRemoved ==
  ASSUME NEW s, NEW m \in Nat, Coherent(s, m), NEW k \in DOMAIN s.profiles, NEW id, s.profiles[k].id = id
  PROVE  Coherent([profiles |-> RemoveAt(s.profiles, k),
                   active |-> [t \in AgentTarget |-> IF s.active[t] = id THEN 0 ELSE s.active[t]]], m)
<1>1. PICK ps : ps = s.profiles
  OBVIOUS
<1>2. PICK n \in Nat : n = Len(ps) /\ DOMAIN ps = 1 .. n
  BY <1>1 DEF Coherent, Lists
<1>3. PICK qs : qs = RemoveAt(ps, k)
  OBVIOUS
<1>4. qs \in Seq(Profile) /\ DOMAIN qs = 1 .. n - 1 /\ \A j \in 1 .. n - 1 : qs[j] = IF j < k THEN ps[j] ELSE ps[j + 1]
  <2>1. ps \in Seq(Profile) /\ k \in 1 .. Len(ps)
    BY <1>1, <1>2 DEF Coherent, Lists
  <2>2. /\ qs \in Seq(Profile) /\ Len(qs) = Len(ps) - 1
        /\ \A j \in 1 .. Len(qs) : qs[j] = IF j < k THEN ps[j] ELSE ps[j + 1]
    BY <1>3, <2>1, RemovedAt
  <2> QED BY <1>2, <2>2
<1>5. PICK old \in [1 .. n - 1 -> 1 .. n] : /\ \A j \in 1 .. n - 1 : qs[j] = ps[old[j]]
                                         /\ \A i, j \in 1 .. n - 1 : i # j => old[i] # old[j]
  <2>1. k \in 1 .. n
    BY <1>1, <1>2
  <2>2. PICK old : old = [j \in 1 .. n - 1 |-> IF j < k THEN j ELSE j + 1]
    OBVIOUS
  <2>3. old \in [1 .. n - 1 -> 1 .. n] /\ \A j \in 1 .. n - 1 : old[j] = IF j < k THEN j ELSE j + 1
    BY <2>1, <2>2
  <2>4. \A j \in 1 .. n - 1 : qs[j] = ps[old[j]]
    BY <1>4, <2>3
  <2>5. \A i, j \in 1 .. n - 1 : i # j => old[i] # old[j]
    BY <2>1, <2>3
  <2> QED BY <2>3, <2>4, <2>5
<1>6. Distinct(qs) /\ UpTo(qs, m)
  <2>1. Distinct(ps) /\ UpTo(ps, m)
    BY <1>1 DEF Coherent
  <2>3. Distinct(qs)
    BY <1>2, <1>4, <1>5, <2>1, SMTT(30) DEF Distinct
  <2>4. UpTo(qs, m)
    BY <1>2, <1>4, <1>5, <2>1, SMTT(30) DEF UpTo
  <2> QED BY <2>3, <2>4
<1>7. \A x : Has(ps, x) /\ x # id => Has(qs, x)
  <2> SUFFICES ASSUME NEW i \in 1 .. n, ps[i].id # id PROVE \E j \in 1 .. n - 1 : qs[j].id = ps[i].id
    BY <1>2, <1>4 DEF Has
  <2>1. k \in 1 .. n /\ i # k
    BY <1>1, <1>2
  <2>2. CASE i < k
    <3>1. i \in 1 .. n - 1 /\ qs[i] = ps[i]
      BY <1>4, <2>1, <2>2
    <3> QED BY <3>1
  <2>3. CASE i > k
    <3>1. i - 1 \in 1 .. n - 1 /\ ~(i - 1 < k) /\ (i - 1) + 1 = i
      BY <2>1, <2>3
    <3>2. qs[i - 1] = ps[i]
      BY <1>4, <3>1
    <3> QED BY <3>1, <3>2
  <2> QED BY <2>1, <2>2, <2>3
<1>8. PICK act : act = [t \in AgentTarget |-> IF s.active[t] = id THEN 0 ELSE s.active[t]]
  OBVIOUS
<1>9. act \in [AgentTarget -> 0 .. MaxProfiles] /\ \A t \in AgentTarget : act[t] # 0 => act[t] = s.active[t] /\ act[t] # id
  BY <1>8, Numbers DEF Coherent, Lists
<1>10. PICK r : r = [profiles |-> qs, active |-> act]
  OBVIOUS
<1>11. r.profiles = qs /\ r.active = act /\ r \in Lists
  BY <1>4, <1>9, <1>10 DEF Lists
<1>12. \A t \in AgentTarget : act[t] # 0 => Has(qs, act[t])
  BY <1>1, <1>7, <1>9 DEF Coherent
<1>13. Coherent(r, m)
  BY <1>6, <1>11, <1>12 DEF Coherent
<1> QED BY <1>1, <1>3, <1>8, <1>10, <1>13

\* Two profiles change places.
LEMMA CoherentSwapped ==
  ASSUME NEW s, NEW m \in Nat, Coherent(s, m), NEW i \in DOMAIN s.profiles, NEW j \in DOMAIN s.profiles, i # j
  PROVE  Coherent([s EXCEPT !.profiles = [@ EXCEPT ![i] = s.profiles[j], ![j] = s.profiles[i]]], m)
<1>1. PICK ps : ps = s.profiles
  OBVIOUS
<1>2. PICK n \in Nat : n = Len(ps) /\ DOMAIN ps = 1 .. n /\ ps \in [1 .. n -> Profile]
  BY <1>1 DEF Coherent, Lists
<1>3. PICK qs : qs = [ps EXCEPT ![i] = ps[j], ![j] = ps[i]]
  OBVIOUS
<1>4. qs \in [1 .. n -> Profile] /\ \A a \in 1 .. n : qs[a] = IF a = j THEN ps[i] ELSE IF a = i THEN ps[j] ELSE ps[a]
  BY <1>1, <1>2, <1>3
<1>5. qs \in Seq(Profile) /\ DOMAIN qs = 1 .. n
  <2>1. qs \in Seq(Profile)
    BY <1>4, SeqDef
  <2> QED BY <1>4, <2>1
<1>6. Distinct(qs) /\ UpTo(qs, m)
  <2>1. Distinct(ps) /\ UpTo(ps, m) /\ i \in 1 .. n /\ j \in 1 .. n
    BY <1>1, <1>2 DEF Coherent
  <2>3. Distinct(qs)
    BY <1>2, <1>4, <1>5, <2>1, SMTT(30) DEF Distinct
  <2>4. UpTo(qs, m)
    BY <1>2, <1>4, <1>5, <2>1, SMTT(30) DEF UpTo
  <2> QED BY <2>3, <2>4
<1>7. \A id : Has(ps, id) => Has(qs, id)
  <2>1. i \in 1 .. n /\ j \in 1 .. n
    BY <1>1, <1>2
  <2> QED BY <1>2, <1>4, <1>5, <2>1 DEF Has
<1>8. PICK r : r = [s EXCEPT !.profiles = [@ EXCEPT ![i] = s.profiles[j], ![j] = s.profiles[i]]]
  OBVIOUS
<1>9. r.profiles = qs /\ r.active = s.active /\ r \in Lists
  BY <1>1, <1>3, <1>5, <1>8 DEF Coherent, Lists
<1> QED BY <1>1, <1>6, <1>7, <1>8, <1>9 DEF Coherent

\* A target uses a profile of the list.
LEMMA CoherentActivated ==
  ASSUME NEW s, NEW m \in Nat, Coherent(s, m), NEW t \in AgentTarget, NEW id \in 1 .. MaxProfiles, Has(s.profiles, id)
  PROVE  Coherent([s EXCEPT !.active[t] = id], m)
<1>1. PICK r : r = [s EXCEPT !.active[t] = id]
  OBVIOUS
<1>2. r.profiles = s.profiles /\ r.active = [s.active EXCEPT ![t] = id]
  BY <1>1 DEF Coherent, Lists
<1>3. r.active \in [AgentTarget -> 0 .. MaxProfiles] /\ \A u \in AgentTarget : r.active[u] = IF u = t THEN id ELSE s.active[u]
  BY <1>2, Numbers DEF Coherent, Lists
<1>4. r \in Lists
  BY <1>1, <1>2, <1>3 DEF Coherent, Lists
<1> QED BY <1>1, <1>2, <1>3, <1>4 DEF Coherent

-----------------------------------------------------------------------------
(* Provider profiles: requests, files and what the user typed.               *)

Steps == {"idle", "upsert", "read", "backup", "write", "activate"}
RequestField == {"at", "profile", "target", "left", "read", "force"}

IsRequest(x, made) ==
  /\ x = [field \in RequestField |-> x[field]]
  /\ x.at \in Steps
  /\ x.profile \in Seq(Profile) /\ UpTo(x.profile, made) /\ (x.at # "idle" => x.profile # << >>)
  /\ x.left \in Seq(LiveFile) /\ Len(x.left) <= 2 /\ (x.at \in {"backup", "write"} => x.left # << >>)
  /\ x.at \in {"read", "backup", "write", "activate"} => x.target \in AgentTarget
  /\ x.read \in LiveContent

RequestsTyped == pvCall = [r \in Request |-> pvCall[r]] /\ \A r \in Request : IsRequest(pvCall[r], pvCount.made)

CountTyped == pvCount \in [made : 0 .. MaxProfiles, typed : 0 .. MaxSecret, activations : Nat]

FilesTyped ==
  /\ pvAuth \in [AgentTarget -> Secret] /\ pvFailed \in 0 .. MaxFailures
  /\ pvLive \in [LiveFile -> LiveContent] /\ pvTyped \in [LiveFile -> 0 .. MaxSecret]
  /\ pvBackups \in [LiveFile -> Seq(LiveContent)] /\ \A f \in LiveFile : Len(pvBackups[f]) <= BackupKeep

ListsHeld == Coherent(pvMem, pvCount.made) /\ Coherent(pvDisk, pvCount.made)

ProvidersTyped == CountTyped /\ ListsHeld /\ RequestsTyped /\ FilesTyped

\* Numbers of profiles are handed out upwards and never beyond the bound.
LEMMA CountStep ==
  ASSUME ProvidersTyped, ProvidersNext
  PROVE  /\ CountTyped' /\ pvCount.made \in Nat /\ pvCount'.made \in Nat /\ pvCount.made <= pvCount'.made
         /\ pvCount'.made <= MaxProfiles
<1>0. /\ pvCount \in [made : 0 .. MaxProfiles, typed : 0 .. MaxSecret, activations : Nat]
      /\ MaxProfiles \in Nat /\ MaxSecret \in Nat
  BY Numbers DEF ProvidersTyped, CountTyped
<1> DEFINE Grows == /\ CountTyped' /\ pvCount.made \in Nat /\ pvCount'.made \in Nat /\ pvCount.made <= pvCount'.made
                    /\ pvCount'.made <= MaxProfiles
<1>1. ASSUME UNCHANGED pvCount PROVE Grows
  BY <1>0, <1>1 DEF CountTyped
<1>2. ASSUME NEW r, NEW p, p.id \in Nat, NEW typed \in BOOLEAN, UpsertReads(r, p, typed) PROVE Grows
  <2>1. pvCount' = [pvCount EXCEPT !.made = IF p.id > @ THEN @ + 1 ELSE @, !.typed = IF typed THEN @ + 1 ELSE @]
    BY <1>2 DEF UpsertReads
  <2>2. p.id \in 1 .. pvCount.made \/ (p.id = pvCount.made + 1 /\ pvCount.made < MaxProfiles)
    BY <1>2 DEF UpsertReads
  <2>3. typed => pvCount.typed < MaxSecret
    BY <1>2 DEF UpsertReads
  <2>4. PICK made, count : /\ pvCount' = [pvCount EXCEPT !.made = made, !.typed = count]
                           /\ made = IF p.id > pvCount.made THEN pvCount.made + 1 ELSE pvCount.made
                           /\ count = IF typed THEN pvCount.typed + 1 ELSE pvCount.typed
    BY <2>1
  <2>5. made \in 0 .. MaxProfiles /\ pvCount.made \in Nat /\ pvCount.made <= made
    BY <1>0, <1>2, <2>2, <2>4
  <2>6. count \in 0 .. MaxSecret
    BY <1>0, <2>3, <2>4
  <2>7. pvCount' \in [made : 0 .. MaxProfiles, typed : 0 .. MaxSecret, activations : Nat] /\ pvCount'.made = made
    BY <1>0, <2>4, <2>5, <2>6
  <2> QED BY <1>0, <2>5, <2>7 DEF CountTyped
<1>3. ASSUME NEW id, NEW name, DuplicateProfile(id, name) PROVE Grows
  BY <1>0, <1>3 DEF DuplicateProfile, Count, CountTyped
<1>4. ASSUME NEW r, NEW first, NEW second, NEW secret, NEW sync, ImportReads(r, << first, second >>, secret, sync) PROVE Grows
  BY <1>0, <1>4 DEF ImportReads, CountTyped
<1>5. ASSUME NEW r, NEW first, NEW second, ImportsLive(r, first, second) PROVE Grows
  BY <1>0, <1>5 DEF ImportsLive, CountTyped
<1>6. ASSUME NEW r, NEW id, NEW target, NEW force, ActivationReads(r, id, target, force) PROVE Grows
  BY <1>0, <1>6 DEF ActivationReads, Count, CountTyped
<1>7. ASSUME NEW f, NEW broken, UserEditsLive(f, broken) PROVE Grows
  BY <1>0, <1>7 DEF UserEditsLive, Count, CountTyped
<1>8. ASSUME NEW r, UpsertStores(r) \/ SyncReads(r) \/ SyncBacksUp(r) \/ SyncWrites(r) \/ PatchAuth(r) \/ SetActive(r)
      PROVE  UNCHANGED pvCount
  BY <1>8 DEF UpsertStores, SyncReads, SyncBacksUp, SyncWrites, PatchAuth, SetActive
<1>9. ASSUME (\E id \in 1 .. MaxProfiles : DeleteProfile(id)) \/ (\E i, j \in 1 .. MaxProfiles : ReorderProfiles(i, j)) \/ ProvidersRestart
      PROVE  UNCHANGED pvCount
  BY <1>9 DEF DeleteProfile, ReorderProfiles, ProvidersRestart
<1>10. \A id \in 1 .. MaxProfiles : \A name, secret, sync : [id |-> id, name |-> name, secret |-> secret, sync |-> sync].id \in Nat
  BY <1>0
<1> HIDE DEF Grows
<1>11. Grows
  BY <1>1, <1>2, <1>3, <1>4, <1>5, <1>6, <1>7, <1>8, <1>9, <1>10 DEF ProvidersNext
<1> QED BY <1>11 DEF Grows

\* A profile the list holds.
LEMMA HeldProfile ==
  ASSUME ListsHeld, NEW id, Known(id)
  PROVE  /\ PlaceOf(id) \in DOMAIN pvMem.profiles /\ ProfileOf(id) \in Profile
         /\ ProfileOf(id).id = id /\ Has(pvMem.profiles, id) /\ id \in 1 .. MaxProfiles
<1>1. PlaceOf(id) \in DOMAIN pvMem.profiles /\ pvMem.profiles[PlaceOf(id)].id = id
  BY DEF Known, PlaceOf
<1>2. pvMem.profiles \in Seq(Profile)
  BY DEF ListsHeld, Coherent, Lists
<1>3. pvMem.profiles[PlaceOf(id)] \in Profile
  BY <1>1, <1>2
<1> QED BY <1>1, <1>3, ProfileFields DEF ProfileOf, Has

\* saveLocked, whether the file could be written or not.
LEMMA SavedLists ==
  ASSUME NEW made \in Nat, NEW next, Coherent(next, made), Coherent(pvDisk, made), Save(next)
  PROVE  Coherent(pvMem', made) /\ Coherent(pvDisk', made)
BY DEF Save

\* Every operation of the store, and a save that fails, leaves both lists coherent.
LEMMA ListsStep == ProvidersTyped /\ ProvidersNext => ListsHeld'
<1> SUFFICES ASSUME ProvidersTyped, ProvidersNext PROVE ListsHeld'
  OBVIOUS
<1>0. /\ ListsHeld /\ pvCount.made \in Nat /\ pvCount'.made \in Nat /\ pvCount.made <= pvCount'.made /\ pvCount'.made <= MaxProfiles
      /\ \A r \in Request : IsRequest(pvCall[r], pvCount.made)
  BY CountStep DEF ProvidersTyped, RequestsTyped
<1>1. Coherent(pvMem, pvCount'.made) /\ Coherent(pvDisk, pvCount'.made)
  BY <1>0, CoherentLater DEF ListsHeld
<1>2. ASSUME UNCHANGED Store PROVE ListsHeld'
  BY <1>1, <1>2 DEF Store, ListsHeld
<1>3. ASSUME NEW next, Save(next), Coherent(next, pvCount'.made) PROVE ListsHeld'
  BY <1>0, <1>1, <1>3, SavedLists DEF ListsHeld
<1>4. ASSUME NEW r \in Request, UpsertStores(r) PROVE ListsHeld'
  <2>1. PICK p : p = Head(pvCall[r].profile)
    OBVIOUS
  <2>2. p \in Profile /\ p.id <= pvCount'.made
    <3>1. PICK ps : ps = pvCall[r].profile
      OBVIOUS
    <3>2. ps \in Seq(Profile) /\ UpTo(ps, pvCount.made) /\ ps # << >>
      BY <1>0, <1>4, <3>1 DEF UpsertStores, IsRequest, CallAt
    <3>3. 1 \in DOMAIN ps /\ p = ps[1] /\ p \in Profile
      BY <2>1, <3>1, <3>2
    <3> QED BY <1>0, <3>2, <3>3, ProfileFields, Numbers DEF UpTo
  <2>3. CASE NameTaken(p.name, p.id)
    BY <1>2, <1>4, <2>1, <2>3 DEF UpsertStores
  <2>4. CASE ~NameTaken(p.name, p.id) /\ Known(p.id)
    <3>1. PICK next : next = [pvMem EXCEPT !.profiles = [i \in DOMAIN @ |-> IF @[i].id = p.id THEN p ELSE @[i]]]
      OBVIOUS
    <3>2. Save(next)
      BY <1>4, <2>1, <2>4, <3>1 DEF UpsertStores
    <3>3. Coherent(next, pvCount'.made)
      BY <1>0, <1>1, <2>2, <2>4, <3>1, CoherentReplaced DEF NameTaken
    <3> QED BY <1>3, <3>2, <3>3
  <2>5. CASE ~NameTaken(p.name, p.id) /\ ~Known(p.id)
    <3>1. PICK next : next = [pvMem EXCEPT !.profiles = Append(@, p)]
      OBVIOUS
    <3>2. Save(next)
      BY <1>4, <2>1, <2>5, <3>1 DEF UpsertStores
    <3>3. \A i \in DOMAIN pvMem.profiles : pvMem.profiles[i].name # p.name /\ pvMem.profiles[i].id # p.id
      BY <2>5 DEF NameTaken, Known
    <3>4. Coherent(next, pvCount'.made)
      BY <1>0, <1>1, <2>2, <3>1, <3>3, CoherentAppended
    <3> QED BY <1>3, <3>2, <3>4
  <2> QED BY <2>3, <2>4, <2>5
<1>5. ASSUME NEW id, DeleteProfile(id) PROVE ListsHeld'
  <2>1. PICK next : next = [profiles |-> RemoveAt(pvMem.profiles, PlaceOf(id)),
                            active |-> [t \in AgentTarget |-> IF pvMem.active[t] = id THEN 0 ELSE pvMem.active[t]]]
    OBVIOUS
  <2>2. Save(next) /\ Known(id)
    BY <1>5, <2>1 DEF DeleteProfile
  <2>3. PlaceOf(id) \in DOMAIN pvMem.profiles /\ pvMem.profiles[PlaceOf(id)].id = id
    BY <2>2 DEF Known, PlaceOf
  <2>4. Coherent(next, pvCount'.made)
    BY <1>0, <1>1, <2>1, <2>3, CoherentRemoved
  <2> QED BY <1>3, <2>2, <2>4
<1>6. ASSUME NEW id, NEW name \in Name, DuplicateProfile(id, name) PROVE ListsHeld'
  <2>1. PICK p : p = [ProfileOf(id) EXCEPT !.id = pvCount.made + 1, !.name = name]
    OBVIOUS
  <2>2. pvCount'.made = pvCount.made + 1
    <3>1. pvCount' = [pvCount EXCEPT !["made"] = @ + 1]
      BY <1>6 DEF DuplicateProfile, Count
    <3>2. pvCount \in [made : 0 .. MaxProfiles, typed : 0 .. MaxSecret, activations : Nat]
      BY DEF ProvidersTyped, CountTyped
    <3> QED BY <3>1, <3>2
  <2>3. PICK next : next = [pvMem EXCEPT !.profiles = Append(@, p)]
    OBVIOUS
  <2>4. Save(next) /\ Known(id) /\ ~NameTaken(name, 0)
    BY <1>6, <2>1, <2>3 DEF DuplicateProfile
  <2>5. p \in Profile /\ p.id = pvCount'.made /\ p.name = name
    <3>1. ProfileOf(id) \in Profile
      BY <1>0, <2>4, HeldProfile
    <3>2. pvCount.made + 1 \in 1 .. MaxProfiles
      BY <1>0, <2>2, Numbers
    <3>3. PICK q, n : q = ProfileOf(id) /\ n = pvCount.made + 1 /\ p = [q EXCEPT !.id = n, !.name = name]
      BY <2>1
    <3> QED BY <2>2, <3>1, <3>2, <3>3 DEF Profile
  <2>6. \A i \in DOMAIN pvMem.profiles : pvMem.profiles[i].name # name /\ pvMem.profiles[i].id # p.id
    <3> SUFFICES ASSUME NEW i \in DOMAIN pvMem.profiles PROVE pvMem.profiles[i].name # name /\ pvMem.profiles[i].id # p.id
      OBVIOUS
    <3>1. pvMem.profiles \in Seq(Profile) /\ pvMem.profiles[i].id <= pvCount.made
      BY <1>0 DEF ListsHeld, Coherent, UpTo, Lists
    <3>2. pvMem.profiles[i] \in Profile
      BY <3>1
    <3>3. pvMem.profiles[i].id \in 1 .. MaxProfiles
      BY <3>2, ProfileFields
    <3> QED BY <1>0, <2>2, <2>4, <2>5, <3>1, <3>3, Numbers DEF NameTaken
  <2>7. Coherent(next, pvCount'.made)
    BY <1>0, <1>1, <2>3, <2>5, <2>6, CoherentAppended
  <2> QED BY <1>3, <2>4, <2>7
<1>7. ASSUME NEW i \in 1 .. MaxProfiles, NEW j \in 1 .. MaxProfiles, ReorderProfiles(i, j) PROVE ListsHeld'
  <2>1. PICK next : next = [pvMem EXCEPT !.profiles = [@ EXCEPT ![i] = pvMem.profiles[j], ![j] = pvMem.profiles[i]]]
    OBVIOUS
  <2>2. Save(next) /\ i < j /\ j <= Len(pvMem.profiles)
    BY <1>7, <2>1 DEF ReorderProfiles
  <2>3. i \in DOMAIN pvMem.profiles /\ j \in DOMAIN pvMem.profiles /\ i # j
    <3>1. pvMem.profiles \in Seq(Profile)
      BY <1>0 DEF ListsHeld, Coherent, Lists
    <3> QED BY <2>2, <3>1, Numbers
  <2>4. Coherent(next, pvCount'.made)
    BY <1>0, <1>1, <2>1, <2>3, CoherentSwapped
  <2> QED BY <1>3, <2>2, <2>4
<1>8. ASSUME NEW r \in Request, SetActive(r) PROVE ListsHeld'
  <2>1. PICK id : id = Head(pvCall[r].profile).id
    OBVIOUS
  <2>2. CASE ~Known(id)
    BY <1>2, <1>8, <2>1, <2>2 DEF SetActive
  <2>3. CASE Known(id)
    <3>1. PICK next : next = [pvMem EXCEPT !.active[pvCall[r].target] = id]
      OBVIOUS
    <3>2. Save(next) /\ pvCall[r].target \in AgentTarget
      BY <1>0, <1>8, <2>1, <2>3, <3>1 DEF SetActive, IsRequest, CallAt
    <3>3. Coherent(next, pvCount'.made)
      <4>1. id \in 1 .. MaxProfiles /\ Has(pvMem.profiles, id)
        BY <1>0, <2>3, HeldProfile
      <4> QED BY <1>0, <1>1, <3>1, <3>2, <4>1, CoherentActivated
    <3> QED BY <1>3, <3>2, <3>3
  <2> QED BY <2>2, <2>3
<1>9. ASSUME ProvidersRestart PROVE ListsHeld'
  BY <1>1, <1>9 DEF ProvidersRestart, ListsHeld
<1>10. ASSUME NEW r \in Request, SyncReads(r) \/ SyncBacksUp(r) \/ SyncWrites(r) \/ PatchAuth(r) PROVE UNCHANGED Store
  BY <1>10 DEF SyncReads, SyncBacksUp, SyncWrites, PatchAuth
<1>11. ASSUME \/ \E r \in Request : \E p, typed : UpsertReads(r, p, typed)
              \/ \E r \in Request : \E first, second : ImportsLive(r, first, second)
              \/ \E r \in Request : \E names, secret, sync : ImportReads(r, names, secret, sync)
              \/ \E r \in Request : \E id, target, force : ActivationReads(r, id, target, force)
              \/ \E f, broken : UserEditsLive(f, broken)
       PROVE  UNCHANGED Store
  BY <1>11 DEF UpsertReads, ImportsLive, ImportReads, ActivationReads, UserEditsLive
<1> QED BY <1>2, <1>4, <1>5, <1>6, <1>7, <1>8, <1>9, <1>10, <1>11 DEF ProvidersNext

\* A request stays well-formed when more numbers have been handed out.
LEMMA LaterRequest ==
  ASSUME NEW x, NEW m \in Nat, NEW n \in Nat, m <= n, IsRequest(x, m)
  PROVE  IsRequest(x, n)
<1>1. \A i \in DOMAIN x.profile : x.profile[i].id \in Nat
  <2>1. x.profile \in Seq(Profile)
    BY DEF IsRequest
  <2>2. \A i \in DOMAIN x.profile : x.profile[i] \in Profile
    BY <2>1
  <2> QED BY <2>2, ProfileFields, Numbers
<1>2. UpTo(x.profile, n)
  <2>1. UpTo(x.profile, m)
    BY DEF IsRequest
  <2> QED BY <1>1, <2>1 DEF UpTo
<1> QED BY <1>2 DEF IsRequest

\* A request that waits is well-formed.
LEMMA WaitingRequest == \A made \in Nat : IsRequest(Waiting, made)
<1>1. << >> \in Seq(Profile) /\ << >> \in Seq(LiveFile) /\ Len(<< >>) = 0 /\ \A made : UpTo(<< >>, made)
  BY DEF UpTo
<1>2. NoFile \in LiveContent
  BY Numbers DEF NoFile, LiveContent
<1> QED BY <1>1, <1>2 DEF Waiting, IsRequest, RequestField, Steps

\* One request moves to a well-formed state, the others stay as they are.
LEMMA RequestGoes ==
  ASSUME RequestsTyped, NEW r \in Request, NEW x, IsRequest(x, pvCount'.made), pvCall' = [pvCall EXCEPT ![r] = x],
         pvCount.made \in Nat, pvCount'.made \in Nat, pvCount.made <= pvCount'.made
  PROVE  RequestsTyped'
<1>1. pvCall' = [q \in Request |-> IF q = r THEN x ELSE pvCall[q]]
  BY DEF RequestsTyped
<1>2. \A q \in Request : IsRequest(pvCall'[q], pvCount'.made)
  BY <1>1, LaterRequest DEF RequestsTyped
<1> QED BY <1>1, <1>2 DEF RequestsTyped

\* A target in use has its files among those that are modelled.
LEMMA FilesOfTarget ==
  ASSUME NEW target \in AgentTarget
  PROVE  /\ target = "claude" => "settings" \in LiveFile
         /\ target = "codex" => "auth" \in LiveFile /\ "config" \in LiveFile
         /\ target \in {"claude", "codex", "secretary"}
BY ProviderConstants DEF LiveFile, FilesOf

\* A request that starts with profiles to store.
LEMMA Upserting ==
  ASSUME NEW ps \in Seq(Profile), ps # << >>, NEW made \in Nat, UpTo(ps, made)
  PROVE  IsRequest([Waiting EXCEPT !.at = "upsert", !.profile = ps], made)
<1>1. IsRequest(Waiting, made)
  BY WaitingRequest
<1>2. PICK w : w = Waiting /\ IsRequest(w, made)
  BY <1>1
<1>3. IsRequest([w EXCEPT !.at = "upsert", !.profile = ps], made)
  <2>1. w = [field \in RequestField |-> w[field]]
    BY <1>2 DEF IsRequest
  <2>2. PICK x : x = [w EXCEPT !.at = "upsert", !.profile = ps]
    OBVIOUS
  <2>3. /\ x = [field \in RequestField |-> x[field]] /\ x.at = "upsert" /\ x.profile = ps
        /\ x.left = w.left /\ x.read = w.read
    BY <2>1, <2>2 DEF RequestField
  <2>4. w.left \in Seq(LiveFile) /\ Len(w.left) <= 2 /\ w.read \in LiveContent
    BY <1>2 DEF IsRequest
  <2> QED BY <2>2, <2>3, <2>4 DEF IsRequest, Steps
<1> QED BY <1>2, <1>3

\* Every step leaves every request well-formed.
LEMMA RequestsStep == ProvidersTyped /\ ProvidersNext => RequestsTyped'
<1> SUFFICES ASSUME ProvidersTyped, ProvidersNext PROVE RequestsTyped'
  OBVIOUS
<1>0. /\ ListsHeld /\ pvCount.made \in Nat /\ pvCount'.made \in Nat /\ pvCount.made <= pvCount'.made /\ pvCount'.made <= MaxProfiles
      /\ RequestsTyped /\ (\A r \in Request : IsRequest(pvCall[r], pvCount.made)) /\ pvLive \in [LiveFile -> LiveContent]
      /\ MaxProfiles \in Nat /\ pvCount \in [made : 0 .. MaxProfiles, typed : 0 .. MaxSecret, activations : Nat]
  BY CountStep, Numbers DEF ProvidersTyped, CountTyped, RequestsTyped, FilesTyped
<1>1. ASSUME UNCHANGED pvCall PROVE RequestsTyped'
  <2>1. \A r \in Request : IsRequest(pvCall[r], pvCount'.made)
    BY <1>0, LaterRequest
  <2> QED BY <1>0, <1>1, <2>1 DEF RequestsTyped
<1>2. ASSUME NEW r \in Request, NEW x, IsRequest(x, pvCount'.made), pvCall' = [pvCall EXCEPT ![r] = x] PROVE RequestsTyped'
  BY <1>0, <1>2, RequestGoes
<1>3. ASSUME NEW r \in Request, Answer(r) PROVE RequestsTyped'
  BY <1>0, <1>2, <1>3, WaitingRequest DEF Answer
<1>4. ASSUME NEW r \in Request, NEW ps \in Seq(Profile), ps # << >>, UpTo(ps, pvCount'.made),
             pvCall' = [pvCall EXCEPT ![r] = [Waiting EXCEPT !.at = "upsert", !.profile = ps]]
      PROVE  RequestsTyped'
  BY <1>0, <1>2, <1>4, Upserting
<1>5. ASSUME NEW r \in Request, NEW id \in 1 .. MaxProfiles, NEW name \in Name, NEW secret \in Secret, NEW sync \in SyncChoice,
             NEW typed \in BOOLEAN, UpsertReads(r, [id |-> id, name |-> name, secret |-> secret, sync |-> sync], typed)
      PROVE  RequestsTyped'
  <2>1. PICK p : p = [id |-> id, name |-> name, secret |-> secret, sync |-> sync]
    OBVIOUS
  <2>2. p \in Profile /\ p.id = id
    BY <2>1, ProviderConstants DEF Profile
  <2>3. UpsertReads(r, p, typed)
    BY <1>5, <2>1
  <2>4. PICK q : q = Merged(p)
    OBVIOUS
  <2>5. q \in Profile /\ q.id = id
    <3>1. CASE q = p
      BY <2>2, <3>1
    <3>2. CASE Known(p.id) /\ q = [p EXCEPT !.secret = ProfileOf(p.id).secret]
      <4>1. ProfileOf(p.id).secret \in Secret
        BY <1>0, <3>2, HeldProfile, ProfileFields
      <4> QED BY <2>2, <3>2, <4>1 DEF Profile
    <3> QED BY <2>4, <3>1, <3>2 DEF Merged
  <2>6. id <= pvCount'.made
    <3>1. pvCount'.made = IF id > pvCount.made THEN pvCount.made + 1 ELSE pvCount.made
      BY <1>0, <2>2, <2>3 DEF UpsertReads
    <3>2. id \in 1 .. pvCount.made \/ id = pvCount.made + 1
      BY <2>2, <2>3 DEF UpsertReads
    <3> QED BY <1>0, <3>1, <3>2
  <2>7. << q >> \in Seq(Profile) /\ << q >> # << >> /\ UpTo(<< q >>, pvCount'.made)
    BY <2>5, <2>6 DEF UpTo
  <2>8. pvCall' = [pvCall EXCEPT ![r] = [Waiting EXCEPT !.at = "upsert", !.profile = << q >>]]
    BY <2>3, <2>4 DEF UpsertReads
  <2> QED BY <1>4, <2>7, <2>8
<1>6. ASSUME NEW r \in Request, NEW first \in Name, NEW second \in Name, NEW sync \in SyncChoice,
             ImportReads(r, << first, second >>, MaskedSecret, sync)
      PROVE  RequestsTyped'
  <2>1. PICK names : names = << first, second >>
    OBVIOUS
  <2>2. Len(names) = 2 /\ DOMAIN names = 1 .. 2 /\ \A i \in 1 .. 2 : names[i] \in Name
    BY <2>1
  <2>3. PICK ps : ps = [i \in DOMAIN names |-> [id |-> pvCount.made + i, name |-> names[i], secret |-> MaskedSecret, sync |-> sync]]
    OBVIOUS
  <2>4. pvCount'.made = pvCount.made + 2
    BY <1>0, <1>6, <2>1, <2>2 DEF ImportReads
  <2>5. \A i \in 1 .. 2 : [id |-> pvCount.made + i, name |-> names[i], secret |-> MaskedSecret, sync |-> sync] \in Profile
    BY <1>0, <2>2, <2>4, Numbers, ProviderConstants DEF Profile
  <2>6. ps \in [1 .. 2 -> Profile] /\ \A i \in 1 .. 2 : ps[i].id <= pvCount'.made
    BY <1>0, <2>2, <2>3, <2>4, <2>5
  <2>7. ps \in Seq(Profile) /\ DOMAIN ps = 1 .. 2 /\ ps # << >>
    <3>1. ps \in Seq(Profile)
      BY <2>6, SeqDef
    <3>2. DOMAIN ps = 1 .. 2
      BY <2>6
    <3>3. 1 \in DOMAIN ps /\ DOMAIN << >> = 1 .. 0
      BY <3>2
    <3> QED BY <3>1, <3>2, <3>3
  <2>8. pvCall' = [pvCall EXCEPT ![r] = [Waiting EXCEPT !.at = "upsert", !.profile = ps]]
    BY <1>6, <2>1, <2>3 DEF ImportReads
  <2> QED BY <1>4, <2>6, <2>7, <2>8 DEF UpTo
<1>7. ASSUME NEW r \in Request, NEW first \in Name, NEW second \in Name, ImportsLive(r, first, second) PROVE RequestsTyped'
  <2>1. SecretIn("settings") \in Secret /\ SecretIn("auth") \in Secret
    BY <1>0, Numbers DEF SecretIn, LiveContent
  <2>2. PICK p, q : /\ p = [id |-> pvCount.made + 1, name |-> first, secret |-> SecretIn("settings"), sync |-> FALSE]
                    /\ q = [id |-> pvCount.made + 2, name |-> second, secret |-> SecretIn("auth"), sync |-> FALSE]
    OBVIOUS
  <2>3. pvCount'.made = pvCount.made + 2
    BY <1>0, <1>7 DEF ImportsLive
  <2>4. p \in Profile /\ q \in Profile /\ p.id <= pvCount'.made /\ q.id <= pvCount'.made
    BY <1>0, <2>1, <2>2, <2>3 DEF Profile
  <2>5. << p, q >> \in Seq(Profile) /\ << p, q >> # << >> /\ UpTo(<< p, q >>, pvCount'.made)
    BY <2>4 DEF UpTo
  <2>6. pvCall' = [pvCall EXCEPT ![r] = [Waiting EXCEPT !.at = "upsert", !.profile = << p, q >>]]
    BY <1>7, <2>2 DEF ImportsLive
  <2> QED BY <1>4, <2>5, <2>6
<1>8. ASSUME NEW r \in Request, NEW id, NEW target \in AgentTarget, NEW force, ActivationReads(r, id, target, force) PROVE RequestsTyped'
  <2>1. PICK p, files : /\ p = ProfileOf(id) /\ files \in {<< >>, << "settings" >>, << "auth" >>, << "auth", "config" >>}
                        /\ (target \notin {"claude", "codex"} => files = << >>)
                        /\ (target = "claude" => files \in {<< >>, << "settings" >>})
                        /\ (target = "codex" => files # << "settings" >>)
                        /\ Known(id)
                        /\ pvCall' = [pvCall EXCEPT ![r] = [Waiting EXCEPT !.at = "read", !.profile = << p >>, !.target = target,
                                                                          !.left = files, !.force = force]]
    <3>1. target \in {"claude", "codex", "secretary"}
      BY FilesOfTarget
    <3> QED BY <1>8, <3>1 DEF ActivationReads
  <2>2. p \in Profile /\ p.id <= pvCount'.made
    <3>1. PlaceOf(id) \in DOMAIN pvMem.profiles /\ p \in Profile /\ p = pvMem.profiles[PlaceOf(id)]
      BY <1>0, <2>1, HeldProfile DEF ProfileOf
    <3>2. p.id <= pvCount.made /\ p.id \in Nat
      BY <1>0, <3>1, ProfileFields, Numbers DEF ListsHeld, Coherent, UpTo
    <3> QED BY <1>0, <3>1, <3>2
  <2>3. << p >> \in Seq(Profile) /\ << p >> # << >> /\ UpTo(<< p >>, pvCount'.made)
    BY <2>2 DEF UpTo
  <2>4. files \in Seq(LiveFile) /\ Len(files) <= 2
    <3>1. CASE files = << >>
      BY <3>1
    <3>2. CASE files = << "settings" >>
      <4>1. "settings" \in LiveFile
        BY <2>1, <3>2, FilesOfTarget
      <4> QED BY <3>2, <4>1
    <3>3. CASE files \in {<< "auth" >>, << "auth", "config" >>}
      <4>1. "auth" \in LiveFile /\ "config" \in LiveFile
        BY <2>1, <3>3, FilesOfTarget
      <4>2. CASE files = << "auth" >>
        BY <4>1, <4>2
      <4>3. CASE files = << "auth", "config" >>
        BY <4>1, <4>3
      <4> QED BY <3>3, <4>2, <4>3
    <3> QED BY <2>1, <3>1, <3>2, <3>3
  <2>5. PICK w : w = Waiting /\ IsRequest(w, pvCount'.made)
    BY <1>0, WaitingRequest
  <2>6. PICK x : x = [w EXCEPT !.at = "read", !.profile = << p >>, !.target = target, !.left = files, !.force = force]
    OBVIOUS
  <2>7. w = [field \in RequestField |-> w[field]] /\ w.read \in LiveContent
    BY <2>5 DEF IsRequest
  <2>8. /\ x = [field \in RequestField |-> x[field]] /\ x.at = "read" /\ x.profile = << p >> /\ x.target = target
        /\ x.left = files /\ x.read = w.read
    BY <2>6, <2>7 DEF RequestField
  <2>9. IsRequest(x, pvCount'.made)
    BY <2>3, <2>4, <2>7, <2>8 DEF IsRequest, Steps
  <2> QED BY <1>2, <2>1, <2>5, <2>6, <2>9
<1>9. ASSUME NEW r \in Request, NEW x, pvCall' = [pvCall EXCEPT ![r] = x], UNCHANGED pvCount, x = [field \in RequestField |-> x[field]],
             x.at \in Steps \ {"idle"}, x.profile = pvCall[r].profile, x.target = pvCall[r].target, x.read \in LiveContent,
             x.left \in Seq(LiveFile), Len(x.left) <= 2, x.at \in {"backup", "write"} => x.left # << >>,
             pvCall[r].at \in {"read", "backup", "write", "activate"}
      PROVE  RequestsTyped'
  <2>1. IsRequest(x, pvCount.made)
    <3>1. IsRequest(pvCall[r], pvCount.made)
      BY <1>0
    <3> QED BY <1>9, <3>1 DEF IsRequest, Steps
  <2> QED BY <1>2, <1>9, <2>1
<1>10. ASSUME NEW r \in Request, SyncReads(r) PROVE RequestsTyped'
  <2>1. CASE Answer(r)
    BY <1>3, <2>1
  <2>2. CASE ~Answer(r)
    <3>1. PICK file : file = pvLive[Head(pvCall[r].left)]
      OBVIOUS
    <3>2. PICK read : /\ read \in {file, [NoFile EXCEPT !.there = TRUE]}
                      /\ pvCall' = [pvCall EXCEPT ![r].at = "backup", ![r].read = read]
      BY <1>10, <2>2, <3>1 DEF SyncReads
    <3>3. IsRequest(pvCall[r], pvCount.made) /\ pvCall[r].left # << >> /\ pvCall[r].at = "read" /\ UNCHANGED pvCount
      BY <1>0, <1>10 DEF SyncReads, CallAt
    <3>4. Head(pvCall[r].left) \in LiveFile
      BY <3>3 DEF IsRequest
    <3>5. read \in LiveContent
      <4>1. [NoFile EXCEPT !.there = TRUE] \in LiveContent
        BY Numbers DEF NoFile, LiveContent
      <4>2. file \in LiveContent
        BY <1>0, <3>1, <3>4
      <4> QED BY <3>2, <4>1, <4>2
    <3>6. PICK x : x = [pvCall[r] EXCEPT !.at = "backup", !.read = read]
      OBVIOUS
    <3>7. pvCall' = [pvCall EXCEPT ![r] = x]
      BY <1>0, <3>2, <3>6 DEF RequestsTyped
    <3>8. /\ x = [field \in RequestField |-> x[field]] /\ x.at = "backup" /\ x.profile = pvCall[r].profile
          /\ x.target = pvCall[r].target /\ x.left = pvCall[r].left /\ x.read = read
      BY <3>3, <3>6 DEF IsRequest, RequestField
    <3>9. pvCall[r].left \in Seq(LiveFile) /\ Len(pvCall[r].left) <= 2
      BY <3>3 DEF IsRequest
    <3> QED BY <1>9, <3>3, <3>5, <3>7, <3>8, <3>9 DEF Steps
  <2> QED BY <2>1, <2>2
<1>11. ASSUME NEW r \in Request, NEW place \in {"write", "activate"}, CallGoes(r, place), UNCHANGED pvCount,
              \/ pvCall[r].at = "backup"
              \/ pvCall[r].at = "read" /\ place = "activate"
       PROVE  RequestsTyped'
  <2>1. IsRequest(pvCall[r], pvCount.made)
    BY <1>0
  <2>2. PICK x : x = [pvCall[r] EXCEPT !.at = place]
    OBVIOUS
  <2>3. pvCall' = [pvCall EXCEPT ![r] = x]
    BY <1>11, <2>2 DEF CallGoes
  <2>4. /\ x = [field \in RequestField |-> x[field]] /\ x.at = place /\ x.profile = pvCall[r].profile
        /\ x.target = pvCall[r].target /\ x.left = pvCall[r].left /\ x.read = pvCall[r].read
    BY <2>1, <2>2 DEF IsRequest, RequestField
  <2>5. /\ pvCall[r].left \in Seq(LiveFile) /\ Len(pvCall[r].left) <= 2 /\ pvCall[r].read \in LiveContent
        /\ (pvCall[r].at = "backup" => pvCall[r].left # << >>)
    BY <2>1 DEF IsRequest
  <2> QED BY <1>9, <1>11, <2>3, <2>4, <2>5 DEF Steps
<1>12. ASSUME NEW r \in Request, SyncBacksUp(r) PROVE RequestsTyped'
  BY <1>11, <1>12 DEF SyncBacksUp, CallAt
<1>13. ASSUME NEW r \in Request, PatchAuth(r) PROVE RequestsTyped'
  <2>1. CASE Answer(r)
    BY <1>3, <2>1
  <2>2. CASE CallGoes(r, "activate")
    BY <1>11, <1>13, <2>2 DEF PatchAuth, CallAt
  <2> QED BY <1>13, <2>1, <2>2 DEF PatchAuth
<1>14. ASSUME NEW r \in Request, SyncWrites(r) PROVE RequestsTyped'
  <2>1. IsRequest(pvCall[r], pvCount.made) /\ pvCall[r].at = "write" /\ UNCHANGED pvCount
    BY <1>0, <1>14 DEF SyncWrites, CallAt
  <2>2. /\ pvCall[r].left \in Seq(LiveFile) /\ Len(pvCall[r].left) <= 2 /\ pvCall[r].left # << >> /\ pvCall[r].read \in LiveContent
        /\ pvCall[r] = [field \in RequestField |-> pvCall[r][field]]
    BY <2>1 DEF IsRequest
  <2>3. PICK rest : rest = Tail(pvCall[r].left)
    OBVIOUS
  <2>4. rest \in Seq(LiveFile) /\ Len(rest) <= 2
    BY <2>2, <2>3
  <2>5. PICK x : x = [pvCall[r] EXCEPT !.at = "read", !.left = rest]
    OBVIOUS
  <2>6. pvCall' = [pvCall EXCEPT ![r] = x]
    BY <1>0, <1>14, <2>3, <2>5 DEF SyncWrites, RequestsTyped
  <2>7. /\ x = [field \in RequestField |-> x[field]] /\ x.at = "read" /\ x.profile = pvCall[r].profile
        /\ x.target = pvCall[r].target /\ x.left = rest /\ x.read = pvCall[r].read
    BY <2>2, <2>5 DEF RequestField
  <2> QED BY <1>9, <2>1, <2>2, <2>4, <2>6, <2>7 DEF Steps
<1>15. ASSUME NEW r \in Request, UpsertStores(r) PROVE RequestsTyped'
  <2>1. CASE Answer(r)
    BY <1>3, <2>1
  <2>2. CASE Len(pvCall[r].profile) > 1 /\ pvCall' = [pvCall EXCEPT ![r].profile = Tail(@)]
    <3>1. IsRequest(pvCall[r], pvCount.made) /\ pvCall[r].at = "upsert" /\ UNCHANGED pvCount
      BY <1>0, <1>15 DEF UpsertStores, CallAt
    <3>2. PICK ps : ps = pvCall[r].profile
      OBVIOUS
    <3>3. ps \in Seq(Profile) /\ UpTo(ps, pvCount.made) /\ Len(ps) > 1
      BY <2>2, <3>1, <3>2 DEF IsRequest
    <3>4. PICK rest : rest = Tail(ps)
      OBVIOUS
    <3>5. rest \in Seq(Profile) /\ rest # << >> /\ UpTo(rest, pvCount.made)
      <4>1. rest \in Seq(Profile) /\ Len(rest) = Len(ps) - 1 /\ \A i \in 1 .. Len(rest) : rest[i] = ps[i + 1]
        BY <3>3, <3>4
      <4>2. UpTo(rest, pvCount.made)
        BY <3>3, <4>1, SMTT(30) DEF UpTo
      <4>3. Len(rest) > 0 /\ Len(<< >>) = 0
        BY <3>3, <4>1
      <4> QED BY <4>1, <4>2, <4>3
    <3>6. PICK x : x = [pvCall[r] EXCEPT !.profile = rest]
      OBVIOUS
    <3>7. pvCall' = [pvCall EXCEPT ![r] = x]
      BY <2>2, <3>2, <3>4, <3>6
    <3>8. /\ x = [field \in RequestField |-> x[field]] /\ x.at = "upsert" /\ x.profile = rest
          /\ x.target = pvCall[r].target /\ x.left = pvCall[r].left /\ x.read = pvCall[r].read
      BY <3>1, <3>6 DEF IsRequest, RequestField
    <3>9. IsRequest(x, pvCount.made)
      BY <3>1, <3>5, <3>8 DEF IsRequest, Steps
    <3> QED BY <1>2, <3>1, <3>7, <3>9
  <2> QED BY <1>15, <2>1, <2>2 DEF UpsertStores
<1>16. ASSUME ProvidersRestart PROVE RequestsTyped'
  <2>1. pvCall' = [r \in Request |-> Waiting]
    BY <1>16 DEF ProvidersRestart
  <2>2. IsRequest(Waiting, pvCount'.made)
    BY <1>0, WaitingRequest
  <2> QED BY <2>1, <2>2 DEF RequestsTyped
<1>17. ASSUME NEW r \in Request, SetActive(r) PROVE RequestsTyped'
  BY <1>3, <1>17 DEF SetActive
<1>18. ASSUME \/ \E id, name : DuplicateProfile(id, name)
              \/ \E id : DeleteProfile(id)
              \/ \E i, j : ReorderProfiles(i, j)
              \/ \E f, broken : UserEditsLive(f, broken)
       PROVE  UNCHANGED pvCall
  BY <1>18 DEF DuplicateProfile, DeleteProfile, ReorderProfiles, UserEditsLive
<1> QED BY <1>1, <1>5, <1>6, <1>7, <1>8, <1>10, <1>12, <1>13, <1>14, <1>15, <1>16, <1>17, <1>18 DEF ProvidersNext

\* A rotated list of backups: the new one is last, the older ones stay until
\* the directory is full, and it stays full.
LEMMA RotatedBackups ==
  ASSUME NEW b \in Seq(LiveContent), NEW x \in LiveContent, Len(b) <= BackupKeep, NEW c, c = Rotated(Append(b, x))
  PROVE  /\ c \in Seq(LiveContent) /\ Len(c) <= BackupKeep
         /\ \E i \in DOMAIN c : c[i] = x
         /\ Len(b) = BackupKeep => Len(c) = BackupKeep
         /\ Len(b) < BackupKeep => \A i \in DOMAIN b : \E j \in DOMAIN c : c[j] = b[i]
<1>0. PICK n \in Nat, k \in Nat \ {0} : n = Len(b) /\ k = BackupKeep /\ n <= k /\ DOMAIN b = 1 .. n
  BY Numbers
<1>1. PICK a : a = Append(b, x)
  OBVIOUS
<1>2. a \in Seq(LiveContent) /\ Len(a) = n + 1 /\ a[n + 1] = x /\ \A i \in 1 .. n : a[i] = b[i]
  BY <1>0, <1>1, AppendProperties
<1>3. PICK m \in 1 .. n + 1 : m = Max({1, (n + 1) - k + 1}) /\ (n < k => m = 1) /\ (n = k => m = 2)
  <2>1. n = k \/ n < k
    BY <1>0
  <2>2. CASE n = k
    <3>1. (n + 1) - k + 1 = 2
      BY <2>2
    <3>2. Max({1, 2}) = 2
      BY DEF Max
    <3> QED BY <1>0, <2>2, <3>1, <3>2
  <2>3. CASE n < k
    <3>1. PICK z : z = (n + 1) - k + 1 /\ z \in Int /\ z <= 1
      BY <1>0, <2>3
    <3>2. Max({1, z}) = 1
      BY <3>1 DEF Max
    <3> QED BY <1>0, <2>3, <3>1, <3>2
  <2> QED BY <2>1, <2>2, <2>3
<1>4. c = SubSeq(a, m, n + 1)
  <2>1. c = SubSeq(a, Max({1, Len(a) - BackupKeep + 1}), Len(a))
    BY <1>1 DEF Rotated
  <2>2. Len(a) - BackupKeep + 1 = (n + 1) - k + 1
    BY <1>0, <1>2
  <2> QED BY <1>2, <1>3, <2>1, <2>2
<1>5. \A i \in m .. n + 1 : a[i] \in LiveContent
  BY <1>2
<1>6. /\ c \in Seq(LiveContent) /\ Len(c) = (n + 1) - m + 1
      /\ \A i \in 1 .. (n + 1) - m + 1 : c[i] = a[m + i - 1]
  <2>1. PICK e \in Nat : e = n + 1
    OBVIOUS
  <2>2. m \in Nat /\ m >= 1 /\ m <= e
    BY <1>3, <2>1
  <2>3. /\ c \in Seq(LiveContent) /\ Len(c) = IF m <= e THEN e - m + 1 ELSE 0
        /\ \A i \in 1 .. e - m + 1 : c[i] = a[m + i - 1]
    BY <1>4, <1>5, <2>1, <2>2, SubSeqProperties
  <2> QED BY <2>1, <2>2, <2>3
<1>7. DOMAIN c = 1 .. n - m + 2
  BY <1>3, <1>6
<1>8. Len(c) <= k /\ (n = k => Len(c) = k)
  BY <1>0, <1>3, <1>6
<1>9. n - m + 2 \in DOMAIN c /\ c[n - m + 2] = x
  <2>1. n - m + 2 \in 1 .. (n + 1) - m + 1 /\ m + (n - m + 2) - 1 = n + 1
    BY <1>3
  <2> QED BY <1>2, <1>6, <1>7, <2>1
<1>10. n < k => \A i \in 1 .. n : i \in DOMAIN c /\ c[i] = b[i]
  <2> SUFFICES ASSUME n < k, NEW i \in 1 .. n PROVE i \in DOMAIN c /\ c[i] = b[i]
    OBVIOUS
  <2>1. m = 1 /\ i \in 1 .. (n + 1) - m + 1 /\ m + i - 1 = i
    BY <1>3
  <2> QED BY <1>2, <1>6, <1>7, <2>1
<1> QED BY <1>0, <1>6, <1>8, <1>9, <1>10

\* Every step leaves the CLI files, their backups and the auth store within their types.
LEMMA FilesTypedStep == ProvidersTyped /\ ProvidersNext => FilesTyped'
<1> SUFFICES ASSUME ProvidersTyped, ProvidersNext PROVE FilesTyped'
  OBVIOUS
<1>0. FilesTyped /\ ListsHeld /\ CountTyped /\ (\A r \in Request : IsRequest(pvCall[r], pvCount.made)) /\ MaxFailures \in Nat /\ MaxSecret \in Nat
  BY Numbers DEF ProvidersTyped, RequestsTyped
<1>1. ASSUME UNCHANGED << pvAuth, pvFailed, Live >> PROVE FilesTyped'
  BY <1>0, <1>1 DEF FilesTyped, Live
<1>2. ASSUME NEW next, Save(next), UNCHANGED << pvAuth, Live >> PROVE FilesTyped'
  <2>1. pvFailed' \in 0 .. MaxFailures
    BY <1>0, <1>2 DEF Save, FilesTyped
  <2> QED BY <1>0, <1>2, <2>1 DEF FilesTyped, Live
<1>3. ASSUME NEW r \in Request, UpsertStores(r) \/ SetActive(r) PROVE FilesTyped'
  <2>1. UNCHANGED << pvAuth, Live >> /\ (UNCHANGED Store \/ \E next : Save(next))
    BY <1>3 DEF UpsertStores, SetActive
  <2> QED BY <1>1, <1>2, <2>1 DEF Store
<1>4. ASSUME (\E id : DeleteProfile(id)) \/ (\E id, name : DuplicateProfile(id, name)) \/ (\E i, j : ReorderProfiles(i, j))
      PROVE  FilesTyped'
  <2>1. UNCHANGED << pvAuth, Live >> /\ \E next : Save(next)
    BY <1>4 DEF DeleteProfile, DuplicateProfile, ReorderProfiles
  <2> QED BY <1>2, <2>1
<1>5. ASSUME NEW r \in Request, SyncBacksUp(r) PROVE FilesTyped'
  <2>1. pvCall[r].left # << >> /\ pvCall[r].left \in Seq(LiveFile)
    BY <1>0, <1>5 DEF SyncBacksUp, CallAt, IsRequest
  <2>2. PICK f \in LiveFile : f = Head(pvCall[r].left)
    BY <2>1
  <2>3. UNCHANGED << pvAuth, pvFailed, pvLive, pvTyped >>
    BY <1>5 DEF SyncBacksUp, Store
  <2>4. CASE pvBackups' = pvBackups
    BY <1>0, <2>3, <2>4 DEF FilesTyped
  <2>5. CASE pvBackups' = [pvBackups EXCEPT ![f] = Rotated(Append(@, pvLive[f]))]
    <3>1. PICK c : c = Rotated(Append(pvBackups[f], pvLive[f]))
      OBVIOUS
    <3>2. c \in Seq(LiveContent) /\ Len(c) <= BackupKeep
      <4>1. pvBackups[f] \in Seq(LiveContent) /\ pvLive[f] \in LiveContent /\ Len(pvBackups[f]) <= BackupKeep
        BY <1>0, <2>2 DEF FilesTyped
      <4> QED BY <3>1, <4>1, RotatedBackups
    <3>3. pvBackups' = [pvBackups EXCEPT ![f] = c] /\ pvBackups \in [LiveFile -> Seq(LiveContent)]
      BY <1>0, <2>5, <3>1 DEF FilesTyped
    <3>4. pvBackups' \in [LiveFile -> Seq(LiveContent)] /\ \A g \in LiveFile : pvBackups'[g] = IF g = f THEN c ELSE pvBackups[g]
      BY <3>2, <3>3
    <3> QED BY <1>0, <2>3, <3>2, <3>4 DEF FilesTyped
  <2> QED BY <1>5, <2>2, <2>4, <2>5 DEF SyncBacksUp
<1>6. ASSUME NEW r \in Request, SyncWrites(r) PROVE FilesTyped'
  <2>1. pvCall[r].left # << >> /\ pvCall[r].left \in Seq(LiveFile)
    BY <1>0, <1>6 DEF SyncWrites, CallAt, IsRequest
  <2>2. PICK f \in LiveFile : f = Head(pvCall[r].left)
    BY <2>1
  <2>3. PICK secret : secret = Head(pvCall[r].profile).secret
    OBVIOUS
  <2>4. secret \in Secret /\ pvCall[r].read \in LiveContent
    <3>1. pvCall[r].profile \in Seq(Profile) /\ pvCall[r].profile # << >> /\ pvCall[r].read \in LiveContent
      BY <1>0, <1>6 DEF SyncWrites, CallAt, IsRequest, Steps
    <3>2. Head(pvCall[r].profile) \in Profile
      BY <3>1
    <3> QED BY <2>3, <3>1, <3>2, ProfileFields
  <2>5. PICK x : x = [pvCall[r].read EXCEPT !.there = TRUE, !.secret = IF secret = 0 THEN @ ELSE secret]
    OBVIOUS
  <2>6. x \in LiveContent
    <3>1. PICK read, s : read = pvCall[r].read /\ s = (IF secret = 0 THEN read.secret ELSE secret) /\ x = [read EXCEPT !.there = TRUE, !.secret = s]
      BY <2>5
    <3>2. s \in Secret /\ read \in LiveContent
      BY <2>4, <3>1 DEF LiveContent
    <3> QED BY <3>1, <3>2 DEF LiveContent
  <2>7. pvLive' = [pvLive EXCEPT ![f] = x] /\ UNCHANGED << pvAuth, pvFailed, pvBackups, pvTyped >>
    BY <1>6, <2>2, <2>3, <2>5 DEF SyncWrites, Store
  <2>8. pvLive' \in [LiveFile -> LiveContent]
    BY <1>0, <2>6, <2>7 DEF FilesTyped
  <2> QED BY <1>0, <2>7, <2>8 DEF FilesTyped
<1>7. ASSUME NEW r \in Request, PatchAuth(r) PROVE FilesTyped'
  <2>1. PICK id : id = Head(pvCall[r].profile).id
    OBVIOUS
  <2>2. UNCHANGED << pvFailed, Live >>
    BY <1>7 DEF PatchAuth, Store
  <2>3. CASE UNCHANGED pvAuth
    BY <1>1, <2>2, <2>3
  <2>4. CASE Known(id) /\ pvAuth' = [pvAuth EXCEPT ![pvCall[r].target] = ProfileOf(id).secret]
    <3>1. ProfileOf(id).secret \in Secret
      BY <1>0, <2>4, HeldProfile, ProfileFields
    <3>2. pvAuth' \in [AgentTarget -> Secret]
      BY <1>0, <2>4, <3>1 DEF FilesTyped
    <3> QED BY <1>0, <2>2, <3>2 DEF FilesTyped, Live
  <2> QED BY <1>7, <2>1, <2>3, <2>4 DEF PatchAuth
<1>8. ASSUME NEW f \in LiveFile, NEW broken \in BOOLEAN, UserEditsLive(f, broken) PROVE FilesTyped'
  <2>1. PICK n : n = pvCount'.typed
    OBVIOUS
  <2>2. n \in 0 .. MaxSecret
    BY <1>0, <1>8, <2>1 DEF UserEditsLive, Count, CountTyped
  <2>3. /\ pvLive' = [pvLive EXCEPT ![f].text = n, ![f].broken = broken, ![f].there = TRUE]
        /\ pvTyped' = [pvTyped EXCEPT ![f] = n] /\ UNCHANGED << pvAuth, pvFailed, pvBackups >>
    BY <1>8, <2>1 DEF UserEditsLive, Store
  <2>4. pvLive[f] \in LiveContent /\ pvLive \in [LiveFile -> LiveContent]
    BY <1>0 DEF FilesTyped
  <2>5. PICK x : x = [pvLive[f] EXCEPT !.text = n, !.broken = broken, !.there = TRUE]
    OBVIOUS
  <2>6. x \in LiveContent
    BY <2>2, <2>4, <2>5 DEF LiveContent
  <2>7. pvLive' = [pvLive EXCEPT ![f] = x]
    BY <2>3, <2>4, <2>5
  <2>8. pvLive' \in [LiveFile -> LiveContent]
    BY <2>4, <2>6, <2>7
  <2>9. pvTyped' \in [LiveFile -> 0 .. MaxSecret]
    BY <1>0, <2>2, <2>3 DEF FilesTyped
  <2> QED BY <1>0, <2>3, <2>8, <2>9 DEF FilesTyped
<1>9. ASSUME \/ \E r \in Request : SyncReads(r)
             \/ \E r \in Request : \E p, typed : UpsertReads(r, p, typed)
             \/ \E r \in Request : \E first, second : ImportsLive(r, first, second)
             \/ \E r \in Request : \E names, secret, sync : ImportReads(r, names, secret, sync)
             \/ \E r \in Request : \E id, target, force : ActivationReads(r, id, target, force)
             \/ ProvidersRestart
      PROVE  UNCHANGED << pvAuth, pvFailed, Live >>
  BY <1>9 DEF SyncReads, UpsertReads, ImportsLive, ImportReads, ActivationReads, ProvidersRestart, Store
<1> QED BY <1>1, <1>3, <1>4, <1>5, <1>6, <1>7, <1>8, <1>9 DEF ProvidersNext

\* What was typed last is in a backup, or the backups made since are many.
Safe(f) == \/ \E i \in DOMAIN pvBackups[f] : pvBackups[f][i].text = pvTyped[f]
           \/ Len(pvBackups[f]) = BackupKeep

\* What a request that writes without a further backup read holds it too.
ReadHeld(r) ==
  \/ pvCall[r].at = "write"
  \/ pvCall[r].at = "backup" /\ ~pvCall[r].read.there
  => LET f == Head(pvCall[r].left) IN pvTyped[f] = pvCall[r].read.text \/ Safe(f)

LiveHeld ==
  /\ \A f \in LiveFile : pvTyped[f] = pvLive[f].text \/ Safe(f)
  /\ \A r \in Request : ReadHeld(r)

\* No step but the user's own takes away what keeps a text.
LEMMA SafeStays ==
  ASSUME ProvidersTyped, ProvidersNext, UNCHANGED pvTyped, NEW f \in LiveFile, Safe(f)
  PROVE  Safe(f)'
<1>0. FilesTyped /\ (\A r \in Request : IsRequest(pvCall[r], pvCount.made))
  BY DEF ProvidersTyped, RequestsTyped
<1>1. ASSUME pvBackups'[f] = pvBackups[f] PROVE Safe(f)'
  BY <1>1 DEF Safe
<1>2. ASSUME NEW r \in Request, SyncBacksUp(r) PROVE Safe(f)'
  <2>1. PICK g : g = Head(pvCall[r].left)
    OBVIOUS
  <2>2. CASE pvBackups' = pvBackups
    BY <1>1, <2>2
  <2>3. CASE pvBackups' = [pvBackups EXCEPT ![g] = Rotated(Append(@, pvLive[g]))] /\ g # f
    <3>1. pvBackups'[f] = pvBackups[f]
      BY <1>0, <2>3 DEF FilesTyped
    <3> QED BY <1>1, <3>1
  <2>4. CASE pvBackups' = [pvBackups EXCEPT ![g] = Rotated(Append(@, pvLive[g]))] /\ g = f
    <3>1. PICK b, x, c : b = pvBackups[f] /\ x = pvLive[f] /\ c = Rotated(Append(b, x))
      OBVIOUS
    <3>2. b \in Seq(LiveContent) /\ x \in LiveContent /\ Len(b) <= BackupKeep
      BY <1>0, <3>1 DEF FilesTyped
    <3>3. c = Rotated(Append(b, x))
      BY <3>1
    <3>4. Len(b) = BackupKeep => Len(c) = BackupKeep
      BY <3>2, <3>3, RotatedBackups
    <3>5. Len(b) < BackupKeep => \A i \in DOMAIN b : \E j \in DOMAIN c : c[j] = b[i]
      BY <3>2, <3>3, RotatedBackups
    <3>6. pvBackups'[f] = c
      BY <1>0, <2>4, <3>1 DEF FilesTyped
    <3>7. CASE Len(b) = BackupKeep
      BY <3>6, <3>7, <3>4 DEF Safe
    <3>8. CASE Len(b) # BackupKeep
      <4>1. PICK i \in DOMAIN b : b[i].text = pvTyped[f]
        BY <3>1, <3>8 DEF Safe
      <4>2. Len(b) < BackupKeep
        BY <3>2, <3>8, Numbers
      <4>3. PICK j \in DOMAIN c : c[j] = b[i]
        BY <3>5, <4>1, <4>2
      <4> QED BY <3>6, <4>1, <4>3 DEF Safe
    <3> QED BY <3>7, <3>8
  <2> QED BY <1>2, <2>1, <2>2, <2>3, <2>4 DEF SyncBacksUp
<1>3. ASSUME \/ \E r \in Request : UpsertStores(r) \/ SyncReads(r) \/ SyncWrites(r) \/ PatchAuth(r) \/ SetActive(r)
             \/ \E r \in Request : \E p, typed : UpsertReads(r, p, typed)
             \/ \E r \in Request : \E first, second : ImportsLive(r, first, second)
             \/ \E r \in Request : \E names, secret, sync : ImportReads(r, names, secret, sync)
             \/ \E r \in Request : \E id, target, force : ActivationReads(r, id, target, force)
             \/ \E id, name : DuplicateProfile(id, name)
             \/ \E id : DeleteProfile(id)
             \/ \E i, j : ReorderProfiles(i, j)
             \/ \E g, broken : UserEditsLive(g, broken)
             \/ ProvidersRestart
      PROVE  UNCHANGED pvBackups
  BY <1>3 DEF UpsertStores, SyncReads, SyncWrites, PatchAuth, SetActive, UpsertReads, ImportsLive, ImportReads, ActivationReads,
              DuplicateProfile, DeleteProfile, ReorderProfiles, UserEditsLive, ProvidersRestart, Live
<1> QED BY <1>1, <1>2, <1>3 DEF ProvidersNext

\* A request that keeps its place, its file and what it read.
LEMMA ReadStays ==
  ASSUME ProvidersTyped, ProvidersNext, UNCHANGED pvTyped, NEW r \in Request, ReadHeld(r), pvCall'[r] = pvCall[r]
  PROVE  ReadHeld(r)'
<1> SUFFICES ASSUME pvCall[r].at = "write" \/ (pvCall[r].at = "backup" /\ ~pvCall[r].read.there)
             PROVE  \E f : f = Head(pvCall[r].left) /\ (pvTyped[f] = pvCall[r].read.text \/ Safe(f)')
  BY DEF ReadHeld, Safe
<1>1. pvCall[r].left # << >> /\ pvCall[r].left \in Seq(LiveFile)
  BY DEF ProvidersTyped, RequestsTyped, IsRequest
<1>2. PICK f \in LiveFile : f = Head(pvCall[r].left)
  BY <1>1
<1>3. pvTyped[f] = pvCall[r].read.text \/ Safe(f)
  BY <1>2 DEF ReadHeld
<1> QED BY <1>2, <1>3, SafeStays

\* No step loses what the user wrote: the backup is made of the file as it is, and a request
\* that writes without one read what the file held.
LEMMA LiveHeldStep ==
  ASSUME ProvidersTyped, LiveHeld, ProvidersNext
  PROVE  LiveHeld'
<1>0. /\ FilesTyped /\ CountTyped /\ pvCall = [r \in Request |-> pvCall[r]]
      /\ \A r \in Request : IsRequest(pvCall[r], pvCount.made) /\ ReadHeld(r)
  BY DEF ProvidersTyped, RequestsTyped, LiveHeld
<1> DEFINE FileHeld(f) == pvTyped[f] = pvLive[f].text \/ Safe(f)
<1>1. ASSUME NEW f \in LiveFile, UNCHANGED pvTyped, pvLive'[f].text = pvLive[f].text PROVE FileHeld(f)'
  BY <1>1, SafeStays DEF LiveHeld, Safe
<1>2. ASSUME UNCHANGED << pvTyped, pvLive, pvCall >> PROVE LiveHeld'
  <2>1. \A r \in Request : ReadHeld(r)'
    BY <1>0, <1>2, ReadStays
  <2> QED BY <1>1, <1>2, <2>1 DEF LiveHeld
\* A request moves and reads nothing new that it could write back.
<1>3. ASSUME UNCHANGED << pvTyped, pvLive >>, NEW r \in Request, NEW x, pvCall' = [pvCall EXCEPT ![r] = x],
             \/ x.at \notin {"write", "backup"} 
             \/ x.at = "backup" /\ x.read.there
             \/ x.at \in {"write", "backup"} /\ LET f == Head(x.left) IN pvTyped[f] = x.read.text \/ Safe(f)'
      PROVE  LiveHeld'
  <2>1. pvCall'[r] = x /\ \A q \in Request : q # r => pvCall'[q] = pvCall[q]
    BY <1>0, <1>3
  <2>2. ReadHeld(r)'
    BY <1>3, <2>1 DEF ReadHeld, Safe
  <2>3. \A q \in Request : ReadHeld(q)'
    BY <1>0, <1>3, <2>1, <2>2, ReadStays
  <2> QED BY <1>1, <1>3, <2>3 DEF LiveHeld
<1>4. ASSUME NEW r \in Request, Answer(r), UNCHANGED << pvTyped, pvLive >> PROVE LiveHeld'
  <2>1. Waiting.at = "idle"
    BY DEF Waiting
  <2> QED BY <1>3, <1>4, <2>1 DEF Answer
<1>5. ASSUME NEW r \in Request, UpsertStores(r) PROVE LiveHeld'
  <2>1. UNCHANGED << pvTyped, pvLive >>
    BY <1>5 DEF UpsertStores, Live
  <2>2. CASE Answer(r)
    BY <1>4, <2>1, <2>2
  <2>3. CASE pvCall' = [pvCall EXCEPT ![r].profile = Tail(@)]
    <3>1. PICK x : x = [pvCall[r] EXCEPT !.profile = Tail(@)]
      OBVIOUS
    <3>2. pvCall' = [pvCall EXCEPT ![r] = x]
      BY <2>3, <3>1
    <3>3. pvCall[r].at = "upsert" /\ pvCall[r] = [field \in RequestField |-> pvCall[r][field]]
      BY <1>0, <1>5 DEF UpsertStores, CallAt, IsRequest
    <3>4. x.at = "upsert"
      BY <3>1, <3>3 DEF RequestField
    <3> QED BY <1>3, <2>1, <3>2, <3>4
  <2> QED BY <1>5, <2>2, <2>3 DEF UpsertStores
<1>6. ASSUME NEW r \in Request, SyncReads(r) PROVE LiveHeld'
  <2>1. UNCHANGED << pvTyped, pvLive, pvBackups >>
    BY <1>6 DEF SyncReads, Live
  <2>2. CASE Answer(r)
    BY <1>4, <2>1, <2>2
  <2>3. CASE ~Answer(r)
    <3>1. PICK f : f = Head(pvCall[r].left)
      OBVIOUS
    <3>2. PICK read : /\ IF pvLive[f].broken THEN read = [NoFile EXCEPT !.there = TRUE] ELSE read = pvLive[f]
                      /\ pvCall' = [pvCall EXCEPT ![r].at = "backup", ![r].read = read]
      BY <1>6, <2>3, <3>1 DEF SyncReads
    <3>3. /\ pvCall[r] = [field \in RequestField |-> pvCall[r][field]]
          /\ pvCall[r].left # << >> /\ pvCall[r].left \in Seq(LiveFile)
      BY <1>0, <1>6 DEF SyncReads, IsRequest
    <3>4. f \in LiveFile
      BY <3>1, <3>3
    <3>5. PICK x : x = [pvCall[r] EXCEPT !.at = "backup", !.read = read]
      OBVIOUS
    <3>6. pvCall' = [pvCall EXCEPT ![r] = x] /\ x.at = "backup" /\ x.left = pvCall[r].left /\ x.read = read
      BY <1>0, <3>2, <3>3, <3>5 DEF RequestField
    <3>7. read.there \/ read = pvLive[f]
      BY <3>2 DEF NoFile
    <3>8. read = pvLive[f] => pvTyped[f] = read.text \/ Safe(f)'
      BY <2>1, <3>4, SafeStays DEF LiveHeld
    <3> QED BY <1>3, <2>1, <3>1, <3>6, <3>7, <3>8
  <2> QED BY <2>2, <2>3
<1>7. ASSUME NEW r \in Request, SyncBacksUp(r) PROVE LiveHeld'
  <2>1. UNCHANGED << pvTyped, pvLive >>
    BY <1>7 DEF SyncBacksUp
  <2>2. /\ pvCall[r] = [field \in RequestField |-> pvCall[r][field]] /\ pvCall[r].at = "backup"
        /\ pvCall[r].left # << >> /\ pvCall[r].left \in Seq(LiveFile)
    BY <1>0, <1>7 DEF SyncBacksUp, CallAt, IsRequest
  <2>3. PICK f \in LiveFile : f = Head(pvCall[r].left)
    BY <2>2
  <2>4. PICK x : x = [pvCall[r] EXCEPT !.at = "write"]
    OBVIOUS
  <2>5. pvCall' = [pvCall EXCEPT ![r] = x] /\ x.at = "write" /\ x.left = pvCall[r].left /\ x.read = pvCall[r].read
    BY <1>7, <2>2, <2>4 DEF SyncBacksUp, CallGoes, RequestField
  <2>6. pvTyped[f] = x.read.text \/ Safe(f)'
    <3>1. CASE ~pvCall[r].read.there
      BY <1>0, <2>1, <2>2, <2>3, <2>5, <3>1, SafeStays DEF ReadHeld
    <3>2. CASE pvCall[r].read.there
      <4>1. PICK b, y, c : b = pvBackups[f] /\ y = pvLive[f] /\ c = Rotated(Append(b, y))
        OBVIOUS
      <4>2. b \in Seq(LiveContent) /\ y \in LiveContent /\ Len(b) <= BackupKeep
        BY <1>0, <4>1 DEF FilesTyped
      <4>3. \E i \in DOMAIN c : c[i] = y
        BY <4>1, <4>2, RotatedBackups
      <4>4. pvBackups'[f] = c
        BY <1>0, <1>7, <2>3, <3>2, <4>1 DEF FilesTyped, SyncBacksUp
      <4>5. CASE pvTyped[f] = y.text
        BY <2>1, <4>3, <4>4, <4>5 DEF Safe
      <4>6. CASE Safe(f)
        BY <2>1, <4>6, SafeStays
      <4> QED BY <4>1, <4>5, <4>6 DEF LiveHeld
    <3> QED BY <3>1, <3>2
  <2> QED BY <1>3, <2>1, <2>3, <2>5, <2>6
<1>8. ASSUME NEW r \in Request, PatchAuth(r) PROVE LiveHeld'
  <2>1. UNCHANGED << pvTyped, pvLive >>
    BY <1>8 DEF PatchAuth, Live
  <2>2. CASE Answer(r)
    BY <1>4, <2>1, <2>2
  <2>3. CASE CallGoes(r, "activate")
    <3>1. PICK x : x = [pvCall[r] EXCEPT !.at = "activate"]
      OBVIOUS
    <3>2. pvCall[r] = [field \in RequestField |-> pvCall[r][field]]
      BY <1>0 DEF IsRequest
    <3>3. pvCall' = [pvCall EXCEPT ![r] = x] /\ x.at = "activate"
      BY <2>3, <3>1, <3>2 DEF CallGoes, RequestField
    <3> QED BY <1>3, <2>1, <3>3
  <2> QED BY <1>8, <2>2, <2>3 DEF PatchAuth
<1>9. ASSUME NEW r \in Request, SetActive(r) PROVE LiveHeld'
  BY <1>4, <1>9 DEF SetActive, Live
<1>10. ASSUME NEW r \in Request,
              \/ \E p, typed : UpsertReads(r, p, typed)
              \/ \E first, second : ImportsLive(r, first, second)
              \/ \E names, secret, sync : ImportReads(r, names, secret, sync)
              \/ \E id, target, force : ActivationReads(r, id, target, force)
       PROVE  LiveHeld'
  <2>1. UNCHANGED << pvTyped, pvLive >>
    BY <1>10 DEF UpsertReads, ImportsLive, ImportReads, ActivationReads, Live
  <2>2. ASSUME NEW place \in {"upsert", "read"}, NEW ps, pvCall' = [pvCall EXCEPT ![r] = [Waiting EXCEPT !.at = place, !.profile = ps]]
        PROVE  LiveHeld'
    <3>1. PICK x : x = [Waiting EXCEPT !.at = place, !.profile = ps]
      OBVIOUS
    <3>2. x.at = place
      BY <3>1 DEF Waiting
    <3> QED BY <1>3, <2>1, <2>2, <3>1, <3>2
  <2>3. ASSUME NEW ps, NEW target, NEW files, NEW force,
               pvCall' = [pvCall EXCEPT ![r] = [Waiting EXCEPT !.at = "read", !.profile = ps, !.target = target, !.left = files, !.force = force]]
        PROVE  LiveHeld'
    <3>1. PICK x : x = [Waiting EXCEPT !.at = "read", !.profile = ps, !.target = target, !.left = files, !.force = force]
      OBVIOUS
    <3>2. x.at = "read"
      BY <3>1 DEF Waiting
    <3> QED BY <1>3, <2>1, <2>3, <3>1, <3>2
  <2>4. ASSUME NEW p, NEW typed, UpsertReads(r, p, typed) PROVE LiveHeld'
    BY <2>2, <2>4 DEF UpsertReads
  <2>5. ASSUME NEW first, NEW second, ImportsLive(r, first, second) PROVE LiveHeld'
    BY <2>2, <2>5 DEF ImportsLive
  <2>6. ASSUME NEW names, NEW secret, NEW sync, ImportReads(r, names, secret, sync) PROVE LiveHeld'
    BY <2>2, <2>6 DEF ImportReads
  <2>7. ASSUME NEW id, NEW target, NEW force, ActivationReads(r, id, target, force) PROVE LiveHeld'
    <3>1. \E p, files : pvCall' = [pvCall EXCEPT ![r] = [Waiting EXCEPT !.at = "read", !.profile = << p >>, !.target = target, !.left = files, !.force = force]]
      BY <2>7 DEF ActivationReads
    <3> QED BY <2>3, <3>1
  <2> QED BY <1>10, <2>4, <2>5, <2>6, <2>7
<1>11. ASSUME NEW r \in Request, SyncWrites(r) PROVE LiveHeld'
  <2>1. UNCHANGED << pvTyped, pvBackups >>
    BY <1>11 DEF SyncWrites
  <2>2. /\ pvCall[r] = [field \in RequestField |-> pvCall[r][field]] /\ pvCall[r].at = "write"
        /\ pvCall[r].left # << >> /\ pvCall[r].left \in Seq(LiveFile)
    BY <1>0, <1>11 DEF SyncWrites, CallAt, IsRequest
  <2>3. PICK f \in LiveFile : f = Head(pvCall[r].left)
    BY <2>2
  <2>4. pvTyped[f] = pvCall[r].read.text \/ Safe(f)
    BY <1>0, <2>2, <2>3 DEF ReadHeld
  <2>5. PICK y : y = [pvCall[r].read EXCEPT !.there = TRUE, !.secret = IF Head(pvCall[r].profile).secret = 0 THEN @ ELSE Head(pvCall[r].profile).secret]
    OBVIOUS
  <2>6. y.text = pvCall[r].read.text
    <3>1. pvCall[r].read \in LiveContent
      BY <1>0 DEF IsRequest
    <3>2. PICK read, s : read = pvCall[r].read /\ y = [read EXCEPT !.there = TRUE, !.secret = s]
      BY <2>5
    <3> QED BY <3>1, <3>2 DEF LiveContent
  <2>7. pvLive' = [pvLive EXCEPT ![f] = y]
    BY <1>11, <2>3, <2>5 DEF SyncWrites
  <2>8. /\ pvLive'[f] = y /\ \A g \in LiveFile : g # f => pvLive'[g] = pvLive[g]
    BY <1>0, <2>3, <2>7 DEF FilesTyped
  <2>9. FileHeld(f)'
    BY <2>1, <2>4, <2>6, <2>8, SafeStays DEF Safe
  <2>10. \A g \in LiveFile : FileHeld(g)'
    BY <1>1, <2>1, <2>8, <2>9
  <2>11. PICK rest : rest = Tail(pvCall[r].left)
    OBVIOUS
  <2>12. PICK x : x = [pvCall[r] EXCEPT !.at = "read", !.left = rest]
    OBVIOUS
  <2>13. pvCall' = [pvCall EXCEPT ![r] = x] /\ x.at = "read"
    BY <1>0, <1>11, <2>2, <2>11, <2>12 DEF SyncWrites, RequestField
  <2>14. pvCall'[r] = x /\ \A q \in Request : q # r => pvCall'[q] = pvCall[q]
    BY <1>0, <2>13
  <2>15. ReadHeld(r)'
    BY <2>13, <2>14 DEF ReadHeld
  <2>16. \A q \in Request : ReadHeld(q)'
    BY <1>0, <2>1, <2>14, <2>15, ReadStays
  <2> QED BY <2>10, <2>16 DEF LiveHeld
<1>12. ASSUME NEW f \in LiveFile, NEW broken, UserEditsLive(f, broken) PROVE LiveHeld'
  <2>1. PICK n : n = pvCount'.typed
    OBVIOUS
  <2>2. /\ pvLive' = [pvLive EXCEPT ![f].text = n, ![f].broken = broken, ![f].there = TRUE]
        /\ pvTyped' = [pvTyped EXCEPT ![f] = n] /\ UNCHANGED << pvBackups, pvCall >>
        /\ \A r \in Request : pvCall[r].at # "write" /\ (pvCall[r].at = "backup" => pvCall[r].read.there)
    BY <1>12, <2>1 DEF UserEditsLive, CallAt
  <2>3. pvLive[f] \in LiveContent /\ pvLive \in [LiveFile -> LiveContent] /\ pvTyped \in [LiveFile -> 0 .. MaxSecret]
    BY <1>0 DEF FilesTyped
  <2>4. PICK x : x = [pvLive[f] EXCEPT !.text = n, !.broken = broken, !.there = TRUE]
    OBVIOUS
  <2>5. x.text = n /\ pvLive' = [pvLive EXCEPT ![f] = x]
    BY <2>2, <2>3, <2>4 DEF LiveContent
  <2>6. pvLive'[f] = x /\ pvTyped'[f] = n /\ \A g \in LiveFile : g # f => pvLive'[g] = pvLive[g] /\ pvTyped'[g] = pvTyped[g]
    BY <2>2, <2>3, <2>5
  <2>7. \A g \in LiveFile : FileHeld(g)'
    <3>1. FileHeld(f)'
      BY <2>5, <2>6
    <3>2. ASSUME NEW g \in LiveFile, g # f PROVE FileHeld(g)'
      <4>1. pvLive'[g] = pvLive[g] /\ pvTyped'[g] = pvTyped[g] /\ pvBackups' = pvBackups
        BY <2>2, <2>6, <3>2
      <4>2. FileHeld(g)
        BY DEF LiveHeld
      <4> QED BY <4>1, <4>2 DEF Safe
    <3> QED BY <3>1, <3>2
  <2>8. \A r \in Request : ReadHeld(r)'
    BY <2>2 DEF ReadHeld
  <2> QED BY <2>7, <2>8 DEF LiveHeld
<1>13. ASSUME ProvidersRestart PROVE LiveHeld'
  <2>1. \A r \in Request : pvCall'[r] = Waiting /\ UNCHANGED Live
    BY <1>13 DEF ProvidersRestart
  <2>2. \A r \in Request : ReadHeld(r)'
    BY <2>1 DEF ReadHeld, Waiting
  <2>3. UNCHANGED Live
    BY <1>13 DEF ProvidersRestart
  <2> QED BY <1>1, <2>2, <2>3 DEF LiveHeld, Live
<1>14. ASSUME (\E id, name : DuplicateProfile(id, name)) \/ (\E id : DeleteProfile(id)) \/ (\E i, j : ReorderProfiles(i, j))
       PROVE  UNCHANGED << pvTyped, pvLive, pvCall >>
  BY <1>14 DEF DuplicateProfile, DeleteProfile, ReorderProfiles, Live
<1> QED BY <1>2, <1>5, <1>6, <1>7, <1>8, <1>9, <1>10, <1>11, <1>12, <1>13, <1>14 DEF ProvidersNext

\* The profiles start with an empty list and no files.
LEMMA ProvidersInvInit == ProvidersInit => ProvidersTyped /\ LiveHeld
<1> SUFFICES ASSUME ProvidersInit PROVE ProvidersTyped /\ LiveHeld
  OBVIOUS
<1>1. CountTyped
  BY Numbers DEF ProvidersInit, CountTyped
<1>2. pvCount.made \in Nat
  BY DEF ProvidersInit
<1>3. RequestsTyped
  <2>1. IsRequest(Waiting, pvCount.made)
    BY <1>2, WaitingRequest
  <2>2. pvCall = [r \in Request |-> Waiting]
    BY DEF ProvidersInit
  <2> QED BY <2>1, <2>2 DEF RequestsTyped
<1>4. ListsHeld
  <2>1. PICK ps, act : ps = << >> /\ act = [t \in AgentTarget |-> 0] /\ pvMem = [profiles |-> ps, active |-> act] /\ pvDisk = pvMem
    BY DEF ProvidersInit
  <2>2. ps \in Seq(Profile) /\ DOMAIN ps = {}
    BY <2>1
  <2>3. act \in [AgentTarget -> 0 .. MaxProfiles] /\ \A t \in AgentTarget : act[t] = 0
    BY <2>1, Numbers
  <2>4. pvMem.profiles = ps /\ pvMem.active = act /\ pvMem \in Lists
    BY <2>1, <2>2, <2>3 DEF Lists
  <2>5. Distinct(ps) /\ UpTo(ps, pvCount.made)
    BY <2>2 DEF Distinct, UpTo
  <2> QED BY <2>1, <2>3, <2>4, <2>5 DEF ListsHeld, Coherent
<1>5. FilesTyped
  <2>1. NoFile \in LiveContent
    BY Numbers DEF NoFile, LiveContent
  <2>2. /\ pvAuth = [t \in AgentTarget |-> 0] /\ pvLive = [f \in LiveFile |-> NoFile] /\ pvBackups = [f \in LiveFile |-> << >>]
        /\ pvTyped = [f \in LiveFile |-> 0] /\ pvFailed = 0
    BY DEF ProvidersInit
  <2>3. pvBackups \in [LiveFile -> Seq(LiveContent)] /\ \A f \in LiveFile : Len(pvBackups[f]) <= BackupKeep
    BY <2>2, Numbers
  <2>4. pvLive \in [LiveFile -> LiveContent] /\ pvTyped \in [LiveFile -> 0 .. MaxSecret]
    BY <2>1, <2>2, Numbers
  <2>5. pvAuth \in [AgentTarget -> Secret] /\ pvFailed \in 0 .. MaxFailures
    BY <2>2, Numbers
  <2> QED BY <2>3, <2>4, <2>5 DEF FilesTyped
<1>6. LiveHeld
  <2>1. \A r \in Request : pvCall[r].at = "idle"
    BY DEF ProvidersInit, Waiting
  <2>2. \A f \in LiveFile : pvTyped[f] = 0 /\ pvLive[f].text = 0
    BY DEF ProvidersInit, NoFile
  <2> QED BY <2>1, <2>2 DEF LiveHeld, ReadHeld
<1> QED BY <1>1, <1>3, <1>4, <1>5, <1>6 DEF ProvidersTyped

\* The inductive step of ProvidersCoherent.
LEMMA ProvidersInvStep == ProvidersTyped /\ LiveHeld /\ [ProvidersNext]_providerVars => (ProvidersTyped /\ LiveHeld)'
<1> SUFFICES ASSUME ProvidersTyped, LiveHeld, [ProvidersNext]_providerVars PROVE (ProvidersTyped /\ LiveHeld)'
  OBVIOUS
<1>1. CASE UNCHANGED providerVars
  <2>1. CountTyped' /\ ListsHeld' /\ RequestsTyped' /\ FilesTyped'
    BY <1>1 DEF providerVars, ProvidersTyped, CountTyped, ListsHeld, RequestsTyped, FilesTyped
  <2>2. LiveHeld'
    BY <1>1 DEF providerVars, LiveHeld, ReadHeld, Safe
  <2> QED BY <2>1, <2>2 DEF ProvidersTyped
<1>2. CASE ProvidersNext
  <2>1. CountTyped' /\ ListsHeld' /\ RequestsTyped' /\ FilesTyped' /\ LiveHeld'
    BY <1>2, CountStep, ListsStep, RequestsStep, FilesTypedStep, LiveHeldStep
  <2> QED BY <2>1 DEF ProvidersTyped
<1> QED BY <1>1, <1>2

\* The inductive form is at least as strong as the type condition of the module.
LEMMA ProvidersTypedOK == ProvidersTyped => ProvidersTypeOK
<1> SUFFICES ASSUME ProvidersTyped PROVE ProvidersTypeOK
  OBVIOUS
<1>1. \A s \in {pvMem, pvDisk} : s.profiles \in Seq(Profile) /\ s.active \in [AgentTarget -> 0 .. MaxProfiles]
  BY DEF ProvidersTyped, ListsHeld, Coherent, Lists
<1>2. \A s \in {pvMem, pvDisk} : \A i \in DOMAIN s.profiles : s.profiles[i] \in Profile
  BY <1>1
<1>3. \A r \in Request : Len(pvCall[r].left) <= 2 /\ pvCall[r].read \in LiveContent
  BY DEF ProvidersTyped, RequestsTyped, IsRequest
<1> QED BY <1>1, <1>2, <1>3 DEF ProvidersTyped, FilesTyped, ProvidersTypeOK

\* Whatever requests interleave, saves fail and processes restart: names and
\* numbers of the profiles differ and an active profile exists, in memory and
\* in the file (Store.Upsert, Delete, SetActive), and what the user wrote into
\* a CLI's file is in it or in a backup until the backups filled the directory
\* (CreateRotatingBackup before the write), for any number of requests.
THEOREM ProvidersAreCoherent == Spec => []ProvidersCoherent
<1>1. Init => ProvidersTyped /\ LiveHeld
  BY ProvidersInvInit DEF Init
<1>2. ProvidersTyped /\ LiveHeld /\ [Next]_vars => (ProvidersTyped /\ LiveHeld)'
  <2>1. [Next]_vars => [ProvidersNext]_providerVars
    BY DEF Next, vars
  <2> QED BY <2>1, ProvidersInvStep
<1>3. ProvidersTyped /\ LiveHeld => ProvidersCoherent
  <2> SUFFICES ASSUME ProvidersTyped, LiveHeld PROVE StoreCoherent /\ LiveKept
    BY DEF ProvidersCoherent
  <2>1. StoreCoherent
    BY DEF ProvidersTyped, ListsHeld, Coherent, Distinct, Has, StoreCoherent
  <2>2. LiveKept
    BY DEF LiveHeld, Safe, LiveKept
  <2> QED BY <2>1, <2>2
<1> QED BY <1>1, <1>2, <1>3, PTL DEF Spec

\* Every variable of the three components keeps to its values, for any number
\* of sessions, callers, tools, requests and profiles.
THEOREM FilesTypeCorrect == Spec => []TypeOK
<1> DEFINE Typed == part \in {"workspaces", "skills", "profiles"} /\ WTyped /\ SkillsTyped /\ SkillsHeld /\ ProvidersTyped /\ LiveHeld
<1>1. Init => Typed
  BY WTypedInit, SkillsInvInit, ProvidersInvInit DEF Init
<1>2. Typed /\ [Next]_vars => Typed'
  <2>1. [Next]_vars => [WorkspaceNext]_workspaceVars /\ [SkillsNext]_skillVars /\ [ProvidersNext]_providerVars /\ UNCHANGED part
    BY DEF Next, vars
  <2> QED BY <2>1, WTypedStep, SkillsInvStep, ProvidersInvStep
<1>3. Typed => TypeOK
  BY WTypedOK, SkillsTypedOK, ProvidersTypedOK DEF TypeOK
<1> HIDE DEF Typed
<1> QED BY <1>1, <1>2, <1>3, PTL DEF Spec
=============================================================================
