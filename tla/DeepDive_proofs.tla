-------------------------- MODULE DeepDive_proofs --------------------------
(***************************************************************************)
(* A ready profile is of one commit, for any number of builds, commits and *)
(* crashes, alone and beside dives.  The row is a mutex: at most one build *)
(* is past its beginning, and what it has written so far is of the commit  *)
(* its clone is at.  That invariant gives a dive artifacts of one commit   *)
(* when it begins; when it may dismiss follows from how it ends.           *)
(***************************************************************************)
EXTENDS DeepDive, FiniteSetTheorems, TLAPS

-----------------------------------------------------------------------------
(* The profile. *)

Pc == {"idle", "create", "begin", "sync", "sha", "build", "finish", "fail"}
BuildType == [pc : Pc, sha : Commit, next : 1..4]
CloneType == [kind : {"none", "partial", "git"}, at : Commit]

\* Past try_begin_profile.
Owns(b) == build[b].pc \in {"sync", "sha", "build", "finish", "fail"}

\* The row says building while a build is past its beginning, and there is one.
RowIsMutex ==
  /\ (\E b \in Build : Owns(b)) => row.status = "building"
  /\ \A b, c \in Build : Owns(b) /\ Owns(c) => b = c

\* What an owner has seen and written.
Progress(b) ==
  /\ build[b].pc = "sha" => clone.kind = "git" /\ clone.at > 0
  /\ build[b].pc \in {"build", "finish"} =>
       build[b].sha > 0 /\ clone.kind = "git" /\ clone.at = build[b].sha
  /\ build[b].pc = "build" =>
       \A k \in 1..4 : k < build[b].next => store[Builders[k]] = build[b].sha
  /\ build[b].pc = "finish" =>
       /\ manifest = build[b].sha /\ digest = store
       /\ \A a \in Artifact : store[a] = build[b].sha
ProgressIsOneCommit == \A b \in Build : Progress(b)

PInv == ProfileTypeOK /\ RowIsMutex /\ ProgressIsOneCommit /\ ReadyIsOneCommit

-----------------------------------------------------------------------------
(* The sequence of builders, and one field of one build. *)

LEMMA BuildersAre ==
  /\ DOMAIN Builders = 1..4 /\ Len(Builders) = 4
  /\ Artifact = {"profile", "code_map", "threat", "dep_manifest"}
  /\ \A k \in 1..4 : Builders[k] \in Artifact
  /\ \A a \in Artifact : \E k \in 1..4 : a = Builders[k]
  /\ \A j, k \in 1..4 : j # k => Builders[j] # Builders[k]
<1>1. DOMAIN Builders = 1..4 /\ Len(Builders) = 4
  BY DEF Builders
<1>2. /\ Builders[1] = "profile" /\ Builders[2] = "code_map"
      /\ Builders[3] = "threat" /\ Builders[4] = "dep_manifest"
  BY DEF Builders
<1>3. \A k \in 1..4 : k = 1 \/ k = 2 \/ k = 3 \/ k = 4
  OBVIOUS
<1> QED
  BY <1>1, <1>2, <1>3 DEF Artifact

LEMMA Typed ==
  ASSUME ProfileTypeOK
  PROVE  build \in [Build -> BuildType] /\ clone \in CloneType
BY DEF ProfileTypeOK, BuildType, Pc, CloneType

LEMMA GoesKeeps ==
  ASSUME ProfileTypeOK, NEW b \in Build, NEW p \in Pc, Goes(b, p)
  PROVE  /\ build' \in [Build -> BuildType]
         /\ \A c \in Build \ {b} : build'[c] = build[c]
         /\ build'[b].pc = p /\ build'[b].sha = build[b].sha /\ build'[b].next = build[b].next
<1> DEFINE new == [build[b] EXCEPT !.pc = p]
<1>1. build \in [Build -> BuildType]
  BY Typed
<1>2. build' = [build EXCEPT ![b] = new]
  BY <1>1 DEF Goes
<1>3. build[b] \in BuildType
  BY <1>1
<1>4. new \in BuildType /\ new.pc = p /\ new.sha = build[b].sha /\ new.next = build[b].next
  BY <1>3 DEF BuildType, Pc, Idle, Commit
<1> HIDE DEF new
<1>5. build'[b] = new /\ \A c \in Build \ {b} : build'[c] = build[c]
  BY <1>1, <1>2
<1>6. build' \in [Build -> BuildType]
  BY <1>1, <1>2, <1>4
<1> QED
  BY <1>4, <1>5, <1>6

LEMMA EndsKeeps ==
  ASSUME ProfileTypeOK, NEW b \in Build, Ends(b)
  PROVE  /\ build' \in [Build -> BuildType]
         /\ \A c \in Build \ {b} : build'[c] = build[c]
         /\ build'[b].pc = "idle" /\ build'[b].sha = 0 /\ build'[b].next = 1
<1> DEFINE new == Idle
<1>1. build \in [Build -> BuildType]
  BY Typed
<1>2. build' = [build EXCEPT ![b] = new]
  BY <1>1 DEF Ends
<1>3. build[b] \in BuildType
  BY <1>1
<1>4. new \in BuildType /\ new.pc = "idle" /\ new.sha = 0 /\ new.next = 1
  BY ProfileBounds DEF BuildType, Pc, Idle, Commit
<1> HIDE DEF new
<1>5. build'[b] = new /\ \A c \in Build \ {b} : build'[c] = build[c]
  BY <1>1, <1>2
<1>6. build' \in [Build -> BuildType]
  BY <1>1, <1>2, <1>4
<1> QED
  BY <1>4, <1>5, <1>6

LEMMA ShaKeeps ==
  ASSUME ProfileTypeOK, NEW b \in Build, NEW sha \in Commit,
         build' = [build EXCEPT ![b] = [pc |-> "build", sha |-> sha, next |-> 1]]
  PROVE  /\ build' \in [Build -> BuildType]
         /\ \A c \in Build \ {b} : build'[c] = build[c]
         /\ build'[b].pc = "build" /\ build'[b].sha = sha /\ build'[b].next = 1
<1> DEFINE new == [pc |-> "build", sha |-> sha, next |-> 1]
<1>1. build \in [Build -> BuildType]
  BY Typed
<1>2. build' = [build EXCEPT ![b] = new]
  BY <1>1 DEF BuildType
<1>3. build[b] \in BuildType
  BY <1>1
<1>4. new \in BuildType /\ new.pc = "build" /\ new.sha = sha /\ new.next = 1
  BY <1>3 DEF BuildType, Pc, Idle, Commit
<1> HIDE DEF new
<1>5. build'[b] = new /\ \A c \in Build \ {b} : build'[c] = build[c]
  BY <1>1, <1>2
<1>6. build' \in [Build -> BuildType]
  BY <1>1, <1>2, <1>4
<1> QED
  BY <1>4, <1>5, <1>6

LEMMA NextKeeps ==
  ASSUME ProfileTypeOK, NEW b \in Build, NEW k \in 1..3,
         build' = [build EXCEPT ![b].next = k + 1]
  PROVE  /\ build' \in [Build -> BuildType]
         /\ \A c \in Build \ {b} : build'[c] = build[c]
         /\ build'[b].pc = build[b].pc /\ build'[b].sha = build[b].sha /\ build'[b].next = k + 1
<1> DEFINE new == [build[b] EXCEPT !.next = k + 1]
<1>1. build \in [Build -> BuildType]
  BY Typed
<1>2. build' = [build EXCEPT ![b] = new]
  BY <1>1 DEF BuildType
<1>3. build[b] \in BuildType
  BY <1>1
<1>4. new \in BuildType /\ new.pc = build[b].pc /\ new.sha = build[b].sha /\ new.next = k + 1
  BY <1>3 DEF BuildType, Pc, Idle, Commit
<1> HIDE DEF new
<1>5. build'[b] = new /\ \A c \in Build \ {b} : build'[c] = build[c]
  BY <1>1, <1>2
<1>6. build' \in [Build -> BuildType]
  BY <1>1, <1>2, <1>4
<1> QED
  BY <1>4, <1>5, <1>6

\* What a failed or killed sync leaves is a clone.
LEMMA HalfSyncedType == ProfileTypeOK => HalfSynced \subseteq CloneType
<1> SUFFICES ASSUME ProfileTypeOK PROVE HalfSynced \subseteq CloneType
  OBVIOUS
<1>1. clone \in CloneType /\ 0 \in Commit
  BY Typed, ProfileBounds DEF Commit
<1>2. [clone EXCEPT !.at = 0] \in CloneType
  BY <1>1 DEF CloneType
<1>3. [kind : {"none", "partial", "git"}, at : {0}] \subseteq CloneType
  BY <1>1 DEF CloneType
<1> QED
  BY <1>1, <1>2, <1>3 DEF HalfSynced

-----------------------------------------------------------------------------
(* Type correctness of each step. *)

RowType == [status : Statuses, sha : Commit]

LEMMA TypeStep == ProfileTypeOK /\ [ProfileNext]_profileVars => ProfileTypeOK'
<1> SUFFICES ASSUME ProfileTypeOK, [ProfileNext]_profileVars PROVE ProfileTypeOK'
  OBVIOUS
<1>a. /\ build \in [Build -> BuildType] /\ clone \in CloneType /\ row \in RowType
      /\ tip \in Commit /\ 0 \in Commit
  BY Typed, ProfileBounds DEF ProfileTypeOK, RowType, Commit
<1>b. /\ tip' \in 1..MaxCommit /\ up' \in BOOLEAN /\ crashes' \in 0..MaxCrashes
      /\ row' \in RowType /\ clone' \in CloneType /\ store' \in [Artifact -> Commit]
      /\ digest' \in [Artifact -> Commit] /\ manifest' \in Commit
      /\ build' \in [Build -> BuildType]
      => ProfileTypeOK'
  BY DEF ProfileTypeOK, BuildType, Pc, CloneType, RowType
<1>c. ASSUME NEW s \in Statuses
      PROVE  [row EXCEPT !.status = s] \in RowType
  BY <1>a DEF RowType
<1>d. \A b \in Build : build[b] \in BuildType /\ build[b].sha \in Commit
  BY <1>a DEF BuildType
<1>1. CASE UNCHANGED profileVars
  BY <1>1, <1>a, <1>b DEF profileVars, ProfileTypeOK
<1>2. CASE Push
  <2>1. tip' \in 1..MaxCommit
    BY <1>2, ProfileBounds DEF Push, ProfileTypeOK
  <2> QED
    BY <1>2, <2>1, <1>a, <1>b DEF Push, disk, ProfileTypeOK
<1>3. CASE Crash
  <2>1. crashes' \in 0..MaxCrashes
    BY <1>3, ProfileBounds DEF Crash, ProfileTypeOK
  <2>2. Idle \in BuildType
    BY <1>a DEF Idle, BuildType, Pc
  <2>3. build' \in [Build -> BuildType]
    BY <1>3, <2>2 DEF Crash
  <2>4. clone' \in CloneType
    BY <1>3, <1>a, HalfSyncedType DEF Crash
  <2> QED
    BY <1>3, <2>1, <2>3, <2>4, <1>a, <1>b DEF Crash, disk, ProfileTypeOK
<1>4. CASE Boot
  BY <1>4, <1>a, <1>b DEF Boot, disk, ProfileTypeOK
<1>5. ASSUME NEW b \in Build, Schedule(b)
      PROVE  ProfileTypeOK'
  BY <1>5, <1>a, <1>b, GoesKeeps DEF Schedule, Pc, World, disk, ProfileTypeOK
<1>6. ASSUME NEW b \in Build, Create(b)
      PROVE  ProfileTypeOK'
  <2>1. row' \in RowType
    BY <1>6, <1>a, <1>c DEF Create, Statuses
  <2> QED
    BY <1>6, <2>1, <1>a, <1>b, GoesKeeps DEF Create, Pc, World, disk, ProfileTypeOK
<1>7. ASSUME NEW b \in Build, TryBegin(b)
      PROVE  ProfileTypeOK'
  <2>1. row' \in RowType
    BY <1>7, <1>a, <1>c DEF TryBegin, Statuses
  <2> QED
    BY <1>7, <2>1, <1>a, <1>b, GoesKeeps, EndsKeeps
       DEF TryBegin, Pc, World, disk, ProfileTypeOK
<1>8. ASSUME NEW b \in Build, Sync(b)
      PROVE  ProfileTypeOK'
  <2>1. clone' \in CloneType
    BY <1>8, <1>a DEF Sync, CloneType
  <2> QED
    BY <1>8, <2>1, <1>a, <1>b, GoesKeeps DEF Sync, Pc, World, disk, ProfileTypeOK
<1>9. ASSUME NEW b \in Build, SyncFails(b)
      PROVE  ProfileTypeOK'
  <2>1. clone' \in CloneType
    BY <1>9, HalfSyncedType DEF SyncFails
  <2> QED
    BY <1>9, <2>1, <1>a, <1>b, GoesKeeps DEF SyncFails, Pc, World, disk, ProfileTypeOK
<1>10. ASSUME NEW b \in Build, ReadSha(b)
       PROVE  ProfileTypeOK'
  <2>1. clone.at \in Commit
    BY <1>a DEF CloneType
  <2> QED
    BY <1>10, <2>1, <1>a, <1>b, ShaKeeps DEF ReadSha, World, disk, ProfileTypeOK
<1>11. ASSUME NEW b \in Build, RunBuilder(b)
       PROVE  ProfileTypeOK'
  <2> DEFINE k == build[b].next
  <2>1. k \in 1..4 /\ clone.at \in Commit
    BY <1>a DEF BuildType, CloneType
  <2>2. store' \in [Artifact -> Commit]
    BY <1>11, <2>1 DEF RunBuilder, ProfileTypeOK
  <2>3. build' \in [Build -> BuildType]
    <3>1. CASE k < 4
      BY <1>11, <2>1, <3>1, NextKeeps, BuildersAre DEF RunBuilder
    <3>2. CASE ~ (k < 4)
      BY <1>11, <3>2, GoesKeeps, BuildersAre DEF RunBuilder, Pc
    <3> QED
      BY <3>1, <3>2
  <2>4. digest' \in [Artifact -> Commit] /\ manifest' \in Commit
    BY <1>11, <1>d, <2>2 DEF RunBuilder, ProfileTypeOK
  <2> QED
    BY <1>11, <2>2, <2>3, <2>4, <1>a, <1>b DEF RunBuilder, World, ProfileTypeOK
<1>12. ASSUME NEW b \in Build, StepFails(b)
       PROVE  ProfileTypeOK'
  BY <1>12, <1>a, <1>b, GoesKeeps DEF StepFails, Pc, World, disk, ProfileTypeOK
<1>13. ASSUME NEW b \in Build, FinishReady(b)
       PROVE  ProfileTypeOK'
  <2>1. row' \in RowType
    BY <1>13, <1>d DEF FinishReady, RowType, Statuses
  <2> QED
    BY <1>13, <2>1, <1>a, <1>b, EndsKeeps DEF FinishReady, World, disk, ProfileTypeOK
<1>14. ASSUME NEW b \in Build, FinishError(b)
       PROVE  ProfileTypeOK'
  <2>1. row' \in RowType
    BY <1>14, <1>a, <1>c DEF FinishError, FailedStatus, Statuses
  <2> QED
    BY <1>14, <2>1, <1>a, <1>b, EndsKeeps DEF FinishError, World, disk, ProfileTypeOK
<1> QED
  BY <1>1, <1>2, <1>3, <1>4, <1>5, <1>6, <1>7, <1>8, <1>9, <1>10, <1>11, <1>12, <1>13, <1>14
     DEF ProfileNext, BuildStep

-----------------------------------------------------------------------------
(* Safety of each step. *)

Safe == RowIsMutex /\ ProgressIsOneCommit /\ ReadyIsOneCommit

\* A step of the owner that does not give the row back has only its own progress to keep.
LEMMA OwnerSteps ==
  ASSUME PInv, NEW b \in Build, Owns(b), \A c \in Build \ {b} : build'[c] = build[c],
         row' = row, Progress(b)'
  PROVE  Safe'
<1>1. row.status = "building" /\ \A c \in Build \ {b} : ~ Owns(c)
  BY DEF PInv, RowIsMutex
<1>2. \A c \in Build \ {b} : ~ Owns(c)' /\ Progress(c)'
  BY <1>1 DEF Owns, Progress
<1>3. RowIsMutex'
  BY <1>1, <1>2 DEF RowIsMutex
<1>4. ProgressIsOneCommit'
  BY <1>2 DEF ProgressIsOneCommit
<1>5. ReadyIsOneCommit'
  BY <1>1 DEF ReadyIsOneCommit
<1> QED
  BY <1>3, <1>4, <1>5 DEF Safe

\* A step of a build that is not the owner, before and after it, touches no file.
LEMMA BystanderSteps ==
  ASSUME PInv, NEW b \in Build, ~ Owns(b), build'[b].pc \in {"idle", "create", "begin"},
         \A c \in Build \ {b} : build'[c] = build[c],
         UNCHANGED <<clone, store, manifest, digest>>, row'.sha = row.sha,
         row'.status # row.status => row.status = "absent" /\ row'.status = "none"
  PROVE  Safe'
<1>1. \A c \in Build : Owns(c)' => Owns(c) /\ build'[c] = build[c]
  BY DEF Owns
<1>2. RowIsMutex'
  BY <1>1 DEF PInv, RowIsMutex
<1>3. ProgressIsOneCommit'
  <2> SUFFICES ASSUME NEW c \in Build PROVE Progress(c)'
    BY DEF ProgressIsOneCommit
  <2>1. CASE c = b
    BY <2>1 DEF Progress
  <2>2. CASE c # b
    BY <2>2 DEF PInv, ProgressIsOneCommit, Progress
  <2> QED
    BY <2>1, <2>2
<1>4. ReadyIsOneCommit'
  BY DEF PInv, ReadyIsOneCommit
<1> QED
  BY <1>2, <1>3, <1>4 DEF Safe

LEMMA SafeStep == PInv /\ [ProfileNext]_profileVars => Safe'
<1> SUFFICES ASSUME PInv, [ProfileNext]_profileVars PROVE Safe'
  OBVIOUS
<1>a. ProfileTypeOK /\ RowIsMutex /\ ProgressIsOneCommit /\ ReadyIsOneCommit
  BY DEF PInv
<1>b. /\ build \in [Build -> BuildType] /\ clone \in CloneType /\ row \in RowType
      /\ tip \in 1..MaxCommit
  BY <1>a, Typed DEF ProfileTypeOK, RowType
<1>1. CASE UNCHANGED <<row, clone, store, manifest, digest, build>>
  BY <1>1, <1>a
     DEF Safe, RowIsMutex, Owns, ProgressIsOneCommit, Progress, ReadyIsOneCommit
<1>2. CASE UNCHANGED profileVars \/ Push \/ Boot
  BY <1>1, <1>2 DEF profileVars, Push, Boot, disk
<1>3. CASE Crash
  <2>1. \A b \in Build : build'[b] = Idle
    BY <1>3 DEF Crash
  <2>2. \A b \in Build : ~ Owns(b)' /\ Progress(b)'
    BY <2>1 DEF Owns, Progress, Idle
  <2>3. row.status = "ready" => clone' = clone
    BY <1>3, <1>a DEF Crash, RowIsMutex, Owns
  <2>4. ReadyIsOneCommit'
    BY <1>3, <1>a, <2>3 DEF Crash, disk, ReadyIsOneCommit
  <2> QED
    BY <2>2, <2>4 DEF Safe, RowIsMutex, ProgressIsOneCommit
<1>4. ASSUME NEW b \in Build, Schedule(b)
      PROVE  Safe'
  BY <1>4, <1>a, GoesKeeps, BystanderSteps DEF Schedule, At, Owns, Pc, disk
<1>5. ASSUME NEW b \in Build, Create(b)
      PROVE  Safe'
  <2>1. row'.sha = row.sha /\ (row'.status # row.status =>
                                 row.status = "absent" /\ row'.status = "none")
    BY <1>5, <1>b DEF Create, RowType
  <2> QED
    BY <1>5, <1>a, <2>1, GoesKeeps, BystanderSteps DEF Create, At, Owns, Pc, disk
<1>6. ASSUME NEW b \in Build, TryBegin(b)
      PROVE  Safe'
  <2>1. CASE ~ MayBegin
    BY <1>6, <1>a, <2>1, EndsKeeps, BystanderSteps DEF TryBegin, At, Owns, disk
  <2>2. CASE MayBegin
    <3>1. row'.status = "building"
      BY <1>6, <1>b, <2>2 DEF TryBegin, RowType
    <3>2. \A c \in Build \ {b} : build'[c] = build[c] /\ ~ Owns(c)
      BY <1>6, <1>a, <2>2, GoesKeeps DEF TryBegin, MayBegin, RowIsMutex, Pc
    <3>3. build'[b].pc = "sync"
      BY <1>6, <1>a, <2>2, GoesKeeps DEF TryBegin, Pc
    <3>4. \A c \in Build \ {b} : ~ Owns(c)' /\ Progress(c)'
      BY <3>2 DEF Owns, Progress
    <3>5. Progress(b)'
      BY <3>3 DEF Progress
    <3> QED
      BY <3>1, <3>4, <3>5
         DEF Safe, RowIsMutex, ProgressIsOneCommit, ReadyIsOneCommit
  <2> QED
    BY <2>1, <2>2
<1>7. ASSUME NEW b \in Build, Sync(b)
      PROVE  Safe'
  <2>1. /\ build'[b].pc = "sha" /\ \A c \in Build \ {b} : build'[c] = build[c]
    BY <1>7, <1>a, GoesKeeps DEF Sync, Pc
  <2>2. clone'.kind = "git" /\ clone'.at > 0
    BY <1>7, <1>b, ProfileBounds DEF Sync
  <2>3. Progress(b)'
    BY <2>1, <2>2 DEF Progress
  <2>4. Owns(b) /\ row' = row
    BY <1>7 DEF Sync, At, Owns
  <2> QED
    BY <2>1, <2>3, <2>4, OwnerSteps
<1>8. ASSUME NEW b \in Build, SyncFails(b) \/ StepFails(b)
      PROVE  Safe'
  <2>1. /\ build'[b].pc = "fail" /\ \A c \in Build \ {b} : build'[c] = build[c]
    BY <1>8, <1>a, GoesKeeps DEF SyncFails, StepFails, Pc
  <2>2. Progress(b)'
    BY <2>1 DEF Progress
  <2>3. Owns(b) /\ row' = row
    BY <1>8 DEF SyncFails, StepFails, At, Owns
  <2> QED
    BY <2>1, <2>2, <2>3, OwnerSteps
<1>9. ASSUME NEW b \in Build, ReadSha(b)
      PROVE  Safe'
  <2>1. /\ build'[b].pc = "build" /\ build'[b].sha = clone.at /\ build'[b].next = 1
        /\ \A c \in Build \ {b} : build'[c] = build[c]
    BY <1>9, <1>a, <1>b, ShaKeeps DEF ReadSha, CloneType
  <2>2. clone.kind = "git" /\ clone.at > 0 /\ clone' = clone
    BY <1>9, <1>a DEF ReadSha, At, ProgressIsOneCommit, Progress
  <2>3. Progress(b)'
    BY <2>1, <2>2 DEF Progress
  <2>4. Owns(b) /\ row' = row
    BY <1>9 DEF ReadSha, At, Owns
  <2> QED
    BY <2>1, <2>3, <2>4, OwnerSteps
<1>10. ASSUME NEW b \in Build, RunBuilder(b)
       PROVE  Safe'
  <2> DEFINE n == build[b].next
  <2>1. n \in 1..4
    BY <1>b DEF BuildType
  <2>2. /\ build[b].sha > 0 /\ clone.kind = "git" /\ clone.at = build[b].sha
        /\ clone' = clone
        /\ \A k \in 1..4 : k < n => store[Builders[k]] = build[b].sha
    BY <1>10, <1>a DEF RunBuilder, At, ProgressIsOneCommit, Progress
  <2>3. \A a \in Artifact : store'[a] = IF a = Builders[n] THEN clone.at ELSE store[a]
    BY <1>10, <1>a DEF RunBuilder, ProfileTypeOK
  <2>4. \A k \in 1..4 : k <= n => store'[Builders[k]] = build[b].sha
    BY <2>1, <2>2, <2>3, BuildersAre
  <2>5. Owns(b) /\ row' = row /\ build[b].pc = "build"
    BY <1>10 DEF RunBuilder, At, Owns
  <2>6. CASE n < 4
    <3>1. /\ build'[b].pc = "build" /\ build'[b].sha = build[b].sha /\ build'[b].next = n + 1
          /\ \A c \in Build \ {b} : build'[c] = build[c]
      BY <1>10, <1>a, <2>1, <2>5, <2>6, NextKeeps, BuildersAre DEF RunBuilder
    <3>2. \A k \in 1..4 : k < n + 1 => store'[Builders[k]] = build'[b].sha
      BY <2>1, <2>4, <3>1
    <3>3. Progress(b)'
      BY <2>2, <3>1, <3>2 DEF Progress
    <3> QED
      BY <2>5, <3>1, <3>3, OwnerSteps
  <2>7. CASE ~ (n < 4)
    <3>1. /\ build'[b].pc = "finish" /\ build'[b].sha = build[b].sha
          /\ \A c \in Build \ {b} : build'[c] = build[c]
      BY <1>10, <1>a, <2>7, GoesKeeps, BuildersAre DEF RunBuilder, Pc
    <3>2. manifest' = build[b].sha /\ digest' = store'
      BY <1>10, <2>7, BuildersAre DEF RunBuilder
    <3>3. \A a \in Artifact : store'[a] = build[b].sha
      BY <2>1, <2>4, <2>7, BuildersAre
    <3>4. Progress(b)'
      BY <2>2, <3>1, <3>2, <3>3 DEF Progress
    <3> QED
      BY <2>5, <3>1, <3>4, OwnerSteps
  <2> QED
    BY <2>6, <2>7
<1>11. ASSUME NEW b \in Build, FinishReady(b) \/ FinishError(b)
       PROVE  Safe'
  <2>1. Owns(b) /\ Ends(b)
    BY <1>11 DEF FinishReady, FinishError, At, Owns
  <2>2. \A c \in Build : c # b => ~ Owns(c)
    BY <1>a, <2>1 DEF RowIsMutex
  <2>3. build'[b].pc = "idle" /\ \A c \in Build \ {b} : build'[c] = build[c]
    BY <1>a, <2>1, EndsKeeps
  <2>4. \A c \in Build : ~ Owns(c)' /\ Progress(c)'
    BY <2>2, <2>3 DEF Owns, Progress
  <2>5. CASE FinishReady(b)
    <3>1. /\ manifest = build[b].sha /\ digest = store /\ build[b].sha > 0
          /\ \A a \in Artifact : store[a] = build[b].sha
          /\ clone.kind = "git" /\ clone.at = build[b].sha
      BY <1>a, <2>5 DEF FinishReady, At, ProgressIsOneCommit, Progress
    <3>2. clone = [kind |-> "git", at |-> build[b].sha]
      BY <1>b, <3>1 DEF CloneType
    <3>3. /\ UNCHANGED <<clone, store, manifest, digest>> /\ row'.sha = build[b].sha
      BY <2>5 DEF FinishReady, disk
    <3>4. ReadyIsOneCommit'
      BY <3>1, <3>2, <3>3 DEF ReadyIsOneCommit
    <3> QED
      BY <2>4, <3>4 DEF Safe, RowIsMutex, ProgressIsOneCommit
  <2>6. CASE FinishError(b)
    <3>1. row'.status = "error"
      BY <2>6, <1>b DEF FinishError, FailedStatus, RowType
    <3> QED
      BY <2>4, <3>1 DEF Safe, RowIsMutex, ProgressIsOneCommit, ReadyIsOneCommit
  <2> QED
    BY <1>11, <2>5, <2>6
<1> QED
  BY <1>2, <1>3, <1>4, <1>5, <1>6, <1>7, <1>8, <1>9, <1>10, <1>11 DEF ProfileNext, BuildStep

-----------------------------------------------------------------------------
(* The theorems. *)

LEMMA ProfileInitInv == ProfileInit => PInv
<1> SUFFICES ASSUME ProfileInit PROVE PInv
  OBVIOUS
<1>1. 0 \in Commit /\ 1 \in 1..MaxCommit /\ 0 \in 0..MaxCrashes
  BY ProfileBounds DEF Commit
<1>2. Idle \in BuildType /\ Idle.pc = "idle"
  BY <1>1 DEF Idle, BuildType, Pc
<1>3. build \in [Build -> BuildType] /\ \A b \in Build : build[b].pc = "idle"
  BY <1>2 DEF ProfileInit
<1>4. ProfileTypeOK
  <2>1. row \in [status : Statuses, sha : Commit]
    BY <1>1 DEF ProfileInit, Statuses
  <2>2. clone \in [kind : {"none", "partial", "git"}, at : Commit]
    BY <1>1 DEF ProfileInit
  <2>3. store \in [Artifact -> Commit] /\ digest \in [Artifact -> Commit] /\ manifest \in Commit
    BY <1>1 DEF ProfileInit, NoArtifacts
  <2>4. tip \in 1..MaxCommit /\ up \in BOOLEAN /\ crashes \in 0..MaxCrashes
    BY <1>1 DEF ProfileInit
  <2> QED
    BY <1>3, <2>1, <2>2, <2>3, <2>4 DEF ProfileTypeOK, BuildType, Pc
<1>5. row.status = "absent"
  BY DEF ProfileInit
<1> QED
  BY <1>3, <1>4, <1>5
     DEF PInv, RowIsMutex, Owns, ProgressIsOneCommit, Progress, ReadyIsOneCommit

LEMMA ProfileStepInv == PInv /\ [ProfileNext]_profileVars => PInv'
BY TypeStep, SafeStep DEF PInv, Safe

LEMMA ProfileInductive == ProfileSpec => []PInv
BY ProfileInitInv, ProfileStepInv, PTL DEF ProfileSpec

\* The row, the clone, the files and the builds keep their types.
THEOREM ProfileTypeCorrect == ProfileSpec => []ProfileTypeOK
<1>1. PInv => ProfileTypeOK
  BY DEF PInv
<1> QED
  BY <1>1, ProfileInductive, PTL

\* A profile that says ready is of one commit, for any number of builds, commits and crashes:
\* the row's compare-and-swap keeps every other build off the clone and the files.
THEOREM ReadyProfileIsOneCommit == ProfileSpec => []ReadyIsOneCommit
<1>1. PInv => ReadyIsOneCommit
  BY DEF PInv
<1> QED
  BY <1>1, ProfileInductive, PTL

-----------------------------------------------------------------------------
(* The dive. *)

Panels == {<<>>} \cup [DisproofLenses -> Answers] \cup [ChallengeLenses -> Answers]
Exits == {"none", "quick", "corroborated", "hunch", "disproof", "hardening", "trace",
          "challenge", "incomplete"}
DiveType ==
  [pc : {"idle", "over"} \cup Stages, quick : Verdicts, trusted : BOOLEAN, traced : Commit,
   known : SUBSET Commit, verdict : Verdicts \cup {"none"}, exit : Exits, panel : Panels]

\* What a dismissal rests on.
Earned(trusted, verdict, exit, panel) ==
  (verdict \in Clears /\ exit # "quick") =>
    /\ trusted
    /\ \/ exit \in {"corroborated", "hardening"}
       \/ /\ exit = "disproof" /\ panel[BypassLens] = "holds"
          /\ Cardinality({l \in DisproofLenses : panel[l] = "holds"}) >= 2

DiveInv == dive \in DiveType /\ KnowledgeIsOneCommit /\ DismissalIsEarned
DInv == PInv /\ DiveInv

-----------------------------------------------------------------------------
(* The clearing panel. *)

LEMMA PanelOfThree == IsFiniteSet(DisproofLenses) /\ Cardinality(DisproofLenses) = 3
<1>1. IsFiniteSet({"scope"}) /\ Cardinality({"scope"}) = 1
  BY FS_Singleton
<1>2. IsFiniteSet({"phantom", "scope"}) /\ Cardinality({"phantom", "scope"}) = 2
  <2>1. {"phantom", "scope"} = {"scope"} \cup {"phantom"}
    OBVIOUS
  <2> QED
    BY <1>1, <2>1, FS_AddElement
<1>3. DisproofLenses = {"phantom", "scope"} \cup {"bypass"}
  BY DEF DisproofLenses, BypassLens
<1> QED
  BY <1>2, <1>3, FS_AddElement

\* A disproof is upheld only when the bypass reviewer and another answered and upheld it.
LEMMA UpheldIsEarned ==
  ASSUME NEW panel \in [DisproofLenses -> Answers], DisproofUpheld(panel)
  PROVE  /\ panel[BypassLens] = "holds"
         /\ Cardinality({l \in DisproofLenses : panel[l] = "holds"}) >= 2
<1> DEFINE R == Refuted(panel, "refuted")
           H == {l \in DisproofLenses : panel[l] = "holds"}
<1>1. DOMAIN panel = DisproofLenses /\ \A l \in DisproofLenses : panel[l] \in Answers
  OBVIOUS
<1>2. R = {l \in DisproofLenses : panel[l] # "holds"}
  BY <1>1 DEF Refuted, Counted, Answers
<1>3. Held(panel, "refuted") = H /\ H = DisproofLenses \ R /\ R \subseteq DisproofLenses
  BY <1>1, <1>2 DEF Held
<1>4. Cardinality(R) \in Nat /\ Cardinality(H) = 3 - Cardinality(R)
  <2>1. IsFiniteSet(R) /\ DisproofLenses \cap R = R
    BY <1>3, PanelOfThree, FS_Subset
  <2>2. Cardinality(DisproofLenses \ R) = Cardinality(DisproofLenses) - Cardinality(DisproofLenses \cap R)
    BY PanelOfThree, FS_Difference
  <2> QED
    BY <1>3, <2>1, <2>2, PanelOfThree, FS_CardinalityType
<1>5. Cardinality(R) < Cardinality(H) /\ BypassLens \notin R
  BY <1>3 DEF DisproofUpheld
<1>6. BypassLens \in DisproofLenses
  BY DEF DisproofLenses
<1> QED
  BY <1>2, <1>4, <1>5, <1>6

-----------------------------------------------------------------------------
(* The steps of a dive. *)

\* A stage that goes on changes nothing but the stage.
LEMMA ProceedsKeeps ==
  ASSUME DiveInv, NEW pc \in Stages, Proceeds(pc)
  PROVE  DiveInv'
<1>1. dive \in DiveType
  BY DEF DiveInv
<1>2. dive' \in DiveType
  BY <1>1 DEF Proceeds, DiveType
<1>3. /\ dive'.traced = dive.traced /\ dive'.known = dive.known
      /\ dive'.verdict = dive.verdict /\ dive'.exit = dive.exit
      /\ dive'.trusted = dive.trusted /\ dive'.panel = dive.panel
  BY <1>1 DEF Proceeds, DiveType
<1>4. KnowledgeIsOneCommit'
  BY <1>3 DEF DiveInv, KnowledgeIsOneCommit
<1>5. DismissalIsEarned'
  BY <1>3 DEF DiveInv, DismissalIsEarned
<1> QED
  BY <1>2, <1>4, <1>5 DEF DiveInv

\* A dive ends well with a verdict it has earned.
LEMMA OverKeeps ==
  ASSUME NEW trusted \in BOOLEAN, NEW verdict \in Verdicts, NEW exit \in Exits,
         NEW panel \in Panels, Earned(trusted, verdict, exit, panel),
         Over(trusted, verdict, exit, panel)
  PROVE  DiveInv'
<1>1. 0 \in Commit
  BY ProfileBounds DEF Commit
<1>2. NoDive \in DiveType /\ NoDive.traced = 0 /\ NoDive.known = {}
  BY <1>1 DEF NoDive, DiveType, Verdicts, Exits, Panels
<1>3. /\ dive'.traced = 0 /\ dive'.trusted = trusted /\ dive'.verdict = verdict
      /\ dive'.exit = exit /\ dive'.panel = panel
  BY DEF Over, NoDive
<1>4. dive' \in DiveType
  BY <1>2 DEF Over, DiveType
<1>5. KnowledgeIsOneCommit'
  BY <1>3 DEF KnowledgeIsOneCommit
<1>6. DismissalIsEarned'
  BY <1>3 DEF DismissalIsEarned, Earned
<1> QED
  BY <1>4, <1>5, <1>6 DEF DiveInv

\* The gate keeps a dismissal from a model that is not trusted with one.
LEMMA ConcludesKeeps ==
  ASSUME DiveInv, NEW verdict \in Verdicts, NEW exit \in Exits \ {"quick"}, NEW panel \in Panels,
         verdict \in Clears => Earned(TRUE, verdict, exit, panel),
         Concludes(verdict, exit, panel)
  PROVE  DiveInv'
<1>1. dive.trusted \in BOOLEAN
  BY DEF DiveInv, DiveType
<1>2. Gated(verdict) \in Verdicts /\ (Gated(verdict) \in Clears => dive.trusted)
  BY <1>1 DEF Gated, Verdicts, Clears
<1>3. Gated(verdict) \in Clears => verdict = Gated(verdict)
  BY DEF Gated, Clears
<1>4. Earned(dive.trusted, Gated(verdict), exit, panel)
  BY <1>1, <1>2, <1>3 DEF Earned
<1> QED
  BY <1>1, <1>2, <1>4, OverKeeps DEF Concludes

LEMMA DiveStepKeeps == DiveInv /\ DiveStep => DiveInv'
<1> SUFFICES ASSUME DiveInv, DiveStep PROVE DiveInv'
  OBVIOUS
<1>a. <<>> \in Panels /\ "needs_review" \in Verdicts \ Clears /\ "real" \in Verdicts \ Clears
  BY DEF Panels, Verdicts, Clears
<1>1. CASE GatherFacts
  BY <1>1, ProceedsKeeps DEF GatherFacts, Stages
<1>2. CASE RuleOut
  <2>1. PICK class \in KillClasses \cup {"none"}, backed \in BOOLEAN :
          IF KillHonored(class, backed)
            THEN \E v \in Closes :
                   Concludes(v, IF class # "hunch" /\ backed THEN "corroborated" ELSE "hunch",
                             <<>>)
            ELSE Proceeds("trace")
    BY <1>2 DEF RuleOut
  <2>2. CASE KillHonored(class, backed)
    <3>1. PICK v \in Closes : Concludes(v, "corroborated", <<>>)
      BY <2>1, <2>2 DEF KillHonored
    <3>2. Earned(TRUE, v, "corroborated", <<>>) /\ v \in Verdicts
      BY DEF Earned, Closes, Clears, Verdicts
    <3> QED
      BY <3>1, <3>2, <1>a, ConcludesKeeps DEF Exits
  <2>3. CASE ~ KillHonored(class, backed)
    BY <2>1, <2>3, ProceedsKeeps DEF Stages
  <2> QED
    BY <2>2, <2>3
<1>3. CASE TracePath
  <2>1. Proceeds("disproof") \/ Proceeds("plan") \/ Concludes("needs_review", "trace", <<>>)
    BY <1>3 DEF TracePath
  <2> QED
    BY <2>1, <1>a, ProceedsKeeps, ConcludesKeeps DEF Stages, Exits
<1>4. CASE DisproofChallenge
  <2>1. PICK panel \in [DisproofLenses -> Answers] :
          Concludes(IF DisproofUpheld(panel) THEN "unexploitable" ELSE "needs_review",
                    "disproof", panel)
    BY <1>4 DEF DisproofChallenge
  <2>2. panel \in Panels /\ "unexploitable" \in Verdicts
    BY DEF Panels, Verdicts
  <2>3. CASE DisproofUpheld(panel)
    <3>1. Earned(TRUE, "unexploitable", "disproof", panel)
      BY <2>3, UpheldIsEarned DEF Earned
    <3> QED
      BY <2>1, <2>2, <2>3, <3>1, ConcludesKeeps DEF Exits
  <2>4. CASE ~ DisproofUpheld(panel)
    BY <2>1, <2>2, <2>4, <1>a, ConcludesKeeps DEF Exits
  <2> QED
    BY <2>3, <2>4
<1>5. CASE PlanExploit
  <2>1. Proceeds("challenge") \/ Concludes("unexploitable", "hardening", <<>>)
    BY <1>5 DEF PlanExploit
  <2>2. Earned(TRUE, "unexploitable", "hardening", <<>>) /\ "unexploitable" \in Verdicts
    BY DEF Earned, Verdicts
  <2> QED
    BY <2>1, <2>2, <1>a, ProceedsKeeps, ConcludesKeeps DEF Stages, Exits
<1>6. CASE Challenge
  <2>1. PICK panel \in [ChallengeLenses -> Answers] :
          Concludes(IF VerdictHolds(panel) THEN "real" ELSE "needs_review", "challenge", panel)
    BY <1>6 DEF Challenge
  <2>2. panel \in Panels
    BY DEF Panels
  <2>3. CASE VerdictHolds(panel)
    BY <2>1, <2>2, <2>3, <1>a, ConcludesKeeps DEF Exits
  <2>4. CASE ~ VerdictHolds(panel)
    BY <2>1, <2>2, <2>4, <1>a, ConcludesKeeps DEF Exits
  <2> QED
    BY <2>3, <2>4
<1>7. CASE Incomplete
  BY <1>7, <1>a, ConcludesKeeps DEF Incomplete, Exits
<1>8. CASE Raises
  <2>1. dive.trusted \in BOOLEAN /\ dive.quick \in Verdicts
    BY DEF DiveInv, DiveType
  <2>2. Earned(dive.trusted, dive.quick, "quick", <<>>)
    BY DEF Earned
  <2> QED
    BY <1>8, <2>1, <2>2, <1>a, OverKeeps DEF Raises, Exits
<1> QED
  BY <1>1, <1>2, <1>3, <1>4, <1>5, <1>6, <1>7, <1>8 DEF DiveStep

-----------------------------------------------------------------------------
(* The beginning of a dive. *)

\* A profile that is ready hands over artifacts of the one commit its row names.
LEMMA BeginKeeps ==
  ASSUME PInv, NEW source, NEW quick \in Verdicts, NEW stakes, NEW trusted \in BOOLEAN,
         Begin(source, quick, stakes, trusted)
  PROVE  DiveInv'
<1>1. 0 \in Commit /\ row.sha \in Commit
  BY ProfileBounds DEF PInv, ProfileTypeOK, Commit
<1>2. row.status = "ready"
  BY DEF Begin, ProfileUsable
<1>3. \A a \in Artifact : store[a] = row.sha
  BY <1>2 DEF PInv, ReadyIsOneCommit
<1>4. {store[a] : a \in Artifact} = {row.sha}
  BY <1>3, BuildersAre
<1>5. NoDive \in DiveType
  BY <1>1 DEF NoDive, DiveType, Verdicts, Exits, Panels
<1>6. dive' = [NoDive EXCEPT !.pc = "gather", !.quick = quick, !.trusted = trusted,
                             !.traced = row.sha, !.known = {row.sha}]
  BY <1>4 DEF Begin
<1>7. dive' \in DiveType
  BY <1>1, <1>5, <1>6 DEF DiveType, Stages
<1>8. dive'.traced = row.sha /\ dive'.known = {row.sha} /\ dive'.verdict = "none"
  BY <1>6 DEF NoDive
<1> QED
  BY <1>7, <1>8 DEF DiveInv, KnowledgeIsOneCommit, DismissalIsEarned, Clears

LEMMA DStep == DInv /\ [Next]_vars => DInv'
<1> SUFFICES ASSUME DInv, [Next]_vars PROVE DInv'
  OBVIOUS
<1>a. PInv /\ DiveInv
  BY DEF DInv
<1>1. CASE UNCHANGED vars
  <2>1. UNCHANGED profileVars /\ dive' = dive
    BY <1>1 DEF vars
  <2>2. PInv'
    BY <1>a, <2>1, ProfileStepInv
  <2>3. DiveInv'
    BY <1>a, <2>1 DEF DiveInv, KnowledgeIsOneCommit, DismissalIsEarned
  <2> QED
    BY <2>2, <2>3 DEF DInv
<1>2. CASE Triage /\ UNCHANGED profileVars
  <2>1. PInv'
    BY <1>a, <1>2, ProfileStepInv
  <2>2. PICK source \in {"scanner", "report"}, quick \in Verdicts, stakes \in BOOLEAN :
          \/ \E trusted \in BOOLEAN : Begin(source, quick, stakes, trusted)
          \/ Declined(source, quick, stakes)
    BY <1>2 DEF Triage
  <2>3. CASE \E trusted \in BOOLEAN : Begin(source, quick, stakes, trusted)
    BY <1>a, <2>1, <2>3, BeginKeeps DEF DInv
  <2>4. CASE Declined(source, quick, stakes)
    <3>1. Earned(FALSE, quick, "quick", <<>>) /\ <<>> \in Panels
      BY DEF Earned, Panels
    <3>2. DiveInv'
      BY <2>4, <3>1, OverKeeps DEF Declined, Exits
    <3> QED
      BY <2>1, <3>2 DEF DInv
  <2> QED
    BY <2>2, <2>3, <2>4
<1>3. CASE DiveStep /\ UNCHANGED profileVars
  BY <1>a, <1>3, ProfileStepInv, DiveStepKeeps DEF DInv
<1>4. CASE ProfileStep
  <2>1. PInv'
    BY <1>a, <1>4, ProfileStepInv DEF ProfileStep
  <2>2. DiveInv'
    <3>1. CASE dive' = dive
      BY <1>a, <3>1 DEF DiveInv, KnowledgeIsOneCommit, DismissalIsEarned
    <3>2. CASE dive' = NoDive
      <4>1. 0 \in Commit
        BY ProfileBounds DEF Commit
      <4>2. NoDive \in DiveType
        BY <4>1 DEF NoDive, DiveType, Verdicts, Exits, Panels
      <4>3. NoDive.traced = 0 /\ NoDive.verdict = "none"
        BY DEF NoDive
      <4> QED
        BY <3>2, <4>2, <4>3 DEF DiveInv, KnowledgeIsOneCommit, DismissalIsEarned, Clears
    <3> QED
      BY <1>4, <3>1, <3>2 DEF ProfileStep
  <2> QED
    BY <2>1, <2>2 DEF DInv
<1> QED
  BY <1>1, <1>2, <1>3, <1>4 DEF Next

LEMMA DInit == Init => DInv
<1> SUFFICES ASSUME Init PROVE DInv
  OBVIOUS
<1>1. PInv /\ dive = NoDive
  BY ProfileInitInv DEF Init
<1>2. 0 \in Commit
  BY ProfileBounds DEF Commit
<1>3. NoDive \in DiveType /\ NoDive.traced = 0 /\ NoDive.verdict = "none"
  BY <1>2 DEF NoDive, DiveType, Verdicts, Exits, Panels
<1> QED
  BY <1>1, <1>3 DEF DInv, DiveInv, KnowledgeIsOneCommit, DismissalIsEarned, Clears

LEMMA DInductive == Spec => []DInv
BY DInit, DStep, PTL DEF Spec

-----------------------------------------------------------------------------
(* The theorems. *)

\* A dive stands at a stage the runner has, with a verdict and an exit it knows, and what it
\* has read are commits.
THEOREM DiveTypeCorrect == Spec => []TypeOK
<1>1. DInv => TypeOK
  BY DEF DInv, DiveInv, DiveType, Exits, TypeOK
<1> QED
  BY <1>1, DInductive, PTL

\* Beside dives, too, a profile that says ready is of one commit.
THEOREM ProfileStaysOneCommit == Spec => []ReadyIsOneCommit
<1>1. DInv => ReadyIsOneCommit
  BY DEF DInv, PInv
<1> QED
  BY <1>1, DInductive, PTL

\* A dive starts from artifacts of the one commit that its provenance names, whatever builds
\* ran, failed or died before.
THEOREM DiveKnowsOneCommit == Spec => []KnowledgeIsOneCommit
<1>1. DInv => KnowledgeIsOneCommit
  BY DEF DInv, DiveInv
<1> QED
  BY <1>1, DInductive, PTL

\* No untrusted model, crash, timeout or missing reviewer adds up to a dismissal.
THEOREM DismissalsAreEarned == Spec => []DismissalIsEarned
<1>1. DInv => DismissalIsEarned
  BY DEF DInv, DiveInv
<1> QED
  BY <1>1, DInductive, PTL
=============================================================================
