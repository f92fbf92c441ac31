------------------------------ MODULE EagerProofs ------------------------------
(***************************************************************************)
(* Proofs about EagerCache for every number of goroutines, chunks and      *)
(* evicting processes, and that it implements BlobSource.                  *)
(***************************************************************************)
EXTENDS EagerCache, TLAPS

(* Types: every directory that DirInit starts from is well formed. *)
LEMMA TypeInit == EagerInit => EagerTypeOK
<1> SUFFICES ASSUME EagerInit PROVE EagerTypeOK
  OBVIOUS
<1>1. PICK b \in Inodes, p \in Inodes, t \in Inodes, R \in SUBSET Chunks,
           kind \in Leftovers : LeftBehind(kind, b, p, t, R)
  BY DEF EagerInit, DirInit
<1>2. PICK which \in SUBSET Names, content \in File, e \in Entry :
        Holds(b, p, t, which, content, e)
  BY <1>1 DEF LeftBehind, Names, File, Entry, EmptyFile, NoEntry, CompleteEntry, PartialEntry
<1>3. /\ name \in [Names -> Inodes \cup {NoInode}]
      /\ entry \in Entry
  BY <1>2 DEF Holds
<1>4. data \in [Inodes -> File]
  BY <1>2 DEF Holds, File, EmptyFile, FullFile
<1>5. pos \in [Actors -> 0..Size]
  BY SizeAssumption DEF EagerInit, DirInit
<1>6. /\ mu \in SUBSET Actors
      /\ pc \in [Actors -> Labels]
      /\ fd \in [Actors -> Inodes \cup {NoInode}]
      /\ sound \in [Actors -> BOOLEAN]
  BY DEF EagerInit, DirInit, Labels
<1>7. op \in [Openers -> Ops] /\ have \in [Openers -> SUBSET Chunks]
  BY DEF EagerInit, Ops
<1>8. QED
  BY <1>3, <1>4, <1>5, <1>6, <1>7 DEF EagerTypeOK, DirTypeOK

(* Written gives a file: chunks of the blob below its end, some of them right. *)
LEMMA WrittenType ==
  ASSUME data \in [Inodes -> File], NEW f \in Inodes, NEW C \in SUBSET Chunks,
         NEW right \in BOOLEAN
  PROVE  Written(f, C, right) \in File
BY DEF Written, File

(* A write through a descriptor that is closed goes nowhere. *)
LEMMA WriteType ==
  ASSUME data \in [Inodes -> File], NEW f \in Inodes \cup {NoInode}, NEW C \in SUBSET Chunks,
         NEW right \in BOOLEAN
  PROVE  [data EXCEPT ![f] = Written(f, C, right)] \in [Inodes -> File]
<1>1. CASE f \in Inodes
  BY <1>1, WrittenType
<1>2. CASE f \notin Inodes
  BY <1>2
<1>3. QED
  BY <1>1, <1>2

(* Types: the hit path, self-healing and the return of a call. *)
LEMMA HitType ==
  ASSUME EagerTypeOK, NEW a \in Openers, Hit(a) PROVE EagerTypeOK'
<1> USE OpenersAssumption DEF EagerTypeOK, DirTypeOK, Goto, Labels, dirVars, actVars, eagerLocals
<1>1. CASE op[a] # "prefetch" /\ LoadCompleteEntry(a, "lock") /\ UNCHANGED eagerLocals
  BY <1>1 DEF LoadCompleteEntry
<1>2. CASE OpenHit(a) /\ UNCHANGED eagerLocals
  BY <1>2 DEF OpenHit, BlobOpens, Has, Names
<1>3. CASE TouchEntry(a) /\ UNCHANGED eagerLocals
  BY <1>3 DEF TouchEntry, SaveEntry, CompleteEntry, Entry
<1>4. CASE SelfHeal(a, "lock") /\ UNCHANGED eagerLocals
  BY <1>4 DEF SelfHeal, EvictBlob, EvictPartial, EvictEntry, Unlink, Names, NoEntry, Entry
<1>5. CASE CloseFile(a) /\ UNCHANGED eagerLocals
  BY <1>5 DEF CloseFile
<1>6. CASE ReturnError(a) /\ UNCHANGED eagerLocals
  BY <1>6 DEF ReturnError
<1>7. QED
  BY <1>1, <1>2, <1>3, <1>4, <1>5, <1>6 DEF Hit

(* Types: the beginning of a call, the lock of downloadBlob and the final open. *)
LEMMA LockType ==
  ASSUME EagerTypeOK, NEW a \in Openers,
         BeginOp(a) \/ PrefetchLoad(a) \/ LockAndLoad(a) \/ Reopen(a)
  PROVE  EagerTypeOK'
<1> USE OpenersAssumption DEF EagerTypeOK, DirTypeOK, Goto, Labels, dirVars, actVars, eagerLocals
<1>1. CASE BeginOp(a)
  BY <1>1 DEF BeginOp, Begin, Ops
<1>2. CASE PrefetchLoad(a)
  BY <1>2 DEF PrefetchLoad
<1>3. CASE LockAndLoad(a)
  BY <1>3 DEF LockAndLoad, AfterDownload, Resumable, Has, Names, Entry
<1>4. CASE Reopen(a)
  BY <1>4 DEF Reopen, BlobOpens, Has, Names
<1>5. QED
  BY <1>1, <1>2, <1>3, <1>4

(* The first gap is made of missing chunks. *)
LEMMA FirstGapType == ASSUME NEW R PROVE FirstGap(R) \in SUBSET (Chunks \ R)
BY DEF FirstGap

(* Types: resumeDownload. *)
LEMMA ResumeType ==
  ASSUME EagerTypeOK, NEW a \in Openers, Resume(a)
  PROVE  EagerTypeOK'
<1> USE OpenersAssumption DEF EagerTypeOK, DirTypeOK, Goto, Labels, dirVars, actVars, eagerLocals
<1>1. CASE FetchGap(a)
  <2>1. FirstGap(have[a]) \in SUBSET Chunks
    BY FirstGapType
  <2>2. PICK right \in BOOLEAN :
          data' = [data EXCEPT ![fd[a]] = Written(fd[a], FirstGap(have[a]), right)]
    BY <1>1 DEF FetchGap
  <2>3. data' \in [Inodes -> File]
    BY <2>1, <2>2, WriteType
  <2>4. have' \in [Openers -> SUBSET Chunks]
    BY <1>1, <2>1 DEF FetchGap
  <2>5. QED
    BY <1>1, <2>3, <2>4 DEF FetchGap
<1>2. CASE GapFails(a)
  <2>1. \A c : {d \in FirstGap(have[a]) : d < c} \in SUBSET Chunks
    BY FirstGapType
  <2>2. data' \in [Inodes -> File]
    <3>1. CASE UNCHANGED data
      BY <3>1
    <3>2. ASSUME NEW c \in FirstGap(have[a]),
                 data' = [data EXCEPT ![fd[a]] =
                            Written(fd[a], {d \in FirstGap(have[a]) : d < c}, TRUE)]
          PROVE  data' \in [Inodes -> File]
      <4> DEFINE C == {d \in FirstGap(have[a]) : d < c}
      <4>1. C \in SUBSET Chunks
        BY <2>1
      <4> HIDE DEF C
      <4>2. data' = [data EXCEPT ![fd[a]] = Written(fd[a], C, TRUE)]
        BY <3>2 DEF C
      <4>3. QED
        BY <4>1, <4>2, WriteType
    <3>3. QED
      BY <1>2, <3>1, <3>2 DEF GapFails
  <2>3. entry' \in Entry
    BY <1>2 DEF GapFails, SaveEntry, PartialEntry, Entry
  <2>4. QED
    BY <1>2, <2>2, <2>3 DEF GapFails, EndResume
<1>3. CASE GapNotSupported(a)
  BY <1>3 DEF GapNotSupported, EndResume
<1>4. CASE VerifyResumed(a)
  BY <1>4 DEF VerifyResumed, EndResume, Unlink, Names
<1>5. CASE ForgetResumed(a)
  BY <1>5 DEF ForgetResumed, NoEntry, Entry
<1>6. CASE InstallResumed(a)
  BY <1>6 DEF InstallResumed, Rename, Has, Names
<1>7. QED
  BY <1>1, <1>2, <1>3, <1>4, <1>5, <1>6 DEF Resume

(* Types: fullDownload. *)
LEMMA DownloadType ==
  ASSUME EagerTypeOK, NEW a \in Openers, FullDownload(a)
  PROVE  EagerTypeOK'
<1> USE OpenersAssumption, SizeAssumption
    DEF EagerTypeOK, DirTypeOK, Goto, Labels, dirVars, actVars, eagerLocals
<1>1. CASE RemovePartial(a)
  BY <1>1 DEF RemovePartial, Unlink, Names
<1>2. CASE FetchBlob(a)
  <2>1. PICK f \in Inodes : /\ name' = [name EXCEPT !["tmp"] = f]
                            /\ data' = [data EXCEPT ![f] = EmptyFile]
                            /\ fd' = [fd EXCEPT ![a] = f]
    BY <1>2 DEF FetchBlob, OpenTmp, OpenTruncated, Has, Names
  <2>2. QED
    BY <1>2, <2>1 DEF FetchBlob, OpenTmp, EmptyFile, File, Names
<1>3. CASE FetchRefused(a)
  BY <1>3 DEF FetchRefused
<1>4. CASE CopyChunk(a) /\ UNCHANGED eagerLocals
  <2>1. {pos[a] + 1} \in SUBSET Chunks
    BY <1>4 DEF CopyChunk, Chunks
  <2>2. PICK right \in BOOLEAN :
          /\ data' = [data EXCEPT ![fd[a]] = Written(fd[a], {pos[a] + 1}, right)]
          /\ sound' = [sound EXCEPT ![a] = sound[a] /\ right]
    BY <1>4 DEF CopyChunk
  <2>3. data' \in [Inodes -> File]
    BY <2>1, <2>2, WriteType
  <2>4. sound' \in [Actors -> BOOLEAN]
    BY <2>2
  <2>5. pos' \in [Actors -> 0..Size]
    BY <1>4 DEF CopyChunk
  <2>6. QED
    BY <1>4, <2>3, <2>4, <2>5 DEF CopyChunk
<1>5. CASE CopyEnds(a) /\ UNCHANGED eagerLocals
  BY <1>5 DEF CopyEnds
<1>6. CASE DiscardDownload(a)
  BY <1>6 DEF DiscardDownload, ForgetStream, Unlink, Names
<1>7. CASE InstallDownload(a)
  BY <1>7 DEF InstallDownload, ForgetStream, Rename, Has, Names
<1>8. CASE SaveComplete(a)
  BY <1>8 DEF SaveComplete, AfterDownload, SaveEntry, CompleteEntry, Entry
<1>9. QED
  BY <1>1, <1>2, <1>3, <1>4, <1>5, <1>6, <1>7, <1>8 DEF FullDownload, Copy

(* Types: Evict and Clear. *)
LEMMA EvictorType ==
  ASSUME EagerTypeOK, NEW e \in Evictors, Evictor(e), UNCHANGED eagerLocals
  PROVE  EagerTypeOK'
<1> USE OpenersAssumption DEF EagerTypeOK, DirTypeOK, Goto, Labels, dirVars, actVars, eagerLocals
<1>1. CASE EvictBlob(e, "idle") \/ EvictPartial(e) \/ EvictEntry(e, "idle")
  BY <1>1 DEF EvictBlob, EvictPartial, EvictEntry, Unlink, Names, NoEntry, Entry
<1>2. CASE ClearBegin(e) \/ ClearFile(e) \/ ClearEntries(e)
  BY <1>2 DEF ClearBegin, ClearFile, ClearEntries, Unlink, NoEntry, Entry
<1>3. QED
  BY <1>1, <1>2 DEF Evictor

(* Types: a killed process. *)
LEMMA CrashType ==
  ASSUME EagerTypeOK, NEW p, CrashOf(p), UNCHANGED eagerLocals
  PROVE  EagerTypeOK'
<1> USE SizeAssumption DEF EagerTypeOK, DirTypeOK, CrashOf, dirVars, eagerLocals
<1>1. pc' \in [Actors -> Labels]
  BY DEF Labels
<1>2. fd' \in [Actors -> Inodes \cup {NoInode}]
  OBVIOUS
<1>3. pos' \in [Actors -> 0..Size]
  OBVIOUS
<1>4. sound' \in [Actors -> BOOLEAN]
  OBVIOUS
<1>5. QED
  BY <1>1, <1>2, <1>3, <1>4

-------------------------------------------------------------------------------
(* Who is between Lock and Unlock. *)

(* While one opener is between Lock and Unlock, no other one is. *)
LEMMA OthersUnlocked ==
  ASSUME MutexHeld, NEW a \in Openers, pc[a] \in Locked, NEW b \in Openers, b # a
  PROVE  pc[b] \notin Locked
BY DEF MutexHeld

(* An opener that finds c.mu free finds no opener between Lock and Unlock. *)
LEMMA NobodyLocked ==
  ASSUME OneOpenerProcess, MutexHeld, NEW a \in Openers, MuFree(a), NEW b \in Openers
  PROVE  b \notin mu /\ pc[b] \notin Locked
BY DEF MutexHeld, MuFree, OneOpenerProcess

(* A step that only removes names and leaves a without a file keeps the files safe. *)
Quiet == Labels \ (Reading \cup {"gap", "copy", "check", "rinstall"})

(* A step that at most unlinks names and ends outside reads and writes is harmless. *)
LEMMA QuietStep ==
  ASSUME EagerTypeOK, FilesSafe, NEW a \in Actors,
         name' \in [Names -> Inodes \cup {NoInode}],
         \A n \in Names : name'[n] \in {name[n], NoInode},
         data' = data,
         fd' = [fd EXCEPT ![a] = NoInode],
         NEW l \in Quiet, pc' = [pc EXCEPT ![a] = l],
         pos' = [pos EXCEPT ![a] = 0],
         sound' = [sound EXCEPT ![a] = TRUE]
  PROVE  FilesSafe'
<1> USE OpenersAssumption, NoInodeAssumption DEF EagerTypeOK, DirTypeOK, FilesSafe, Quiet
<1>1. NamesDistinct'
  BY DEF NamesDistinct, Has
<1>2. FdsUsed'
  BY DEF FdsUsed
<1>3. ReadersIntact'
  BY DEF ReadersIntact, Intact, Names
<1>4. WritersAlone'
  BY DEF WritersAlone, WritesAlone, Has, Names
<1>5. CopyIsPrefix'
  BY DEF CopyIsPrefix, Has, Names, Prefix
<1>6. ResumedIntact'
  BY DEF ResumedIntact, Intact, Has, Names
<1>7. StreamsForgotten'
  BY DEF StreamsForgotten
<1>8. InstalledBlobIntact'
  BY DEF InstalledBlobIntact, Intact, Has, Names
<1>9. QED
  BY <1>1, <1>2, <1>3, <1>4, <1>5, <1>6, <1>7, <1>8

-------------------------------------------------------------------------------
(* The mutex: an opener enters with the lock it takes and leaves when it gives it up. *)

(* An opener that keeps, leaves or takes a free lock in step with its place is harmless. *)
LEMMA MutexStep ==
  ASSUME OneOpenerProcess, EagerTypeOK, MutexHeld, NEW a \in Openers,
         NEW l \in Labels, pc' = [pc EXCEPT ![a] = l],
         \/ mu' = mu /\ (l \in Locked => pc[a] \in Locked)
         \/ mu' = mu \ {a} /\ l \notin Locked
         \/ MuFree(a) /\ mu' = mu \cup {a}
  PROVE  MutexHeld'
<1> USE OpenersAssumption DEF EagerTypeOK, DirTypeOK
<1>1. CASE mu' = mu /\ (l \in Locked => pc[a] \in Locked)
  BY <1>1 DEF MutexHeld
<1>2. CASE mu' = mu \ {a} /\ l \notin Locked
  BY <1>2 DEF MutexHeld
<1>3. CASE MuFree(a) /\ mu' = mu \cup {a}
  BY <1>3, NobodyLocked DEF MutexHeld
<1>4. QED
  BY <1>1, <1>2, <1>3

(* Every step of an opener takes and gives up c.mu at the ends of the locked section. *)
LEMMA OpenerMutex ==
  ASSUME OneOpenerProcess, EagerTypeOK, MutexHeld, NEW a \in Openers, EagerOpener(a)
  PROVE  MutexHeld'
<1> USE OpenersAssumption DEF Goto, Locked, actVars, Labels
<1>1. CASE BeginOp(a) \/ PrefetchLoad(a) \/ Reopen(a)
  BY <1>1, MutexStep DEF BeginOp, Begin, PrefetchLoad, Reopen
<1>2. CASE LockAndLoad(a)
  BY <1>2, MutexStep DEF LockAndLoad, AfterDownload
<1>3. CASE Hit(a)
  <2>1. CASE LoadCompleteEntry(a, "lock") \/ OpenHit(a) \/ TouchEntry(a)
             \/ CloseFile(a) \/ ReturnError(a)
    BY <2>1, MutexStep DEF LoadCompleteEntry, OpenHit, TouchEntry, CloseFile, ReturnError
  <2>2. CASE SelfHeal(a, "lock")
    BY <2>2, MutexStep DEF SelfHeal, EvictBlob, EvictPartial, EvictEntry
  <2>3. QED
    BY <1>3, <2>1, <2>2 DEF Hit
<1>4. CASE Resume(a)
  <2>1. CASE FetchGap(a)
    <3>1. pc' = [pc EXCEPT ![a] = "gap"] /\ mu' = mu
      BY <2>1 DEF FetchGap, EagerTypeOK, DirTypeOK
    <3>2. QED
      BY <2>1, <3>1, MutexStep DEF FetchGap
  <2>2. CASE GapFails(a) \/ GapNotSupported(a) \/ VerifyResumed(a)
             \/ ForgetResumed(a) \/ InstallResumed(a)
    BY <2>2, MutexStep
       DEF GapFails, GapNotSupported, VerifyResumed, ForgetResumed, InstallResumed, dirVars
  <2>3. QED
    BY <1>4, <2>1, <2>2 DEF Resume
<1>5. CASE FullDownload(a)
  <2>1. CASE CopyChunk(a)
    <3>1. pc' = [pc EXCEPT ![a] = "copy"] /\ mu' = mu
      BY <2>1 DEF CopyChunk, EagerTypeOK, DirTypeOK
    <3>2. QED
      BY <2>1, <3>1, MutexStep DEF CopyChunk
  <2>2. CASE RemovePartial(a) \/ FetchBlob(a) \/ FetchRefused(a) \/ CopyEnds(a)
    BY <2>2, MutexStep DEF RemovePartial, FetchBlob, OpenTmp, FetchRefused, CopyEnds
  <2>3. CASE DiscardDownload(a) \/ InstallDownload(a) \/ SaveComplete(a)
    BY <2>3, MutexStep DEF DiscardDownload, InstallDownload, SaveComplete, AfterDownload
  <2>4. QED
    BY <1>5, <2>1, <2>2, <2>3 DEF FullDownload, Copy
<1>6. QED
  BY <1>1, <1>2, <1>3, <1>4, <1>5 DEF EagerOpener, EagerWork

(* An evictor takes and gives up its own hold of the lock only. *)
LEMMA EvictorMutex ==
  ASSUME EagerTypeOK, MutexHeld, NEW e \in Evictors, Evictor(e)
  PROVE  MutexHeld'
<1>1. e \notin Openers
  BY RolesAssumption
<1>2. \A a \in Openers : pc'[a] = pc[a] /\ (a \in mu' <=> a \in mu)
  BY <1>1, OpenersAssumption
     DEF Evictor, EvictBlob, EvictPartial, EvictEntry, ClearBegin, ClearFile, ClearEntries,
         Goto, EagerTypeOK, DirTypeOK, actVars
<1>3. QED
  BY <1>2 DEF MutexHeld

(* A killed process leaves no actor in the locked section and none in mu. *)
LEMMA CrashMutex ==
  ASSUME EagerTypeOK, MutexHeld, NEW p, CrashOf(p)
  PROVE  MutexHeld'
BY OpenersAssumption DEF CrashOf, MutexHeld, Locked, EagerTypeOK, DirTypeOK

-------------------------------------------------------------------------------
(* The files: one lemma for the quiet steps of an opener, one for each other kind. *)

(* An actor outside its reads and writes has no file and no stream to lose. *)
LEMMA NoFileHeld ==
  ASSUME EagerTypeOK, FilesSafe, NEW a \in Openers,
         pc[a] \notin Reading \cup {"gap", "copy", "check"}
  PROVE  /\ fd = [fd EXCEPT ![a] = NoInode]
         /\ pos = [pos EXCEPT ![a] = 0]
         /\ sound = [sound EXCEPT ![a] = TRUE]
<1> USE OpenersAssumption DEF EagerTypeOK, DirTypeOK, FilesSafe
<1>1. fd[a] = NoInode
  BY DEF FdsUsed
<1>2. pos[a] = 0 /\ sound[a] = TRUE
  BY DEF StreamsForgotten
<1>3. QED
  BY <1>1, <1>2

(* Steps that unlink names at most and leave the actor outside its reads and writes. *)
LEMMA QuietSteps ==
  ASSUME EagerTypeOK, FilesSafe, NEW a \in Openers, EagerTypeOK',
         \/ BeginOp(a) \/ PrefetchLoad(a)
         \/ LoadCompleteEntry(a, "lock") \/ ReturnError(a) \/ SelfHeal(a, "lock")
         \/ ForgetResumed(a) \/ RemovePartial(a) \/ FetchRefused(a) \/ SaveComplete(a)
         \/ LockAndLoad(a) /\ pc'[a] # "gap"
         \/ InstallResumed(a) /\ pc'[a] = "full"
         \/ OpenHit(a) /\ pc'[a] = "heal"
         \/ Reopen(a) /\ pc'[a] = "broken"
  PROVE  FilesSafe'
<1> USE OpenersAssumption DEF EagerTypeOK, DirTypeOK, Goto, dirVars
<1>1. pc[a] \notin Reading \cup {"gap", "copy", "check"}
  BY DEF BeginOp, Begin, PrefetchLoad, LoadCompleteEntry, ReturnError, SelfHeal, EvictBlob,
         EvictPartial, EvictEntry, ForgetResumed, RemovePartial, FetchRefused, SaveComplete,
         LockAndLoad, InstallResumed, OpenHit, Reopen, Reading
<1>2. fd' = fd /\ pos' = pos /\ sound' = sound /\ data' = data
  BY DEF BeginOp, Begin, PrefetchLoad, LoadCompleteEntry, ReturnError, SelfHeal, EvictBlob,
         EvictPartial, EvictEntry, ForgetResumed, RemovePartial, FetchRefused, SaveComplete,
         LockAndLoad, InstallResumed, OpenHit, Reopen, AfterDownload
<1>3. \A n \in Names : name'[n] \in {name[n], NoInode}
  BY DEF BeginOp, Begin, PrefetchLoad, LoadCompleteEntry, ReturnError, SelfHeal, EvictBlob,
         EvictPartial, EvictEntry, ForgetResumed, RemovePartial, FetchRefused, SaveComplete,
         LockAndLoad, InstallResumed, OpenHit, Reopen, Unlink, Names
<1>4. PICK l \in Quiet : pc' = [pc EXCEPT ![a] = l]
  BY DEF BeginOp, Begin, PrefetchLoad, LoadCompleteEntry, ReturnError, SelfHeal, EvictBlob,
         EvictPartial, EvictEntry, ForgetResumed, RemovePartial, FetchRefused, SaveComplete,
         LockAndLoad, InstallResumed, OpenHit, Reopen, AfterDownload, Quiet, Labels, Reading
<1>5. /\ fd' = [fd EXCEPT ![a] = NoInode]
      /\ pos' = [pos EXCEPT ![a] = 0]
      /\ sound' = [sound EXCEPT ![a] = TRUE]
  BY <1>1, <1>2, NoFileHeld
<1>6. QED
  BY <1>2, <1>3, <1>4, <1>5, QuietStep

(* The end of a read, of a failed stream, of a resume: the file is closed first. *)
LEMMA ClosingSteps ==
  ASSUME EagerTypeOK, FilesSafe, NEW a \in Openers, EagerTypeOK',
         \/ CloseFile(a) \/ DiscardDownload(a) \/ GapNotSupported(a)
         \/ VerifyResumed(a) /\ pc'[a] = "rforget"
         \/ InstallDownload(a) /\ pc'[a] = "broken"
  PROVE  FilesSafe'
<1> USE OpenersAssumption DEF EagerTypeOK, DirTypeOK, Goto, dirVars
<1>1. /\ data' = data
      /\ \A n \in Names : name'[n] \in {name[n], NoInode}
  BY DEF CloseFile, DiscardDownload, GapNotSupported, VerifyResumed, InstallDownload, Unlink, Names
<1>2. PICK l \in Quiet : pc' = [pc EXCEPT ![a] = l]
  BY DEF CloseFile, DiscardDownload, GapNotSupported, VerifyResumed, InstallDownload,
         Quiet, Labels, Reading
<1>3. fd' = [fd EXCEPT ![a] = NoInode]
  <2>1. CASE DiscardDownload(a) \/ InstallDownload(a)
    <3>1. pc[a] = "check" /\ fd' = fd
      BY <2>1 DEF DiscardDownload, InstallDownload
    <3>2. fd[a] = NoInode
      BY <3>1 DEF FilesSafe, FdsUsed, Reading
    <3>3. QED
      BY <3>1, <3>2
  <2>2. CASE CloseFile(a) \/ GapNotSupported(a) \/ VerifyResumed(a)
    BY <2>2 DEF CloseFile, GapNotSupported, VerifyResumed, EndResume
  <2>3. QED
    BY <2>1, <2>2
<1>4. /\ pos' = [pos EXCEPT ![a] = 0]
      /\ sound' = [sound EXCEPT ![a] = TRUE]
  <2>1. CASE DiscardDownload(a) \/ InstallDownload(a)
    BY <2>1 DEF DiscardDownload, InstallDownload, ForgetStream
  <2>2. CASE CloseFile(a) \/ GapNotSupported(a) \/ VerifyResumed(a)
    <3>1. pc[a] \notin {"copy", "check"} /\ pos' = pos /\ sound' = sound
      BY <2>2 DEF CloseFile, GapNotSupported, VerifyResumed
    <3>2. pos[a] = 0 /\ sound[a] = TRUE
      BY <3>1 DEF FilesSafe, StreamsForgotten
    <3>3. QED
      BY <3>1, <3>2
  <2>3. QED
    BY <2>1, <2>2
<1>5. QED
  BY <1>1, <1>2, <1>3, <1>4, QuietStep

(* A hit, or a call that finished its download, opens the installed blob. *)
LEMMA OpeningSteps ==
  ASSUME EagerTypeOK, FilesSafe, NEW a \in Openers,
         Has("blob"), fd' = [fd EXCEPT ![a] = name["blob"]],
         pc[a] \in {"hit", "reopen"},
         NEW l \in Reading, pc' = [pc EXCEPT ![a] = l],
         UNCHANGED <<name, data, pos, sound>>
  PROVE  FilesSafe'
<1> USE OpenersAssumption, NoInodeAssumption DEF EagerTypeOK, DirTypeOK, FilesSafe, Reading
<1>1. /\ name["blob"] \in Inodes /\ Intact(name["blob"])
      /\ name["blob"] # name["partial"] /\ name["blob"] # name["tmp"]
  BY DEF InstalledBlobIntact, NamesDistinct, Has, Names
<1>2. NamesDistinct' /\ InstalledBlobIntact'
  BY DEF NamesDistinct, InstalledBlobIntact, Has, Intact
<1>3. FdsUsed'
  BY DEF FdsUsed
<1>4. ReadersIntact'
  BY <1>1 DEF ReadersIntact, Intact
<1>5. WritersAlone'
  BY <1>1 DEF WritersAlone, WritesAlone, Has, Names
<1>6. CopyIsPrefix' /\ ResumedIntact' /\ StreamsForgotten'
  BY DEF CopyIsPrefix, ResumedIntact, StreamsForgotten, Has, Intact, Prefix
<1>7. QED
  BY <1>2, <1>3, <1>4, <1>5, <1>6

(* touchEntry writes the entry only. *)
LEMMA TouchStep ==
  ASSUME EagerTypeOK, FilesSafe, NEW a \in Openers, TouchEntry(a)
  PROVE  FilesSafe'
<1> USE OpenersAssumption DEF EagerTypeOK, DirTypeOK, FilesSafe, TouchEntry, Goto, Reading
<1>1. NamesDistinct' /\ InstalledBlobIntact'
  BY DEF NamesDistinct, InstalledBlobIntact, Has, Intact
<1>2. FdsUsed' /\ ReadersIntact'
  BY DEF FdsUsed, ReadersIntact, Intact
<1>3. WritersAlone'
  BY DEF WritersAlone, WritesAlone, Has
<1>4. CopyIsPrefix' /\ ResumedIntact' /\ StreamsForgotten'
  BY DEF CopyIsPrefix, ResumedIntact, StreamsForgotten, Has, Intact, Prefix
<1>5. QED
  BY <1>1, <1>2, <1>3, <1>4

(* Once a holds the lock, no other opener writes a file or is about to install one. *)
LEMMA ResumeBegins ==
  ASSUME OneOpenerProcess, EagerTypeOK, MutexHeld, FilesSafe, NEW a \in Openers,
         LockAndLoad(a), pc'[a] = "gap"
  PROVE  FilesSafe'
<1> USE OpenersAssumption, NoInodeAssumption DEF EagerTypeOK, DirTypeOK, FilesSafe, Goto
<1>1. /\ Has("partial") /\ MuFree(a)
      /\ fd' = [fd EXCEPT ![a] = name["partial"]]
      /\ pc' = [pc EXCEPT ![a] = "gap"]
      /\ UNCHANGED <<name, data, pos, sound>>
      /\ pc[a] = "lock"
  BY DEF LockAndLoad, AfterDownload, Resumable, dirVars
<1>2. \A b \in Openers : pc[b] \notin Locked
  BY <1>1, NobodyLocked
<1>3. NamesDistinct' /\ InstalledBlobIntact'
  BY <1>1 DEF NamesDistinct, InstalledBlobIntact, Has, Intact
<1>4. FdsUsed' /\ ReadersIntact'
  BY <1>1 DEF FdsUsed, ReadersIntact, Intact, Reading
<1>5. WritersAlone'
  <2>1. \A b \in Actors \ {a} : fd[b] # name["partial"]
    BY <1>1, <1>2 DEF FdsUsed, ReadersIntact, Has, Locked
  <2>2. WritesAlone(a, "partial")'
    BY <1>1, <2>1 DEF WritesAlone, NamesDistinct, Has, Names
  <2>3. QED
    BY <1>1, <1>2, <2>2 DEF WritersAlone, Locked
<1>6. CopyIsPrefix' /\ ResumedIntact' /\ StreamsForgotten'
  BY <1>1, <1>2 DEF CopyIsPrefix, ResumedIntact, StreamsForgotten, Locked, Has, Intact
<1>7. QED
  BY <1>3, <1>4, <1>5, <1>6

(* Bytes written to a file that only the writer has open reach nobody else. *)
LEMMA OtherFilesUntouched ==
  ASSUME EagerTypeOK, MutexHeld, FilesSafe, NEW a \in Openers, NEW n \in Names,
         WritesAlone(a, n), n # "blob", pc[a] \in Locked, pc[a] \notin {"check", "rinstall"},
         NEW w \in File, data' = [data EXCEPT ![fd[a]] = w],
         UNCHANGED <<name, fd, pc>>
  PROVE  /\ NamesDistinct' /\ InstalledBlobIntact' /\ FdsUsed' /\ ReadersIntact'
         /\ WritersAlone' /\ ResumedIntact'
         /\ \A b \in Openers \ {a} : pc[b] \notin Locked
<1> USE OpenersAssumption, NoInodeAssumption DEF EagerTypeOK, DirTypeOK, FilesSafe
<1>1. \A b \in Openers \ {a} : pc[b] \notin Locked
  BY OthersUnlocked
<1>2. NamesDistinct' /\ InstalledBlobIntact'
  BY DEF NamesDistinct, InstalledBlobIntact, WritesAlone, Has, Intact, Names
<1>3. FdsUsed' /\ ReadersIntact'
  BY DEF FdsUsed, ReadersIntact, WritesAlone, Intact, Reading, Locked
<1>4. WritersAlone'
  BY DEF WritersAlone, WritesAlone, Has
<1>5. ResumedIntact'
  BY <1>1 DEF ResumedIntact, Has, Locked
<1>6. QED
  BY <1>1, <1>2, <1>3, <1>4, <1>5

(* A fetched range is written to a partial file that nobody else has open. *)
LEMMA GapStep ==
  ASSUME EagerTypeOK, MutexHeld, FilesSafe, NEW a \in Openers, FetchGap(a)
  PROVE  FilesSafe'
<1> USE OpenersAssumption DEF EagerTypeOK, DirTypeOK
<1>1. /\ pc[a] = "gap" /\ WritesAlone(a, "partial")
      /\ UNCHANGED <<name, fd, pc, pos, sound>>
  BY DEF FetchGap, FilesSafe, WritersAlone, actVars
<1>2. PICK right \in BOOLEAN :
        data' = [data EXCEPT ![fd[a]] = Written(fd[a], FirstGap(have[a]), right)]
  BY DEF FetchGap
<1>3. Written(fd[a], FirstGap(have[a]), right) \in File
  BY <1>1, FirstGapType, WrittenType DEF WritesAlone
<1>4. /\ NamesDistinct' /\ InstalledBlobIntact' /\ FdsUsed' /\ ReadersIntact'
      /\ WritersAlone' /\ ResumedIntact'
      /\ \A b \in Openers \ {a} : pc[b] \notin Locked
  BY <1>1, <1>2, <1>3, OtherFilesUntouched DEF Names, Locked
<1>5. CopyIsPrefix' /\ StreamsForgotten'
  BY <1>1, <1>4 DEF FilesSafe, CopyIsPrefix, StreamsForgotten, Locked
<1>6. QED
  BY <1>4, <1>5 DEF FilesSafe

(* An interrupted range: the bytes that came are written, then the file is closed. *)
LEMMA GapFailsStep ==
  ASSUME EagerTypeOK, MutexHeld, FilesSafe, NEW a \in Openers, GapFails(a)
  PROVE  FilesSafe'
<1> USE OpenersAssumption, NoInodeAssumption DEF EagerTypeOK, DirTypeOK, FilesSafe
<1>1. /\ pc[a] = "gap" /\ WritesAlone(a, "partial")
      /\ fd' = [fd EXCEPT ![a] = NoInode]
      /\ pc' = [pc EXCEPT ![a] = "full"]
      /\ UNCHANGED <<name, pos, sound>>
  BY DEF GapFails, EndResume, WritersAlone, Goto
<1>2. \A f \in Inodes \ {fd[a]} : data'[f] = data[f]
  BY <1>1 DEF GapFails, WritesAlone
<1>3. \A b \in Openers \ {a} : pc[b] \notin Locked
  BY <1>1, OthersUnlocked DEF Locked
<1>4. NamesDistinct' /\ InstalledBlobIntact'
  BY <1>1, <1>2 DEF NamesDistinct, InstalledBlobIntact, WritesAlone, Has, Intact, Names
<1>5. FdsUsed'
  BY <1>1 DEF FdsUsed
<1>6. ReadersIntact'
  BY <1>1, <1>2 DEF ReadersIntact, WritesAlone, Intact, Reading
<1>7. WritersAlone' /\ CopyIsPrefix' /\ ResumedIntact' /\ StreamsForgotten'
  BY <1>1, <1>3 DEF WritersAlone, CopyIsPrefix, ResumedIntact, StreamsForgotten, Locked
<1>8. QED
  BY <1>4, <1>5, <1>6, <1>7

(* The hash of the resumed file is right: what is under .partial from now on is the blob. *)
LEMMA VerifyStep ==
  ASSUME EagerTypeOK, MutexHeld, FilesSafe, NEW a \in Openers,
         VerifyResumed(a), pc'[a] = "rinstall"
  PROVE  FilesSafe'
<1> USE OpenersAssumption, NoInodeAssumption DEF EagerTypeOK, DirTypeOK, FilesSafe
<1>1. /\ pc[a] = "gap" /\ WritesAlone(a, "partial") /\ Intact(fd[a])
      /\ fd' = [fd EXCEPT ![a] = NoInode]
      /\ pc' = [pc EXCEPT ![a] = "rinstall"]
      /\ UNCHANGED <<name, data, pos, sound>>
  BY DEF VerifyResumed, EndResume, WritersAlone, Goto
<1>2. \A b \in Openers \ {a} : pc[b] \notin Locked
  BY <1>1, OthersUnlocked DEF Locked
<1>3. NamesDistinct' /\ InstalledBlobIntact'
  BY <1>1 DEF NamesDistinct, InstalledBlobIntact, Has, Intact
<1>4. FdsUsed' /\ ReadersIntact'
  BY <1>1 DEF FdsUsed, ReadersIntact, Intact, Reading
<1>5. WritersAlone' /\ CopyIsPrefix' /\ StreamsForgotten'
  BY <1>1, <1>2 DEF WritersAlone, CopyIsPrefix, StreamsForgotten, Locked
<1>6. ResumedIntact'
  BY <1>1, <1>2 DEF ResumedIntact, WritesAlone, Has, Intact, Locked
<1>7. QED
  BY <1>3, <1>4, <1>5, <1>6

(* The two renames put an intact file under the final name. *)
LEMMA InstallStep ==
  ASSUME EagerTypeOK, MutexHeld, FilesSafe, NEW a \in Openers, NEW n \in Names \ {"blob"},
         pc[a] \in {"check", "rinstall"},
         Has(n), Intact(name[n]), Rename(n, "blob"),
         \A b \in Actors : fd[b] # name[n],
         pc' = [pc EXCEPT ![a] = "save"],
         pos' = [pos EXCEPT ![a] = 0], sound' = [sound EXCEPT ![a] = TRUE],
         UNCHANGED <<data, fd>>
  PROVE  FilesSafe'
<1> USE OpenersAssumption, NoInodeAssumption DEF EagerTypeOK, DirTypeOK, FilesSafe, Rename
<1>1. \A b \in Openers \ {a} : pc[b] \notin Locked
  BY OthersUnlocked DEF Locked
<1>2. \A m \in Names : name'[m] = IF m = "blob" THEN name[n]
                                  ELSE IF m = n THEN NoInode ELSE name[m]
  BY DEF Names
<1>3. NamesDistinct' /\ InstalledBlobIntact'
  BY <1>2 DEF NamesDistinct, InstalledBlobIntact, Has, Intact, Names
<1>4. FdsUsed'
  BY DEF FdsUsed, Reading
<1>5. ReadersIntact'
  BY <1>2 DEF ReadersIntact, Intact, Reading, Names
<1>6. WritersAlone' /\ CopyIsPrefix' /\ ResumedIntact' /\ StreamsForgotten'
  BY <1>1 DEF WritersAlone, CopyIsPrefix, ResumedIntact, StreamsForgotten, Locked
<1>7. QED
  BY <1>3, <1>4, <1>5, <1>6

(* The rename of a resumed file: its hash was right and nobody wrote to it since. *)
LEMMA InstallResumedStep ==
  ASSUME EagerTypeOK, MutexHeld, FilesSafe, NEW a \in Openers,
         InstallResumed(a), pc'[a] = "save"
  PROVE  FilesSafe'
<1> USE OpenersAssumption, NoInodeAssumption DEF EagerTypeOK, DirTypeOK
<1>1. /\ pc[a] = "rinstall" /\ Has("partial") /\ Rename("partial", "blob")
      /\ pc' = [pc EXCEPT ![a] = "save"]
      /\ UNCHANGED <<data, fd, pos, sound>>
  BY DEF InstallResumed, Goto
<1>2. Intact(name["partial"])
  BY <1>1 DEF FilesSafe, ResumedIntact
<1>3. \A b \in Openers \ {a} : pc[b] \notin Locked
  BY <1>1, OthersUnlocked DEF Locked
<1>4. \A b \in Actors : fd[b] # name["partial"]
  BY <1>1, <1>3 DEF FilesSafe, FdsUsed, ReadersIntact, Has, Locked, Reading
<1>5. pos' = [pos EXCEPT ![a] = 0] /\ sound' = [sound EXCEPT ![a] = TRUE]
  BY <1>1, NoFileHeld DEF Reading
<1>6. QED
  BY <1>1, <1>2, <1>4, <1>5, InstallStep DEF Names

(* The rename of a downloaded file: a prefix as long as the blob is the blob. *)
LEMMA InstallDownloadStep ==
  ASSUME EagerTypeOK, MutexHeld, FilesSafe, NEW a \in Openers,
         InstallDownload(a), pc'[a] = "save"
  PROVE  FilesSafe'
<1> USE OpenersAssumption, NoInodeAssumption DEF EagerTypeOK, DirTypeOK
<1>1. /\ pc[a] = "check" /\ Has("tmp") /\ Rename("tmp", "blob")
      /\ pos[a] = Size /\ sound[a]
      /\ pc' = [pc EXCEPT ![a] = "save"]
      /\ pos' = [pos EXCEPT ![a] = 0] /\ sound' = [sound EXCEPT ![a] = TRUE]
      /\ UNCHANGED <<data, fd>>
  BY DEF InstallDownload, StreamIsBlob, ForgetStream, Goto
<1>2. Intact(name["tmp"])
  BY <1>1 DEF FilesSafe, CopyIsPrefix, Prefix, Intact, FullFile, Chunks
<1>3. \A b \in Openers \ {a} : pc[b] \notin Locked
  BY <1>1, OthersUnlocked DEF Locked
<1>4. \A b \in Actors : fd[b] # name["tmp"]
  BY <1>1, <1>3 DEF FilesSafe, FdsUsed, ReadersIntact, Has, Locked, Reading
<1>5. QED
  BY <1>1, <1>2, <1>4, InstallStep DEF Names

(* .tmp is truncated, or made as a file that nobody has open under any name. *)
LEMMA CopyBegins ==
  ASSUME EagerTypeOK, MutexHeld, FilesSafe, NEW a \in Openers, FetchBlob(a)
  PROVE  FilesSafe'
<1> USE OpenersAssumption, NoInodeAssumption DEF EagerTypeOK, DirTypeOK, FilesSafe
<1>1. PICK f \in Inodes :
        /\ f \in IF Has("tmp") THEN {name["tmp"]} ELSE Inodes \ Live
        /\ name' = [name EXCEPT !["tmp"] = f]
        /\ data' = [data EXCEPT ![f] = EmptyFile]
        /\ fd' = [fd EXCEPT ![a] = f]
  BY DEF FetchBlob, OpenTmp, OpenTruncated, Has, Names
<1>2. /\ pc[a] = "fetch" /\ pc' = [pc EXCEPT ![a] = "copy"]
      /\ UNCHANGED <<pos, sound>>
  BY DEF FetchBlob, OpenTmp, Goto
<1>3. \A b \in Openers \ {a} : pc[b] \notin Locked
  BY <1>2, OthersUnlocked DEF Locked
<1>4. \A n \in Names \ {"tmp"} : name[n] # f
  BY <1>1 DEF NamesDistinct, Live, Has, Names
<1>5. \A b \in Actors : fd[b] # f
  BY <1>1, <1>2, <1>3 DEF FdsUsed, ReadersIntact, Live, Has, Locked, Reading
<1>6. NamesDistinct' /\ InstalledBlobIntact'
  BY <1>1, <1>4 DEF NamesDistinct, InstalledBlobIntact, Has, Intact, Names
<1>7. FdsUsed'
  BY <1>1, <1>2 DEF FdsUsed
<1>8. ReadersIntact'
  BY <1>1, <1>2, <1>5 DEF ReadersIntact, Intact, Reading, Names
<1>9. WritersAlone'
  BY <1>1, <1>2, <1>3, <1>4, <1>5 DEF WritersAlone, WritesAlone, Has, Locked, Names
<1>10. CopyIsPrefix'
  <2>1. data'[f] = Prefix(0)
    BY <1>1 DEF EmptyFile, Prefix
  <2>2. pos[a] = 0
    BY <1>2 DEF StreamsForgotten
  <2>3. QED
    BY <1>1, <1>2, <1>3, <2>1, <2>2 DEF CopyIsPrefix, Locked
<1>11. ResumedIntact' /\ StreamsForgotten'
  BY <1>2, <1>3 DEF ResumedIntact, StreamsForgotten, Locked
<1>12. QED
  BY <1>6, <1>7, <1>8, <1>9, <1>10, <1>11

(* Each right chunk makes the prefix one longer. *)
LEMMA CopyStep ==
  ASSUME EagerTypeOK, MutexHeld, FilesSafe, NEW a \in Openers, CopyChunk(a)
  PROVE  FilesSafe'
<1> USE OpenersAssumption, SizeAssumption DEF EagerTypeOK, DirTypeOK
<1>1. /\ pc[a] = "copy" /\ pos[a] < Size /\ WritesAlone(a, "tmp")
      /\ pos' = [pos EXCEPT ![a] = pos[a] + 1]
      /\ UNCHANGED <<name, fd, pc>>
  BY DEF CopyChunk, FilesSafe, WritersAlone
<1>2. PICK right \in BOOLEAN :
        /\ data' = [data EXCEPT ![fd[a]] = Written(fd[a], {pos[a] + 1}, right)]
        /\ sound' = [sound EXCEPT ![a] = sound[a] /\ right]
  BY DEF CopyChunk
<1>3. pos[a] + 1 \in Chunks
  BY <1>1 DEF Chunks
<1>4. Written(fd[a], {pos[a] + 1}, right) \in File
  BY <1>1, <1>3, WrittenType DEF WritesAlone
<1>5. /\ NamesDistinct' /\ InstalledBlobIntact' /\ FdsUsed' /\ ReadersIntact'
      /\ WritersAlone' /\ ResumedIntact'
      /\ \A b \in Openers \ {a} : pc[b] \notin Locked
  BY <1>1, <1>2, <1>4, OtherFilesUntouched DEF Names, Locked
<1>6. ASSUME sound'[a] PROVE data'[fd[a]] = Prefix(pos[a] + 1)
  <2>1. sound[a] /\ right
    BY <1>2, <1>6
  <2>2. data[fd[a]] = Prefix(pos[a])
    BY <1>1, <2>1 DEF FilesSafe, CopyIsPrefix
  <2>3. (1..pos[a]) \cup {d \in Chunks : d <= pos[a] + 1} = 1..(pos[a] + 1)
    BY <1>3 DEF Chunks
  <2>4. (1..pos[a]) \cup {pos[a] + 1} = 1..(pos[a] + 1)
    BY <1>3 DEF Chunks
  <2>5. {d \in Chunks : \E c \in {pos[a] + 1} : d <= c} = {d \in Chunks : d <= pos[a] + 1}
    OBVIOUS
  <2>6. Written(fd[a], {pos[a] + 1}, right).span = 1..(pos[a] + 1)
    BY <2>2, <2>3, <2>5 DEF Written, Prefix
  <2>7. Written(fd[a], {pos[a] + 1}, right).good = 1..(pos[a] + 1)
    BY <2>1, <2>2, <2>4 DEF Written, Prefix
  <2>8. Written(fd[a], {pos[a] + 1}, right) = Prefix(pos[a] + 1)
    BY <2>6, <2>7 DEF Written, Prefix
  <2>9. QED
    BY <1>1, <1>2, <2>8 DEF WritesAlone
<1>7. CopyIsPrefix'
  BY <1>1, <1>5, <1>6 DEF CopyIsPrefix, Locked
<1>8. StreamsForgotten'
  BY <1>1, <1>2 DEF FilesSafe, StreamsForgotten
<1>9. QED
  BY <1>5, <1>7, <1>8 DEF FilesSafe

(* The end of the stream closes the file and leaves it the prefix that was copied. *)
LEMMA CopyEndsStep ==
  ASSUME EagerTypeOK, MutexHeld, FilesSafe, NEW a \in Openers, CopyEnds(a)
  PROVE  FilesSafe'
<1> USE OpenersAssumption, NoInodeAssumption DEF EagerTypeOK, DirTypeOK, FilesSafe
<1>1. /\ pc[a] = "copy" /\ WritesAlone(a, "tmp")
      /\ fd' = [fd EXCEPT ![a] = NoInode]
      /\ pc' = [pc EXCEPT ![a] = "check"]
      /\ UNCHANGED <<name, data, pos, sound>>
  BY DEF CopyEnds, WritersAlone, Goto, dirVars
<1>2. \A b \in Openers \ {a} : pc[b] \notin Locked
  BY <1>1, OthersUnlocked DEF Locked
<1>3. NamesDistinct' /\ InstalledBlobIntact'
  BY <1>1 DEF NamesDistinct, InstalledBlobIntact, Has, Intact
<1>4. FdsUsed' /\ ReadersIntact'
  BY <1>1 DEF FdsUsed, ReadersIntact, Intact, Reading
<1>5. WritersAlone' /\ ResumedIntact' /\ StreamsForgotten'
  BY <1>1, <1>2 DEF WritersAlone, ResumedIntact, StreamsForgotten, Locked
<1>6. CopyIsPrefix'
  BY <1>1, <1>2 DEF CopyIsPrefix, WritesAlone, Has, Locked
<1>7. QED
  BY <1>3, <1>4, <1>5, <1>6

-------------------------------------------------------------------------------
(* The other actors: an evictor only unlinks names, a crash only closes files. *)

(* Evict and Clear unlink names; files that are open keep their bytes. *)
LEMMA EvictorFiles ==
  ASSUME EagerTypeOK, FilesSafe, NEW e \in Evictors, Evictor(e), EagerTypeOK'
  PROVE  FilesSafe'
<1> USE OpenersAssumption, NoInodeAssumption DEF EagerTypeOK, DirTypeOK, FilesSafe
<1>1. e \notin Openers
  BY RolesAssumption
<1>2. /\ \A n \in Names : name'[n] \in {name[n], NoInode}
      /\ UNCHANGED <<data, fd, pos, sound>>
      /\ \A a \in Openers : pc'[a] = pc[a]
  BY <1>1 DEF Evictor, EvictBlob, EvictPartial, EvictEntry, ClearBegin, ClearFile, ClearEntries,
              Goto, Unlink, Names, actVars, dirVars
<1>3. NamesDistinct' /\ InstalledBlobIntact'
  BY <1>2 DEF NamesDistinct, InstalledBlobIntact, Has, Intact, Names
<1>4. FdsUsed'
  BY <1>2 DEF FdsUsed
<1>5. ReadersIntact'
  BY <1>2 DEF ReadersIntact, Intact, Names
<1>6. WritersAlone'
  BY <1>2 DEF WritersAlone, WritesAlone, Has, Names
<1>7. CopyIsPrefix' /\ ResumedIntact' /\ StreamsForgotten'
  BY <1>2 DEF CopyIsPrefix, ResumedIntact, StreamsForgotten, Prefix, Has, Intact, Names
<1>8. QED
  BY <1>3, <1>4, <1>5, <1>6, <1>7

(* A killed process closes its files; every file keeps its bytes and its name. *)
LEMMA CrashFiles ==
  ASSUME EagerTypeOK, FilesSafe, NEW p, CrashOf(p)
  PROVE  FilesSafe'
<1> USE OpenersAssumption, NoInodeAssumption DEF EagerTypeOK, DirTypeOK, FilesSafe
<1>1. /\ UNCHANGED <<name, data>>
      /\ \A a \in Actors :
           \/ /\ pc'[a] = "idle" /\ fd'[a] = NoInode
              /\ pos'[a] = 0 /\ sound'[a] = TRUE
           \/ /\ pc'[a] = pc[a] /\ fd'[a] = fd[a]
              /\ pos'[a] = pos[a] /\ sound'[a] = sound[a]
  BY DEF CrashOf, dirVars
<1>2. NamesDistinct' /\ InstalledBlobIntact'
  BY <1>1 DEF NamesDistinct, InstalledBlobIntact, Has, Intact
<1>3. FdsUsed' /\ ReadersIntact'
  BY <1>1 DEF FdsUsed, ReadersIntact, Intact, Reading
<1>4. WritersAlone'
  BY <1>1 DEF WritersAlone, WritesAlone, Has
<1>5. CopyIsPrefix'
  BY <1>1 DEF CopyIsPrefix, Has
<1>6. ResumedIntact' /\ StreamsForgotten'
  BY <1>1 DEF ResumedIntact, StreamsForgotten, Has, Intact
<1>7. QED
  BY <1>2, <1>3, <1>4, <1>5, <1>6

(* Every directory that DirInit starts from is safe, and nobody holds the lock. *)
LEMMA FilesInit == EagerInit => FilesSafe /\ MutexHeld
<1> SUFFICES ASSUME EagerInit PROVE FilesSafe /\ MutexHeld
  OBVIOUS
<1> USE OpenersAssumption, NoInodeAssumption
<1>1. PICK b \in Inodes, p \in Inodes, t \in Inodes, R \in SUBSET Chunks,
           kind \in Leftovers : b # p /\ p # t /\ b # t /\ LeftBehind(kind, b, p, t, R)
  BY DEF EagerInit, DirInit
<1>2. PICK which \in SUBSET Names, content \in File, e \in Entry :
        Holds(b, p, t, which, content, e)
  BY <1>1 DEF LeftBehind, Names, File, Entry, EmptyFile, NoEntry, CompleteEntry, PartialEntry
<1>3. NamesDistinct
  BY <1>1, <1>2 DEF NamesDistinct, Holds, Has, Names
<1>4. InstalledBlobIntact
  BY <1>1, <1>2 DEF InstalledBlobIntact, Holds, Has, Intact, Names
<1>5. /\ FdsUsed /\ ReadersIntact /\ WritersAlone /\ CopyIsPrefix
      /\ ResumedIntact /\ StreamsForgotten /\ MutexHeld
  BY DEF EagerInit, DirInit, FdsUsed, ReadersIntact, WritersAlone, CopyIsPrefix,
         ResumedIntact, StreamsForgotten, MutexHeld, Reading, Locked
<1>6. QED
  BY <1>3, <1>4, <1>5 DEF FilesSafe

-------------------------------------------------------------------------------
(* The induction. *)

(* Every step of an opener's call keeps the files safe. *)
LEMMA OpenerFiles ==
  ASSUME OneOpenerProcess, EagerTypeOK, MutexHeld, FilesSafe, NEW a \in Openers,
         EagerOpener(a), EagerTypeOK'
  PROVE  FilesSafe'
<1> USE OpenersAssumption DEF Goto, Reading
<1>1. CASE BeginOp(a) \/ PrefetchLoad(a)
  BY <1>1, QuietSteps
<1>2. CASE Hit(a)
  <2>1. CASE OpenHit(a)
    <3>1. CASE BlobOpens /\ fd' = [fd EXCEPT ![a] = name["blob"]]
               /\ pc' = [pc EXCEPT ![a] = "touch"]
      BY <2>1, <3>1, OpeningSteps DEF OpenHit, BlobOpens, dirVars
    <3>2. CASE pc' = [pc EXCEPT ![a] = "heal"]
      BY <2>1, <3>2, QuietSteps DEF EagerTypeOK, DirTypeOK
    <3>3. QED
      BY <2>1, <3>1, <3>2 DEF OpenHit
  <2>2. CASE LoadCompleteEntry(a, "lock") \/ SelfHeal(a, "lock") \/ ReturnError(a)
    BY <2>2, QuietSteps
  <2>3. CASE TouchEntry(a)
    BY <2>3, TouchStep
  <2>4. CASE CloseFile(a)
    BY <2>4, ClosingSteps
  <2>5. QED
    BY <1>2, <2>1, <2>2, <2>3, <2>4 DEF Hit
<1>3. CASE LockAndLoad(a)
  BY <1>3, QuietSteps, ResumeBegins
<1>4. CASE Resume(a)
  <2>1. CASE FetchGap(a) \/ GapFails(a)
    BY <2>1, GapStep, GapFailsStep
  <2>2. CASE GapNotSupported(a)
    BY <2>2, ClosingSteps
  <2>3. CASE VerifyResumed(a)
    <3>1. pc'[a] \in {"rinstall", "rforget"}
      BY <2>3 DEF VerifyResumed, EagerTypeOK, DirTypeOK
    <3>2. QED
      BY <2>3, <3>1, VerifyStep, ClosingSteps
  <2>4. CASE ForgetResumed(a)
    BY <2>4, QuietSteps
  <2>5. CASE InstallResumed(a)
    <3>1. pc'[a] \in {"save", "full"}
      BY <2>5 DEF InstallResumed, EagerTypeOK, DirTypeOK
    <3>2. QED
      BY <2>5, <3>1, InstallResumedStep, QuietSteps
  <2>6. QED
    BY <1>4, <2>1, <2>2, <2>3, <2>4, <2>5 DEF Resume
<1>5. CASE FullDownload(a)
  <2>1. CASE RemovePartial(a) \/ FetchRefused(a) \/ SaveComplete(a)
    BY <2>1, QuietSteps
  <2>2. CASE FetchBlob(a)
    BY <2>2, CopyBegins
  <2>3. CASE CopyChunk(a) \/ CopyEnds(a)
    BY <2>3, CopyStep, CopyEndsStep
  <2>4. CASE DiscardDownload(a)
    BY <2>4, ClosingSteps
  <2>5. CASE InstallDownload(a)
    <3>1. pc'[a] \in {"save", "broken"}
      BY <2>5 DEF InstallDownload, EagerTypeOK, DirTypeOK
    <3>2. QED
      BY <2>5, <3>1, InstallDownloadStep, ClosingSteps
  <2>6. QED
    BY <1>5, <2>1, <2>2, <2>3, <2>4, <2>5 DEF FullDownload, Copy
<1>6. CASE Reopen(a)
  <2>1. CASE Has("blob") /\ fd' = [fd EXCEPT ![a] = name["blob"]]
             /\ pc' = [pc EXCEPT ![a] = "open"]
    BY <1>6, <2>1, OpeningSteps DEF Reopen, dirVars
  <2>2. CASE pc' = [pc EXCEPT ![a] = "broken"]
    BY <1>6, <2>2, QuietSteps DEF EagerTypeOK, DirTypeOK
  <2>3. QED
    BY <1>6, <2>1, <2>2 DEF Reopen, BlobOpens
<1>7. QED
  BY <1>1, <1>2, <1>3, <1>4, <1>5, <1>6 DEF EagerOpener, EagerWork

LEMMA OpenerType ==
  ASSUME EagerTypeOK, NEW a \in Openers, EagerOpener(a)
  PROVE  EagerTypeOK'
BY HitType, LockType, ResumeType, DownloadType DEF EagerOpener, EagerWork

(* The invariant is inductive: every step of every actor preserves it. *)
LEMMA EagerStep ==
  ASSUME OneOpenerProcess, EagerInv, [EagerNext]_eagerVars
  PROVE  EagerInv'
<1> USE DEF EagerInv
<1>1. ASSUME NEW a \in Openers, EagerOpener(a) PROVE EagerInv'
  BY <1>1, OpenerType, OpenerMutex, OpenerFiles
<1>2. ASSUME NEW e \in Evictors, Evictor(e), UNCHANGED eagerLocals PROVE EagerInv'
  BY <1>2, EvictorType, EvictorMutex, EvictorFiles
<1>3. ASSUME NEW b \in Actors, CrashOf(Proc[b]), UNCHANGED eagerLocals PROVE EagerInv'
  BY <1>3, CrashType, CrashMutex, CrashFiles
<1>4. CASE UNCHANGED eagerVars
  BY <1>4
     DEF eagerVars, dirVars, actVars, eagerLocals, EagerTypeOK, DirTypeOK, MutexHeld, FilesSafe,
         NamesDistinct, FdsUsed, ReadersIntact, WritersAlone, WritesAlone, CopyIsPrefix,
         ResumedIntact, StreamsForgotten, InstalledBlobIntact, Has, Intact, Prefix
<1>5. QED
  BY <1>1, <1>2, <1>3, <1>4 DEF EagerNext

(* Types, mutual exclusion of the downloads and safety of every file, in every *)
(* reachable state of the goroutines of one process, whatever other processes evict. *)
THEOREM EagerInvariant ==
  ASSUME OneOpenerProcess PROVE EagerSpec => []EagerInv
<1>1. EagerInit => EagerInv
  BY TypeInit, FilesInit DEF EagerInv
<1>2. EagerInv /\ [EagerNext]_eagerVars => EagerInv'
  BY EagerStep
<1>3. QED
  BY <1>1, <1>2, PTL DEF EagerSpec

(* fullDownload and resumeDownload never leave wrong or missing bytes under the final *)
(* name, however many goroutines call, and whatever fails, is killed or evicted. *)
THEOREM BlobIntact ==
  ASSUME OneOpenerProcess PROVE EagerSpec => []InstalledBlobIntact
<1>1. EagerInv => InstalledBlobIntact
  BY DEF EagerInv, FilesSafe
<1>2. QED
  BY <1>1, EagerInvariant, PTL

(* A handle that Open or OpenStream returned reads the blob until it is closed, even *)
(* though the file may be evicted and downloaded again under the same name meanwhile. *)
THEOREM HandlesIntact ==
  ASSUME OneOpenerProcess PROVE EagerSpec => []HandleIntact
<1>1. EagerInv => HandleIntact
  BY NoInodeAssumption DEF EagerInv, FilesSafe, ReadersIntact, HandleIntact, Reading
<1>2. QED
  BY <1>1, EagerInvariant, PTL
-------------------------------------------------------------------------------
(* The entry tells the truth when nobody evicts. *)

(* A step of an opener that neither makes an entry complete nor takes the blob away. *)
LEMMA EntryKept ==
  ASSUME EagerTypeOK, EntryTrue, NEW a \in Openers, NEW l \in Labels,
         pc' = [pc EXCEPT ![a] = l],
         entry'.state = "complete" <=> entry.state = "complete",
         Has("blob") => Has("blob")',
         l \in Downloading => entry.state # "complete",
         l \in {"hit", "touch"} => entry.state = "complete",
         l = "save" => Has("blob")',
         l \notin {"heal", "evictpartial", "evictentry"}
  PROVE  EntryTrue'
<1> USE OpenersAssumption DEF EagerTypeOK, DirTypeOK
<1>1. CompleteHasBlob'
  BY DEF EntryTrue, CompleteHasBlob
<1>2. \A b \in Openers \ {a} : pc'[b] = pc[b]
  OBVIOUS
<1>3. pc'[a] = l
  OBVIOUS
<1>4. QED
  BY <1>1, <1>2, <1>3 DEF EntryTrue

(* The steps of a call that are not a download: the blob that an entry promises opens, *)
(* so nothing is healed. *)
LEMMA HitKeepsEntry ==
  ASSUME EagerTypeOK, EntryTrue, InstalledBlobIntact, NEW a \in Openers,
         BeginOp(a) \/ Hit(a) \/ PrefetchLoad(a) \/ LockAndLoad(a) \/ Reopen(a)
  PROVE  EntryTrue'
<1> USE DEF Goto, Downloading, Locked, Labels, dirVars, Has
<1>1. CASE BeginOp(a)
  BY <1>1, EntryKept DEF BeginOp, Begin
<1>2. CASE Hit(a)
  <2>1. CASE LoadCompleteEntry(a, "lock") \/ CloseFile(a) \/ ReturnError(a)
    BY <2>1, EntryKept DEF LoadCompleteEntry, CloseFile, ReturnError
  <2>2. CASE OpenHit(a)
    <3>1. entry.state = "complete" /\ Has("blob") /\ Intact(name["blob"])
      BY <2>2 DEF OpenHit, EntryTrue, CompleteHasBlob, InstalledBlobIntact
    <3>2. BlobOpens
      BY <3>1 DEF BlobOpens, Intact, FullFile
    <3>3. QED
      BY <2>2, <3>1, <3>2, EntryKept DEF OpenHit
  <2>3. CASE TouchEntry(a)
    <3>1. entry.state = "complete"
      BY <2>3 DEF TouchEntry, EntryTrue
    <3>2. entry'.state = "complete"
      BY <2>3, <3>1 DEF TouchEntry, SaveEntry, CompleteEntry
    <3>3. QED
      BY <2>3, <3>1, <3>2, EntryKept DEF TouchEntry
  <2>4. ~SelfHeal(a, "lock")
    BY DEF SelfHeal, EvictBlob, EvictPartial, EvictEntry, EntryTrue
  <2>5. QED
    BY <1>2, <2>1, <2>2, <2>3, <2>4 DEF Hit
<1>3. CASE PrefetchLoad(a) \/ LockAndLoad(a)
  BY <1>3, EntryKept DEF PrefetchLoad, LockAndLoad, AfterDownload, Resumable
<1>4. CASE Reopen(a)
  BY <1>4, EntryKept DEF Reopen
<1>5. QED
  BY <1>1, <1>2, <1>3, <1>4

(* The steps of a download but the last; they find no complete entry. *)
LEMMA DownloadKeepsEntry ==
  ASSUME EagerTypeOK, EntryTrue, NEW a \in Openers,
         Resume(a) \/ (FullDownload(a) /\ ~SaveComplete(a))
  PROVE  EntryTrue'
<1> USE DEF Goto, Downloading, Locked, Labels, EagerTypeOK, DirTypeOK
<1>1. pc[a] \in Downloading => entry.state # "complete"
  BY DEF EntryTrue
<1>2. CASE FetchGap(a)
  <2>1. pc' = [pc EXCEPT ![a] = "gap"] /\ pc[a] = "gap"
    BY <1>2, OpenersAssumption DEF FetchGap, actVars
  <2>2. QED
    BY <1>1, <1>2, <2>1, EntryKept DEF FetchGap, Has
<1>3. CASE GapFails(a)
  <2>1. entry'.state # "complete" /\ entry.state # "complete"
    BY <1>1, <1>3 DEF GapFails, SaveEntry, PartialEntry
  <2>2. QED
    BY <1>3, <2>1, EntryKept DEF GapFails, Has
<1>4. CASE GapNotSupported(a)
  BY <1>1, <1>4, EntryKept DEF GapNotSupported, dirVars, Has
<1>5. CASE VerifyResumed(a) \/ RemovePartial(a)
  BY <1>1, <1>5, EntryKept DEF VerifyResumed, RemovePartial, Unlink, Has, Names
<1>6. CASE ForgetResumed(a)
  BY <1>1, <1>6, EntryKept DEF ForgetResumed, NoEntry, Has
<1>7. CASE InstallResumed(a)
  BY <1>1, <1>7, EntryKept DEF InstallResumed, Rename, Has, Names
<1>8. CASE FetchBlob(a)
  BY <1>1, <1>8, EntryKept DEF FetchBlob, OpenTmp, OpenTruncated, Has, Names
<1>9. CASE FetchRefused(a) \/ CopyEnds(a)
  BY <1>1, <1>9, EntryKept DEF FetchRefused, CopyEnds, dirVars, Has
<1>10. CASE CopyChunk(a)
  <2>1. pc' = [pc EXCEPT ![a] = "copy"] /\ pc[a] = "copy"
    BY <1>10, OpenersAssumption DEF CopyChunk
  <2>2. QED
    BY <1>1, <1>10, <2>1, EntryKept DEF CopyChunk, Has
<1>11. CASE DiscardDownload(a)
  BY <1>1, <1>11, EntryKept DEF DiscardDownload, Unlink, Has, Names
<1>12. CASE InstallDownload(a)
  BY <1>1, <1>12, EntryKept DEF InstallDownload, Rename, Has, Names
<1>13. QED
  BY <1>2, <1>3, <1>4, <1>5, <1>6, <1>7, <1>8, <1>9, <1>10, <1>11, <1>12
     DEF Resume, FullDownload, Copy

(* The entry becomes complete: the blob is there, and nobody else is downloading. *)
LEMMA SaveMakesEntry ==
  ASSUME EagerTypeOK, MutexHeld, EntryTrue, NEW a \in Openers, SaveComplete(a)
  PROVE  EntryTrue'
<1> USE OpenersAssumption DEF Goto, EagerTypeOK, DirTypeOK
<1>1. pc[a] = "save" /\ Has("blob") /\ Has("blob")' /\ pc' = [pc EXCEPT ![a] = AfterDownload(a)]
  BY DEF SaveComplete, EntryTrue, Has
<1>2. \A b \in Openers \ {a} : pc'[b] = pc[b] /\ pc[b] \notin Locked
  BY <1>1, OthersUnlocked DEF Locked
<1>3. pc'[a] \in {"idle", "reopen"}
  BY <1>1 DEF AfterDownload
<1>4. entry' = CompleteEntry \/ entry' = entry
  BY DEF SaveComplete, SaveEntry
<1>5. QED
  BY <1>1, <1>2, <1>3, <1>4
     DEF EntryTrue, CompleteHasBlob, Downloading, Locked, CompleteEntry

LEMMA EntryStep ==
  ASSUME Evictors = {}, EagerInv, EntryTrue, [EagerNext]_eagerVars
  PROVE  EntryTrue'
<1> USE DEF EagerInv
<1>1. ASSUME NEW a \in Openers, EagerOpener(a) PROVE EntryTrue'
  BY <1>1, HitKeepsEntry, DownloadKeepsEntry, SaveMakesEntry
     DEF EagerOpener, EagerWork, FilesSafe
<1>2. ASSUME NEW b \in Actors, CrashOf(Proc[b]) PROVE EntryTrue'
  BY <1>2, OpenersAssumption
     DEF CrashOf, dirVars, EntryTrue, CompleteHasBlob, Has, Downloading, Locked
<1>3. CASE UNCHANGED eagerVars
  BY <1>3 DEF eagerVars, dirVars, actVars, EntryTrue, CompleteHasBlob, Has
<1>4. QED
  BY <1>1, <1>2, <1>3 DEF EagerNext

LEMMA EntryStart ==
  ASSUME EagerInit, "lost" \notin Leftovers PROVE EntryTrue
<1>1. \A a \in Openers : pc[a] = "idle"
  BY OpenersAssumption DEF EagerInit, DirInit
<1>2. CompleteHasBlob
  <2>1. PICK b \in Inodes, p \in Inodes, t \in Inodes, R \in SUBSET Chunks,
             kind \in Leftovers : LeftBehind(kind, b, p, t, R)
    BY DEF EagerInit, DirInit
  <2>2. entry.state = "complete" => Holds(b, p, t, {"blob"}, EmptyFile, CompleteEntry)
    BY <2>1 DEF LeftBehind, Holds, NoEntry, PartialEntry
  <2>3. QED
    BY <2>2, NoInodeAssumption DEF CompleteHasBlob, Holds, Has, Names
<1>3. QED
  BY <1>1, <1>2 DEF EntryTrue, Downloading, Locked

(* An entry marked complete promises a blob, and as long as no command evicts, the blob is *)
(* there, whatever fails or is killed and whatever an earlier session left, unless it was  *)
(* an eviction cut short (fullDownload, resumeDownload, selfHealEvict).                    *)
THEOREM EntryHasBlob ==
  ASSUME OneOpenerProcess, Evictors = {}, "lost" \notin Leftovers
  PROVE  EagerSpec => []CompleteHasBlob
<1>1. EagerInit => EntryTrue
  BY EntryStart
<1>2. EagerInv /\ EntryTrue /\ [EagerNext]_eagerVars => EntryTrue'
  BY EntryStep
<1>3. EntryTrue => CompleteHasBlob
  BY DEF EntryTrue
<1>4. QED
  BY <1>1, <1>2, <1>3, EagerInvariant, PTL DEF EagerSpec

-------------------------------------------------------------------------------
(* No call breaks, when entries can be saved. *)

(* A step of an opener that takes no temporary file away from another. *)
LEMMA CallKept ==
  ASSUME EagerTypeOK, CallsComplete, NEW a \in Openers, NEW l \in Labels \ {"broken"},
         pc' = [pc EXCEPT ![a] = l],
         \/ Has("tmp") => Has("tmp")'
         \/ \A b \in Openers \ {a} : pc[b] \notin {"copy", "check"},
         entry.state = "complete" => entry'.state = "complete",
         l \in {"copy", "check"} => Has("tmp")',
         l = "reopen" => entry'.state = "complete"
  PROVE  CallsComplete'
<1> USE OpenersAssumption DEF EagerTypeOK, DirTypeOK
<1>1. pc'[a] = l /\ \A b \in Openers \ {a} : pc'[b] = pc[b]
  OBVIOUS
<1>2. QED
  BY <1>1 DEF CallsComplete, NoBrokenOpen

LEMMA OpenerCompletes ==
  ASSUME "save" \notin Faults, EagerInv, EntryTrue, CallsComplete, NEW a \in Openers,
         EagerOpener(a)
  PROVE  CallsComplete'
<1> USE DEF Goto, Labels, dirVars
<1> EagerTypeOK /\ MutexHeld /\ InstalledBlobIntact
  BY DEF EagerInv, FilesSafe
<1>1. /\ pc[a] \in {"copy", "check"} => Has("tmp")
      /\ pc[a] = "reopen" => entry.state = "complete"
      /\ pc[a] \in Locked => \A b \in Openers \ {a} : pc[b] \notin {"copy", "check"}
      /\ pc[a] \in Downloading => entry.state # "complete"
  BY OthersUnlocked DEF CallsComplete, EntryTrue, Locked
<1>2. CASE BeginOp(a) \/ PrefetchLoad(a)
  BY <1>2, CallKept DEF BeginOp, Begin, PrefetchLoad, Has
<1>3. CASE LockAndLoad(a)
  BY <1>3, CallKept DEF LockAndLoad, AfterDownload, Has
<1>4. CASE Hit(a)
  <2>1. CASE LoadCompleteEntry(a, "lock") \/ CloseFile(a) \/ ReturnError(a) \/ OpenHit(a)
    BY <2>1, CallKept DEF LoadCompleteEntry, CloseFile, ReturnError, OpenHit, Has
  <2>2. CASE TouchEntry(a)
    <3>1. entry.state = "complete" => entry'.state = "complete"
      BY <2>2 DEF TouchEntry, SaveEntry, CompleteEntry
    <3>2. QED
      BY <2>2, <3>1, CallKept DEF TouchEntry, Has
  <2>3. ~SelfHeal(a, "lock")
    BY DEF SelfHeal, EvictBlob, EvictPartial, EvictEntry, EntryTrue
  <2>4. QED
    BY <1>4, <2>1, <2>2, <2>3 DEF Hit
<1>5. CASE Resume(a)
  <2> USE DEF Downloading, Locked
  <2>1. CASE FetchGap(a)
    <3>1. pc' = [pc EXCEPT ![a] = "gap"]
      BY <2>1, OpenersAssumption DEF FetchGap, actVars, EagerTypeOK, DirTypeOK
    <3>2. QED
      BY <2>1, <3>1, CallKept DEF FetchGap, Has
  <2>2. CASE GapFails(a) \/ GapNotSupported(a)
    BY <1>1, <2>2, CallKept DEF GapFails, GapNotSupported, Has
  <2>3. CASE VerifyResumed(a) \/ ForgetResumed(a) \/ InstallResumed(a)
    BY <1>1, <2>3, CallKept DEF VerifyResumed, ForgetResumed, InstallResumed
  <2>4. QED
    BY <1>5, <2>1, <2>2, <2>3 DEF Resume
<1>6. CASE FullDownload(a)
  <2> USE DEF Downloading, Locked
  <2>1. CASE RemovePartial(a) \/ FetchRefused(a) \/ DiscardDownload(a)
    BY <1>1, <2>1, CallKept DEF RemovePartial, FetchRefused, DiscardDownload
  <2>2. CASE FetchBlob(a)
    <3>1. Has("tmp")'
      BY <2>2, NoInodeAssumption
         DEF FetchBlob, OpenTmp, OpenTruncated, Has, Names, EagerTypeOK, DirTypeOK
    <3>2. QED
      BY <2>2, <3>1, CallKept DEF FetchBlob, OpenTmp
  <2>3. CASE CopyChunk(a)
    <3>1. pc' = [pc EXCEPT ![a] = "copy"]
      BY <2>3, OpenersAssumption DEF CopyChunk, EagerTypeOK, DirTypeOK
    <3>2. QED
      BY <1>1, <2>3, <3>1, CallKept DEF CopyChunk, Has
  <2>4. CASE CopyEnds(a)
    BY <1>1, <2>4, CallKept DEF CopyEnds, Has
  <2>5. CASE InstallDownload(a)
    BY <1>1, <2>5, CallKept DEF InstallDownload
  <2>6. CASE SaveComplete(a)
    <3>1. entry' = CompleteEntry
      BY <2>6 DEF SaveComplete, SaveEntry
    <3>2. QED
      BY <2>6, <3>1, CallKept DEF SaveComplete, AfterDownload, CompleteEntry, Has
  <2>7. QED
    BY <1>6, <2>1, <2>2, <2>3, <2>4, <2>5, <2>6 DEF FullDownload, Copy
<1>7. CASE Reopen(a)
  <2>1. BlobOpens /\ Has("blob") /\ entry.state = "complete"
    BY <1>1, <1>7
       DEF Reopen, EntryTrue, CompleteHasBlob, InstalledBlobIntact, BlobOpens, Intact, FullFile
  <2>2. pc' = [pc EXCEPT ![a] = "open"] /\ name' = name /\ entry' = entry
    BY <1>7, <2>1 DEF Reopen
  <2>3. QED
    BY <2>2, CallKept DEF Has
<1>8. QED
  BY <1>2, <1>3, <1>4, <1>5, <1>6, <1>7 DEF EagerOpener, EagerWork

(* No call of Open, OpenStream or Prefetch returns an error of its own making: concurrent *)
(* misses wait for one download and open its result, whatever the registry does, whoever  *)
(* is killed, as long as no command evicts and entries can be written.                    *)
THEOREM NeverBroken ==
  ASSUME OneOpenerProcess, Evictors = {}, "lost" \notin Leftovers, "save" \notin Faults
  PROVE  EagerSpec => []NoBrokenOpen
<1>1. EagerInit => EntryTrue
  BY EntryStart
<1>2. EagerInit => CallsComplete
  BY OpenersAssumption DEF EagerInit, DirInit, CallsComplete, NoBrokenOpen
<1>3. EagerInv /\ EntryTrue /\ [EagerNext]_eagerVars => EntryTrue'
  BY EntryStep
<1>4. EagerInv /\ EntryTrue /\ CallsComplete /\ [EagerNext]_eagerVars => CallsComplete'
  <2> SUFFICES ASSUME EagerInv, EntryTrue, CallsComplete, [EagerNext]_eagerVars
               PROVE  CallsComplete'
    OBVIOUS
  <2>1. ASSUME NEW a \in Openers, EagerOpener(a) PROVE CallsComplete'
    BY <2>1, OpenerCompletes
  <2>2. ASSUME NEW b \in Actors, CrashOf(Proc[b]) PROVE CallsComplete'
    BY <2>2, OpenersAssumption DEF CrashOf, dirVars, CallsComplete, NoBrokenOpen, Has
  <2>3. CASE UNCHANGED eagerVars
    BY <2>3 DEF eagerVars, dirVars, actVars, CallsComplete, NoBrokenOpen, Has
  <2>4. QED
    BY <2>1, <2>2, <2>3 DEF EagerNext
<1>5. CallsComplete => NoBrokenOpen
  BY DEF CallsComplete
<1>6. QED
  BY <1>1, <1>2, <1>3, <1>4, <1>5, EagerInvariant, PTL DEF EagerSpec

-------------------------------------------------------------------------------
(* The temporary file, in any number of processes. *)

(* A step of an opener moves nobody else. *)
LEMMA OthersWait ==
  ASSUME pc \in [Actors -> Labels], NEW a \in Openers, EagerOpener(a)
  PROVE  \A b \in Actors \ {a} : pc'[b] = pc[b]
<1> USE OpenersAssumption DEF Goto, actVars
<1>1. CASE BeginOp(a) \/ PrefetchLoad(a) \/ LockAndLoad(a) \/ Reopen(a)
  BY <1>1 DEF BeginOp, Begin, PrefetchLoad, LockAndLoad, Reopen
<1>2. CASE Hit(a)
  BY <1>2 DEF Hit, LoadCompleteEntry, OpenHit, TouchEntry, SelfHeal, EvictBlob, EvictPartial,
              EvictEntry, CloseFile, ReturnError
<1>3. CASE Resume(a)
  BY <1>3 DEF Resume, FetchGap, GapFails, GapNotSupported, VerifyResumed, ForgetResumed,
              InstallResumed
<1>4. CASE FullDownload(a)
  BY <1>4 DEF FullDownload, RemovePartial, FetchBlob, OpenTmp, FetchRefused,
              Copy, CopyChunk, CopyEnds, DiscardDownload, InstallDownload, SaveComplete
<1>5. QED
  BY <1>1, <1>2, <1>3, <1>4 DEF EagerOpener, EagerWork

LEMMA TmpOfOpener ==
  ASSUME DOMAIN name = Names, pc \in [Actors -> Labels], NoOrphanTmp,
         NEW a \in Openers, EagerOpener(a)
  PROVE  NoOrphanTmp' /\ DOMAIN name' = Names /\ pc' \in [Actors -> Labels]
<1> USE OpenersAssumption DEF Goto, Labels, dirVars, actVars
<1>1. DOMAIN name' = Names /\ pc' \in [Actors -> Labels]
  <2>1. CASE BeginOp(a) \/ PrefetchLoad(a) \/ LockAndLoad(a) \/ Reopen(a)
    BY <2>1 DEF BeginOp, Begin, PrefetchLoad, LockAndLoad, AfterDownload, Reopen
  <2>2. CASE Hit(a)
    BY <2>2 DEF Hit, LoadCompleteEntry, OpenHit, TouchEntry, SelfHeal, EvictBlob, EvictPartial,
                EvictEntry, CloseFile, ReturnError, Unlink
  <2>3. CASE Resume(a)
    BY <2>3 DEF Resume, FetchGap, GapFails, GapNotSupported, VerifyResumed, ForgetResumed,
                InstallResumed, Unlink, Rename
  <2>4. CASE FullDownload(a)
    BY <2>4 DEF FullDownload, RemovePartial, FetchBlob, OpenTmp, OpenTruncated, FetchRefused,
                Copy, CopyChunk, CopyEnds, DiscardDownload, InstallDownload, SaveComplete,
                AfterDownload, Unlink, Rename
  <2>5. QED
    BY <2>1, <2>2, <2>3, <2>4 DEF EagerOpener, EagerWork
<1>2. \A b \in Openers \ {a} : pc'[b] = pc[b]
  BY OthersWait
<1>3. CASE pc'[a] \in {"copy", "check"}
  BY <1>1, <1>3 DEF NoOrphanTmp
<1>4. CASE pc'[a] \notin {"copy", "check"}
  <2>1. Has("tmp")' => Has("tmp") /\ pc[a] \notin {"copy", "check"}
    <3> USE <1>4 DEF Has, Names
    <3>1. CASE BeginOp(a) \/ PrefetchLoad(a) \/ LockAndLoad(a) \/ Reopen(a)
      BY <3>1 DEF BeginOp, Begin, PrefetchLoad, LockAndLoad, Reopen
    <3>2. CASE Hit(a)
      BY <3>2 DEF Hit, LoadCompleteEntry, OpenHit, TouchEntry, SelfHeal, EvictBlob,
                  EvictPartial, EvictEntry, CloseFile, ReturnError, Unlink
    <3>3. CASE Resume(a)
      BY <3>3 DEF Resume, FetchGap, GapFails, GapNotSupported, VerifyResumed, ForgetResumed,
                  InstallResumed, Unlink, Rename
    <3>4. CASE RemovePartial(a) \/ FetchBlob(a) \/ FetchRefused(a) \/ Copy(a)
      BY <3>4 DEF RemovePartial, FetchBlob, OpenTmp, FetchRefused, Copy, CopyChunk, CopyEnds,
                  Unlink
    <3>5. CASE DiscardDownload(a) \/ InstallDownload(a) \/ SaveComplete(a)
      BY <3>5 DEF DiscardDownload, InstallDownload, SaveComplete, Unlink, Rename
    <3>6. QED
      BY <3>1, <3>2, <3>3, <3>4, <3>5 DEF EagerOpener, EagerWork, FullDownload
  <2>2. QED
    BY <1>1, <1>2, <2>1 DEF NoOrphanTmp
<1>5. QED
  BY <1>1, <1>3, <1>4

(* A temporary file belongs to a call that is under way: whoever made it renames or       *)
(* removes it before the call returns, in any number of processes and whatever is evicted *)
(* or fails, unless a process is killed (fullDownload).                                   *)
THEOREM TmpHasWriter ==
  ASSUME ~CanCrash, "orphan" \notin Leftovers PROVE EagerSpec => []NoOrphanTmp
<1> DEFINE Inv == NoOrphanTmp /\ DOMAIN name = Names /\ pc \in [Actors -> Labels]
<1>1. EagerInit => Inv
  <2> SUFFICES ASSUME EagerInit PROVE Inv
    OBVIOUS
  <2>1. EagerTypeOK
    BY TypeInit
  <2>2. PICK b \in Inodes, p \in Inodes, t \in Inodes, R \in SUBSET Chunks,
             kind \in Leftovers : LeftBehind(kind, b, p, t, R)
    BY DEF EagerInit, DirInit
  <2>3. ~Has("tmp")
    BY <2>2 DEF LeftBehind, Holds, Has, Names
  <2>4. QED
    BY <2>1, <2>3 DEF NoOrphanTmp, EagerTypeOK, DirTypeOK
<1>2. Inv /\ [EagerNext]_eagerVars => Inv'
  <2> SUFFICES ASSUME Inv, [EagerNext]_eagerVars PROVE Inv'
    OBVIOUS
  <2>1. ASSUME NEW a \in Openers, EagerOpener(a) PROVE Inv'
    BY <2>1, TmpOfOpener
  <2>2. ASSUME NEW e \in Evictors, Evictor(e) PROVE Inv'
    <3> USE OpenersAssumption, RolesAssumption DEF Goto, Labels, actVars, dirVars
    <3>1. e \notin Openers /\ e \in Actors
      OBVIOUS
    <3>2. /\ DOMAIN name' = Names
          /\ pc' \in [Actors -> Labels]
          /\ \A b \in Openers : pc'[b] = pc[b]
      BY <2>2, <3>1 DEF Evictor, EvictBlob, EvictPartial, EvictEntry, ClearBegin, ClearFile,
                        ClearEntries, Unlink
    <3>3. Has("tmp")' => Has("tmp")
      BY <2>2 DEF Evictor, EvictBlob, EvictPartial, EvictEntry, ClearBegin, ClearFile,
                  ClearEntries, Unlink, Has, Names
    <3>4. QED
      BY <3>2, <3>3 DEF NoOrphanTmp
  <2>3. ASSUME NEW b \in Actors, CrashOf(Proc[b]) PROVE Inv'
    BY <2>3 DEF CrashOf
  <2>4. CASE UNCHANGED eagerVars
    BY <2>4 DEF eagerVars, dirVars, actVars, NoOrphanTmp, Has
  <2>5. QED
    BY <2>1, <2>2, <2>3, <2>4 DEF EagerNext
<1>3. QED
  BY <1>1, <1>2, PTL DEF EagerSpec
-------------------------------------------------------------------------------
(* EagerCache implements BlobSource, but for liveness: with the invariant what a call *)
(* returns and what is stored can only be the blob, and a step is a step of a call,   *)
(* of the stored file, or neither.                                                    *)

(* A call that has ended, or has not begun; everything between is pending. *)
Settled == {"idle", "open", "failed", "broken"}

(* The abstract state, with the blob in place of what files hold. *)
Answers == [a \in Openers |-> CallState(a)]
Handed == [a \in Openers |-> IF pc[a] = "open" THEN FullFile ELSE NoInode]
Kept == IF Has("blob") THEN FullFile ELSE NoInode

GotBytes == [a \in Openers |-> IF pc[a] = "open" THEN data[fd[a]] ELSE NoInode]
StoredBytes == IF Has("blob") THEN data[name["blob"]] ELSE NoInode

(* What files hold is the blob, in every state of the invariant. *)
LEMMA OnlyTheBlob == EagerInv => GotBytes = Handed /\ StoredBytes = Kept
<1> SUFFICES ASSUME EagerInv PROVE GotBytes = Handed /\ StoredBytes = Kept
  OBVIOUS
<1>1. \A a \in Openers : pc[a] = "open" => data[fd[a]] = FullFile
  BY DEF EagerInv, FilesSafe, ReadersIntact, Reading, Intact
<1>2. Has("blob") => data[name["blob"]] = FullFile
  BY DEF EagerInv, FilesSafe, InstalledBlobIntact, Intact
<1>3. QED
  BY <1>1, <1>2 DEF GotBytes, Handed, StoredBytes, Kept

LEMMA SourceStart == ASSUME EagerInit, EagerInv PROVE Source!Init
<1>1. \A a \in Openers : pc[a] = "idle"
  BY OpenersAssumption DEF EagerInit, DirInit
<1>2. GotBytes = [a \in Openers |-> NoInode] /\ StoredBytes \in {FullFile, NoInode}
  BY <1>1, OnlyTheBlob DEF Handed, Kept
<1>3. QED
  BY <1>1, <1>2 DEF Source!Init, GotBytes, StoredBytes, CallState

-------------------------------------------------------------------------------
(* A step of one call: it begins, goes on, is answered, or releases its answer. *)
LEMMA CallStep ==
  ASSUME EagerInv, EagerInv', NEW a \in Openers, NEW l \in Labels,
         pc' = [pc EXCEPT ![a] = l], name'["blob"] = name["blob"],
         \/ pc[a] \notin Settled
         \/ pc[a] = "idle" /\ l \notin {"open", "failed", "broken"}
         \/ pc[a] \in Settled /\ l = "idle"
  PROVE  [Source!Next]_Source!vars
<1> DEFINE was == CallState(a)
           is == CallState(a)'
<1>1. pc \in [Actors -> Labels] /\ a \in Actors
  BY OpenersAssumption DEF EagerInv, EagerTypeOK, DirTypeOK
<1>2. Answers' = [Answers EXCEPT ![a] = is]
  BY <1>1, OpenersAssumption DEF Answers, CallState
<1>3. Handed' = [Handed EXCEPT ![a] = IF l = "open" THEN FullFile ELSE NoInode]
  BY <1>1, OpenersAssumption DEF Handed
<1>4. GotBytes = Handed /\ StoredBytes = Kept /\ GotBytes' = Handed' /\ StoredBytes' = Kept'
  <2>1. (GotBytes = Handed /\ StoredBytes = Kept)'
    BY OnlyTheBlob, PTL
  <2>2. QED
    BY <2>1, OnlyTheBlob
<1>5. StoredBytes' = StoredBytes
  BY <1>4 DEF Kept, Has
<1>6. Answers[a] = was /\ Handed[a] = IF pc[a] = "open" THEN FullFile ELSE NoInode
  BY DEF Answers, Handed
<1>7. CASE pc[a] \notin Settled
  <2>1. was = "pending"
    BY <1>7 DEF CallState, Settled
  <2>2. CASE l = "open"
    <3>1. is = "served"
      BY <1>1, <2>2 DEF CallState
    <3>2. Source!Serve(a)
      BY <1>2, <1>3, <1>4, <1>5, <1>6, <2>1, <2>2, <3>1
         DEF Source!Serve, Answers, GotBytes, StoredBytes
    <3>3. QED
      BY <3>2 DEF Source!Next, Source!Answer
  <2>3. CASE l # "open"
    <3>1. Handed' = Handed
      BY <1>3, <1>7, <2>3 DEF Handed, Settled
    <3>2. is \in {"idle", "refused", "pending"}
      BY <1>1, <2>3 DEF CallState
    <3>3. Answers' = Answers \/ Source!Refuse(a) \/ Source!Finish(a)
      BY <1>2, <1>4, <1>5, <1>6, <2>1, <3>1, <3>2
         DEF Source!Refuse, Source!Finish, Answers, GotBytes, StoredBytes
    <3>4. QED
      BY <1>4, <1>5, <3>1, <3>3
         DEF Source!Next, Source!Answer, Source!vars, Answers, GotBytes, StoredBytes
  <2>4. QED
    BY <2>2, <2>3
<1>8. CASE pc[a] = "idle" /\ l \notin {"open", "failed", "broken"}
  <2>1. was = "idle" /\ is \in {"idle", "pending"} /\ Handed' = Handed
    BY <1>1, <1>3, <1>8 DEF CallState, Handed
  <2>2. Answers' = Answers \/ Source!Call(a)
    BY <1>2, <1>4, <1>5, <1>6, <2>1 DEF Source!Call, Answers, GotBytes, StoredBytes
  <2>3. QED
    BY <1>4, <1>5, <2>1, <2>2
       DEF Source!Next, Source!vars, Answers, GotBytes, StoredBytes
<1>9. CASE pc[a] \in Settled \ {"idle"} /\ l = "idle"
  <2>1. was \in {"served", "refused"} /\ is = "idle"
    BY <1>1, <1>9 DEF CallState, Settled
  <2>2. Source!Release(a)
    BY <1>2, <1>3, <1>4, <1>5, <1>6, <1>9, <2>1
       DEF Source!Release, Answers, GotBytes, StoredBytes
  <2>3. QED
    BY <2>2 DEF Source!Next
<1>10. QED
  BY <1>7, <1>8, <1>9 DEF Settled

(* A step that answers nobody, whatever it does to files: it installs the blob, *)
(* removes it, or neither. *)
AnswersNobody ==
  \A a \in Openers :
    (pc[a] \in Settled \/ pc'[a] \in Settled) => pc'[a] = pc[a]

LEMMA FileStep ==
  ASSUME EagerInv, EagerInv', AnswersNobody
  PROVE  [Source!Next]_Source!vars
<1>1. Answers' = Answers /\ Handed' = Handed
  BY DEF AnswersNobody, Answers, Handed, CallState, Settled
<1>2. GotBytes' = GotBytes /\ StoredBytes = Kept /\ StoredBytes' = Kept'
  <2>1. (GotBytes = Handed /\ StoredBytes = Kept)'
    BY OnlyTheBlob, PTL
  <2>2. QED
    BY <1>1, <2>1, OnlyTheBlob
<1>3. StoredBytes' \in {FullFile, NoInode}
  BY <1>2 DEF Kept
<1>4. Source!Store \/ Source!Drop
  BY <1>1, <1>2, <1>3 DEF Source!Store, Source!Drop, Answers, GotBytes, StoredBytes
<1>5. QED
  BY <1>4 DEF Source!Next

(* The process of some calls is killed. *)
LEMMA KillStep ==
  ASSUME EagerInv, EagerInv', NEW b \in Actors, CrashOf(Proc[b])
  PROVE  [Source!Next]_Source!vars
<1> DEFINE Dead == {a \in Openers : Proc[a] = Proc[b]}
<1>1. name' = name /\ \A a \in Openers : pc'[a] = IF a \in Dead THEN "idle" ELSE pc[a]
  BY OpenersAssumption DEF CrashOf, dirVars
<1>2. Answers' = [a \in Openers |-> IF a \in Dead THEN "idle" ELSE Answers[a]]
  BY <1>1 DEF Answers, CallState
<1>3. Handed' = [a \in Openers |-> IF a \in Dead THEN NoInode ELSE Handed[a]]
  BY <1>1 DEF Handed
<1>4. GotBytes = Handed /\ GotBytes' = Handed' /\ StoredBytes' = StoredBytes
  <2>1. (GotBytes = Handed /\ StoredBytes = Kept)'
    BY OnlyTheBlob, PTL
  <2>2. QED
    BY <1>1, <2>1, OnlyTheBlob DEF Kept, Has
<1>5. Dead \in SUBSET Openers
  OBVIOUS
<1>6. Source!Kill
  BY <1>2, <1>3, <1>4, <1>5 DEF Source!Kill, Answers, GotBytes, StoredBytes
<1>7. QED
  BY <1>6 DEF Source!Next

-------------------------------------------------------------------------------
(* A step of an opener's call changes the files or its answer, never both. *)
LEMMA OpenerImplements ==
  ASSUME EagerInv, EagerInv', NEW a \in Openers, EagerOpener(a)
  PROVE  [Source!Next]_Source!vars
<1> USE OpenersAssumption DEF Goto, dirVars, Settled
<1>0. pc'[a] \in Labels
  BY DEF EagerInv, EagerTypeOK, DirTypeOK
<1>1. pc \in [Actors -> Labels] /\ a \in Actors
  BY DEF EagerInv, EagerTypeOK, DirTypeOK
<1>2. CASE BeginOp(a) \/ PrefetchLoad(a) \/ LockAndLoad(a) \/ Reopen(a)
  <2>1. name' = name
    BY <1>2 DEF BeginOp, Begin, PrefetchLoad, LockAndLoad, Reopen
  <2>2. pc' = [pc EXCEPT ![a] = pc'[a]]
    BY <1>1, <1>2 DEF BeginOp, Begin, PrefetchLoad, LockAndLoad, Reopen
  <2>3. pc[a] \in Settled => pc[a] = "idle" /\ pc'[a] = "load"
    BY <1>1, <1>2 DEF BeginOp, Begin, PrefetchLoad, LockAndLoad, Reopen
  <2>4. QED
    BY <1>0, <2>1, <2>2, <2>3, CallStep
<1>3. CASE Hit(a)
  <2>1. CASE SelfHeal(a, "lock")
    <3>1. AnswersNobody
      BY <1>1, <2>1 DEF AnswersNobody, SelfHeal, EvictBlob, EvictPartial, EvictEntry
    <3>2. QED
      BY <3>1, FileStep
  <2>2. CASE LoadCompleteEntry(a, "lock") \/ OpenHit(a) \/ TouchEntry(a)
             \/ CloseFile(a) \/ ReturnError(a)
    <3>1. name' = name
      BY <2>2 DEF LoadCompleteEntry, OpenHit, TouchEntry, CloseFile, ReturnError
    <3>2. PICK l \in Labels :
            /\ pc' = [pc EXCEPT ![a] = l]
            /\ pc[a] \notin Settled \/ l = "idle"
      BY <2>2 DEF LoadCompleteEntry, OpenHit, TouchEntry, CloseFile, ReturnError, Labels
    <3>3. QED
      BY <3>1, <3>2, CallStep
  <2>3. QED
    BY <1>3, <2>1, <2>2 DEF Hit
<1>4. CASE Resume(a)
  <2>1. CASE FetchGap(a)
    <3>1. AnswersNobody
      BY <2>1 DEF AnswersNobody, FetchGap, actVars
    <3>2. QED
      BY <3>1, FileStep
  <2>2. CASE GapFails(a) \/ GapNotSupported(a) \/ VerifyResumed(a) \/ ForgetResumed(a)
             \/ InstallResumed(a)
    <3>1. AnswersNobody
      BY <1>1, <2>2
         DEF AnswersNobody, GapFails, GapNotSupported, VerifyResumed, ForgetResumed, InstallResumed
    <3>2. QED
      BY <3>1, FileStep
  <2>3. QED
    BY <1>4, <2>1, <2>2 DEF Resume
<1>5. CASE FullDownload(a)
  <2>1. CASE RemovePartial(a) \/ FetchBlob(a) \/ CopyEnds(a)
    <3>1. AnswersNobody
      BY <1>1, <2>1 DEF AnswersNobody, RemovePartial, FetchBlob, OpenTmp, CopyEnds
    <3>2. QED
      BY <3>1, FileStep
  <2>2. CASE CopyChunk(a)
    <3>1. AnswersNobody
      BY <2>2 DEF AnswersNobody, CopyChunk
    <3>2. QED
      BY <3>1, FileStep
  <2>3. CASE FetchRefused(a) \/ SaveComplete(a)
    <3>1. name' = name /\ pc[a] \notin Settled
      BY <2>3 DEF FetchRefused, SaveComplete
    <3>2. PICK l \in Labels : pc' = [pc EXCEPT ![a] = l]
      BY <2>3 DEF FetchRefused, SaveComplete, AfterDownload, Labels
    <3>3. QED
      BY <3>1, <3>2, CallStep
  <2>4. CASE DiscardDownload(a)
    <3>1. name'["blob"] = name["blob"] /\ pc[a] \notin Settled
      BY <2>4, <1>1 DEF DiscardDownload, Unlink, EagerInv, EagerTypeOK, DirTypeOK, Names
    <3>2. pc' = [pc EXCEPT ![a] = "failed"]
      BY <2>4 DEF DiscardDownload
    <3>3. QED
      BY <3>1, <3>2, CallStep DEF Labels
  <2>5. CASE InstallDownload(a)
    <3>1. CASE pc' = [pc EXCEPT ![a] = "save"]
      <4>1. AnswersNobody
        BY <1>1, <2>5, <3>1 DEF AnswersNobody, InstallDownload
      <4>2. QED
        BY <4>1, FileStep
    <3>2. CASE pc' = [pc EXCEPT ![a] = "broken"] /\ name' = name
      BY <2>5, <3>2, CallStep DEF InstallDownload, Labels
    <3>3. QED
      BY <2>5, <3>1, <3>2 DEF InstallDownload
  <2>6. QED
    BY <1>5, <2>1, <2>2, <2>3, <2>4, <2>5 DEF FullDownload, Copy
<1>6. QED
  BY <1>2, <1>3, <1>4, <1>5 DEF EagerOpener, EagerWork

(* Calls of evictors are not calls on the source. *)
LEMMA SourceStep ==
  ASSUME EagerInv, EagerInv', [EagerNext]_eagerVars PROVE [Source!Next]_Source!vars
<1>1. ASSUME NEW a \in Openers, EagerOpener(a) PROVE [Source!Next]_Source!vars
  BY <1>1, OpenerImplements
<1>2. ASSUME NEW e \in Evictors, Evictor(e) PROVE [Source!Next]_Source!vars
  <2>1. AnswersNobody
    BY <1>2, OpenersAssumption, RolesAssumption
       DEF AnswersNobody, Evictor, EvictBlob, EvictPartial, EvictEntry, ClearBegin, ClearFile, ClearEntries,
           Goto, actVars, EagerInv, EagerTypeOK, DirTypeOK
  <2>2. QED
    BY <2>1, FileStep
<1>3. ASSUME NEW b \in Actors, CrashOf(Proc[b]) PROVE [Source!Next]_Source!vars
  BY <1>3, KillStep
<1>4. CASE UNCHANGED eagerVars
  <2>1. AnswersNobody
    BY <1>4 DEF AnswersNobody, eagerVars, actVars, dirVars, eagerLocals
  <2>2. QED
    BY <2>1, FileStep
<1>5. QED
  BY <1>1, <1>2, <1>3, <1>4 DEF EagerNext

(* The detailed cache implements the abstract source (contracts.BlobSource): whatever is *)
(* resumed, refused, killed or evicted, a caller and the directory see the blob or       *)
(* nothing, and a call that was answered is not answered again.                          *)
THEOREM ImplementsSource ==
  ASSUME OneOpenerProcess PROVE EagerSpec => Source!Spec
<1>1. EagerInit /\ EagerInv => Source!Init
  BY SourceStart
<1>2. EagerInv /\ EagerInv' /\ [EagerNext]_eagerVars => [Source!Next]_Source!vars
  BY SourceStep
<1>3. QED
  BY <1>1, <1>2, EagerInvariant, PTL DEF EagerSpec, Source!Spec
===============================================================================
