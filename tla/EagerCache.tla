------------------------------ MODULE EagerCache ------------------------------
(***************************************************************************)
(* Cache.Open, OpenStream and Prefetch: a miss downloads the whole blob    *)
(* under c.mu, resuming a partial file with range requests when there is   *)
(* one, and hands out the file it installed.                               *)
(***************************************************************************)
EXTENDS CacheDir

CONSTANTS Openers,   \* goroutines that call Open, OpenStream or Prefetch
          Evictors   \* goroutines that call Evict or Clear

ASSUME OpenersAssumption == Openers \subseteq Actors /\ Evictors \subseteq Actors
ASSUME RolesAssumption == Openers \cap Evictors = {}

VARIABLES op,     \* op[a]: which of the three calls a is in
          have    \* have[a]: updatedRanges, the ranges resumeDownload counts as present

eagerLocals == <<op, have>>
eagerVars == <<dirVars, actVars, eagerLocals>>

Ops == {"open", "stream", "prefetch"}

EagerTypeOK ==
  /\ DirTypeOK
  /\ op \in [Openers -> Ops]
  /\ have \in [Openers -> SUBSET Chunks]

EagerInit ==
  /\ DirInit
  /\ op = [a \in Openers |-> "open"]
  /\ have = [a \in Openers |-> {}]

-------------------------------------------------------------------------------
BeginOp(a) ==
  /\ Begin(a)
  /\ \E o \in Ops : op' = [op EXCEPT ![a] = o]
  /\ UNCHANGED have

(* Open and OpenStream: a hit is opened, touched and returned; a bad hit is evicted first. *)
Hit(a) ==
  /\ \/ op[a] # "prefetch" /\ LoadCompleteEntry(a, "lock")
     \/ OpenHit(a)
     \/ TouchEntry(a)
     \/ SelfHeal(a, "lock")
     \/ CloseFile(a)
     \/ ReturnError(a)
  /\ UNCHANGED eagerLocals

(* Prefetch has nothing to do when the entry is complete. *)
PrefetchLoad(a) ==
  /\ pc[a] = "load" /\ op[a] = "prefetch"
  /\ Goto(a, IF entry.state = "complete" THEN "idle" ELSE "lock")
  /\ UNCHANGED <<dirVars, mu, fd, pos, sound, eagerLocals>>

(* Where a call goes when downloadBlob returns nil. *)
AfterDownload(a) == IF op[a] = "prefetch" THEN "idle" ELSE "reopen"

(* downloadBlob: lock, look at the entry again, resume or start afresh. *)
(* Ranges that leave no gap are an error, and the download starts afresh. *)
Resumable ==
  entry.state = "partial" /\ entry.ranges \notin {{}, Chunks} /\ Has("partial")

(* A bug: the lock is not waited for. *)
LoadWithoutLock(a) ==
  /\ pc[a] = "lock" /\ entry.state # "complete" /\ ~Resumable
  /\ mu' = mu \cup {a}
  /\ Goto(a, "full")
  /\ UNCHANGED <<dirVars, fd, have, pos, sound, op>>

LockAndLoad(a) ==
  /\ pc[a] = "lock" /\ MuFree(a)
  /\ \/ /\ entry.state = "complete"
        /\ Goto(a, AfterDownload(a))
        /\ UNCHANGED <<mu, fd, have>>
     \/ /\ Resumable
        /\ mu' = mu \cup {a}
        /\ fd' = [fd EXCEPT ![a] = name["partial"]]
        /\ have' = [have EXCEPT ![a] = entry.ranges]
        /\ Goto(a, "gap")
     \/ /\ entry.state # "complete" /\ ~Resumable
        /\ mu' = mu \cup {a}
        /\ Goto(a, "full")
        /\ UNCHANGED <<fd, have>>
  /\ UNCHANGED <<dirVars, pos, sound, op>>

-------------------------------------------------------------------------------
(* resumeDownload *)

(* findGaps, first element: the lowest run of chunks that are not in R. *)
FirstGap(R) ==
  {c \in Chunks \ R : \E lo \in Chunks \ R : /\ \A d \in Chunks \ R : lo <= d
                                             /\ (lo..c) \cap R = {}}

FetchGap(a) ==
  LET gap == FirstGap(have[a])
  IN /\ pc[a] = "gap" /\ have[a] # Chunks
     /\ \E right \in {TRUE} \cup {b \in {FALSE} : "bad" \in Faults} :
          data' = [data EXCEPT ![fd[a]] = Written(fd[a], gap, right)]
     /\ have' = [have EXCEPT ![a] = have[a] \cup gap]
     /\ UNCHANGED <<name, entry, actVars, op>>

(* The partial file and the ranges in memory are not used any more. *)
EndResume(a) ==
  /\ fd' = [fd EXCEPT ![a] = NoInode]
  /\ have' = [have EXCEPT ![a] = {}]

(* A refused or interrupted range saves the progress made and falls back to fullDownload. *)
GapFails(a) ==
  /\ pc[a] = "gap" /\ have[a] # Chunks
  /\ \/ /\ "fetch" \in Faults
        /\ UNCHANGED data
     \/ /\ "short" \in Faults
        /\ \E c \in FirstGap(have[a]) :
             data' = [data EXCEPT ![fd[a]] =
                        Written(fd[a], {d \in FirstGap(have[a]) : d < c}, TRUE)]
  /\ SaveEntry(PartialEntry(have[a]))
  /\ EndResume(a)
  /\ Goto(a, "full")
  /\ UNCHANGED <<name, mu, pos, sound, op>>

(* ErrRangeNotSupported, or a sync that fails at the end, falls back without saving anything. *)
GapNotSupported(a) ==
  /\ pc[a] = "gap"
  /\ IF have[a] # Chunks THEN "norange" \in Faults ELSE "short" \in Faults
  /\ EndResume(a)
  /\ Goto(a, "full")
  /\ UNCHANGED <<dirVars, mu, pos, sound, op>>

(* A bug: the resumed file is not hashed. *)
TrustResumed(a) ==
  /\ pc[a] = "gap" /\ have[a] = Chunks
  /\ EndResume(a)
  /\ Goto(a, "rinstall")
  /\ UNCHANGED <<dirVars, mu, pos, sound, op>>

(* The whole file is hashed; a mismatch removes the partial file, then the entry. *)
VerifyResumed(a) ==
  /\ pc[a] = "gap" /\ have[a] = Chunks
  /\ EndResume(a)
  /\ \/ /\ Intact(fd[a])
        /\ Goto(a, "rinstall")
        /\ UNCHANGED name
     \/ /\ ~Intact(fd[a])
        /\ Unlink("partial")
        /\ Goto(a, "rforget")
  /\ UNCHANGED <<data, entry, mu, pos, sound, op>>

ForgetResumed(a) ==
  /\ pc[a] = "rforget"
  /\ entry' = NoEntry
  /\ Goto(a, "full")
  /\ UNCHANGED <<name, data, mu, fd, pos, sound, eagerLocals>>

(* The partial file becomes the blob by name; the rename fails when the name is gone. *)
InstallResumed(a) ==
  /\ pc[a] = "rinstall"
  /\ \/ /\ Has("partial")
        /\ Rename("partial", "blob")
        /\ Goto(a, "save")
     \/ /\ ~Has("partial")
        /\ Goto(a, "full")
        /\ UNCHANGED name
  /\ UNCHANGED <<data, entry, mu, fd, pos, sound, eagerLocals>>

-------------------------------------------------------------------------------
(* fullDownload *)

RemovePartial(a) ==
  /\ pc[a] = "full"
  /\ Unlink("partial")
  /\ Goto(a, "fetch")
  /\ UNCHANGED <<data, entry, mu, fd, pos, sound, eagerLocals>>

(* A bug: the entry is written when the download starts. *)
FetchAndAnnounce(a) ==
  /\ pc[a] = "fetch"
  /\ OpenTruncated(a, "tmp")
  /\ entry' = CompleteEntry
  /\ Goto(a, "copy")
  /\ UNCHANGED <<mu, pos, sound, eagerLocals>>

FetchBlob(a) ==
  /\ pc[a] = "fetch"
  /\ OpenTmp(a)
  /\ UNCHANGED eagerLocals

FetchRefused(a) ==
  /\ pc[a] = "fetch" /\ "fetch" \in Faults
  /\ mu' = mu \ {a}
  /\ Goto(a, "failed")
  /\ UNCHANGED <<dirVars, fd, pos, sound, eagerLocals>>

Copy(a) == (CopyChunk(a) \/ CopyEnds(a)) /\ UNCHANGED eagerLocals

(* A bug: the temporary file of a failed download stays. *)
AbandonDownload(a) ==
  /\ pc[a] = "check" /\ GiveUp(a)
  /\ ForgetStream(a)
  /\ mu' = mu \ {a}
  /\ Goto(a, "failed")
  /\ UNCHANGED <<dirVars, fd, eagerLocals>>

(* A bug: a failed download is tried again without a limit. *)
RetryDownload(a) ==
  /\ pc[a] = "check" /\ GiveUp(a)
  /\ Unlink("tmp")
  /\ ForgetStream(a)
  /\ Goto(a, "fetch")
  /\ UNCHANGED <<data, entry, mu, fd, eagerLocals>>

(* A download that is given up removes whatever has the name .tmp. *)
DiscardDownload(a) ==
  /\ pc[a] = "check" /\ GiveUp(a)
  /\ Unlink("tmp")
  /\ ForgetStream(a)
  /\ mu' = mu \ {a}
  /\ Goto(a, "failed")
  /\ UNCHANGED <<data, entry, fd, eagerLocals>>

(* Whatever has the name .tmp becomes the blob. *)
InstallDownload(a) ==
  /\ pc[a] = "check" /\ StreamIsBlob(a)
  /\ ForgetStream(a)
  /\ \/ /\ Has("tmp")
        /\ Rename("tmp", "blob")
        /\ Goto(a, "save")
        /\ UNCHANGED mu
     \/ /\ ~Has("tmp")
        /\ mu' = mu \ {a}
        /\ Goto(a, "broken")
        /\ UNCHANGED name
  /\ UNCHANGED <<data, entry, fd, eagerLocals>>

(* The entry is marked complete and verified, and downloadBlob returns. *)
SaveComplete(a) ==
  /\ pc[a] = "save"
  /\ SaveEntry(CompleteEntry)
  /\ mu' = mu \ {a}
  /\ Goto(a, AfterDownload(a))
  /\ UNCHANGED <<name, data, fd, pos, sound, eagerLocals>>

(* Open loads the entry it expects and checks the file; OpenStream only opens it. *)
Reopen(a) ==
  LET opens == IF op[a] = "open" THEN entry.state # "none" /\ BlobOpens ELSE Has("blob")
  IN /\ pc[a] = "reopen"
     /\ \/ /\ opens
           /\ fd' = [fd EXCEPT ![a] = name["blob"]]
           /\ Goto(a, "open")
        \/ /\ ~opens
           /\ Goto(a, "broken")
           /\ UNCHANGED fd
     /\ UNCHANGED <<dirVars, mu, pos, sound, eagerLocals>>

-------------------------------------------------------------------------------
Resume(a) ==
  \/ FetchGap(a) \/ GapFails(a) \/ GapNotSupported(a)
  \/ VerifyResumed(a) \/ ForgetResumed(a) \/ InstallResumed(a)

FullDownload(a) ==
  \/ RemovePartial(a) \/ FetchBlob(a) \/ FetchRefused(a) \/ Copy(a)
  \/ DiscardDownload(a) \/ InstallDownload(a) \/ SaveComplete(a)

(* The steps of a call once it has begun. *)
EagerWork(a) ==
  \/ Hit(a) \/ PrefetchLoad(a) \/ LockAndLoad(a)
  \/ Resume(a) \/ FullDownload(a) \/ Reopen(a)

EagerOpener(a) == BeginOp(a) \/ EagerWork(a)

EagerNext ==
  \/ \E a \in Openers : EagerOpener(a)
  \/ (\E e \in Evictors : Evictor(e)) /\ UNCHANGED eagerLocals
  \/ (\E a \in Actors : CrashOf(Proc[a])) /\ UNCHANGED eagerLocals

EagerSpec == EagerInit /\ [][EagerNext]_eagerVars

(* A goroutine that can go on does; sync.RWMutex does not starve a waiter; the *)
(* registry answers or fails.  Nobody has to call, and a handle may stay open. *)
EagerFairness ==
  \A a \in Openers :
    /\ WF_eagerVars(EagerWork(a) /\ ~CloseFile(a))
    /\ SF_eagerVars(LockAndLoad(a))
    /\ SF_eagerVars(EvictBlob(a, "heal") /\ UNCHANGED eagerLocals)

FairEagerSpec == EagerSpec /\ EagerFairness

-------------------------------------------------------------------------------
(* What has the final name is the whole blob with the right bytes, whatever was *)
(* interrupted, killed or evicted meanwhile (fullDownload, resumeDownload). *)
InstalledBlobIntact == Has("blob") => Intact(name["blob"])

(* The bytes behind a handle that Open, OpenStream or a hit returned are the blob, *)
(* for as long as the handle is open, even when the name was evicted or replaced. *)
HandleIntact ==
  \A a \in Openers : pc[a] = "open" => fd[a] # NoInode /\ Intact(fd[a])

-------------------------------------------------------------------------------
(* Why both hold when the openers share one process: the inductive invariant. *)

OneOpenerProcess == \A a, b \in Openers : Proc[a] = Proc[b]

Locked ==
  {"evictpartial", "evictentry", "gap", "rforget", "rinstall",
   "full", "fetch", "copy", "check", "save"}
Reading == {"touch", "open"}

(* One opener at a time is between Lock and Unlock. *)
MutexHeld ==
  /\ \A a \in Openers : pc[a] \in Locked => a \in mu
  /\ \A a, b \in Openers : a \in mu /\ b \in mu => a = b

NamesDistinct == \A m, n \in Names : m # n /\ Has(m) => name[m] # name[n]

FdsUsed ==
  \A a \in Actors : fd[a] # NoInode => a \in Openers /\ pc[a] \in Reading \cup {"gap", "copy"}

(* A file that is read is the blob, and nobody can write it any more. *)
ReadersIntact ==
  \A a \in Openers : pc[a] \in Reading =>
    /\ fd[a] \in Inodes /\ Intact(fd[a])
    /\ fd[a] # name["partial"] /\ fd[a] # name["tmp"]

(* The file a writes is under name n or under no name, and only a has it open. *)
WritesAlone(a, n) ==
  /\ fd[a] \in Inodes
  /\ Has(n) => name[n] = fd[a]
  /\ \A m \in Names \ {n} : name[m] # fd[a]
  /\ \A b \in Actors \ {a} : fd[b] # fd[a]

WritersAlone ==
  \A a \in Openers :
    /\ pc[a] = "gap" => WritesAlone(a, "partial")
    /\ pc[a] = "copy" => WritesAlone(a, "tmp")

(* While the hash of the stream is right, the file is a prefix of the blob. *)
Prefix(n) == [span |-> 1..n, good |-> 1..n]
CopyIsPrefix ==
  \A a \in Openers :
    /\ pc[a] = "copy" /\ sound[a] => data[fd[a]] = Prefix(pos[a])
    /\ pc[a] = "check" /\ sound[a] /\ Has("tmp") => data[name["tmp"]] = Prefix(pos[a])

ResumedIntact ==
  \A a \in Openers : pc[a] = "rinstall" /\ Has("partial") => Intact(name["partial"])

StreamsForgotten ==
  \A a \in Openers : pc[a] \notin {"copy", "check"} => pos[a] = 0 /\ sound[a] = TRUE

FilesSafe ==
  /\ NamesDistinct /\ FdsUsed /\ ReadersIntact /\ WritersAlone
  /\ CopyIsPrefix /\ ResumedIntact /\ StreamsForgotten /\ InstalledBlobIntact

EagerInv == EagerTypeOK /\ MutexHeld /\ FilesSafe

-------------------------------------------------------------------------------
(* cache.go:73-74: a missing or corrupt blob is evicted and downloaded again, and     *)
(* concurrent misses wait for one download and open its result, so no call fails      *)
(* while the registry and the disk do what they are asked.                            *)
NoBrokenOpen == \A a \in Openers : pc[a] # "broken"

(* An entry never promises a blob that is not there: the file is renamed into place *)
(* before the entry is written (fullDownload, resumeDownload). *)
CompleteHasBlob == entry.state = "complete" => Has("blob")

(* Whoever creates the temporary file renames or removes it before its call returns. *)
NoOrphanTmp ==
  Has("tmp") => \E a \in Openers : pc[a] \in {"copy", "check"}

(* Why the entry tells the truth as long as nobody evicts: an entry that is complete stays *)
(* so, since whoever would write another one came to the lock first and found it partial   *)
(* or missing, and so nobody who found it complete has a reason to evict.                  *)
Downloading == Locked \ {"evictpartial", "evictentry"}

EntryTrue ==
  /\ CompleteHasBlob
  /\ \A a \in Openers :
       /\ pc[a] \in Downloading => entry.state # "complete"
       /\ pc[a] \in {"hit", "touch"} => entry.state = "complete"
       /\ pc[a] = "save" => Has("blob")
       /\ pc[a] \notin {"heal", "evictpartial", "evictentry"}

(* Why no call breaks, when entries can be saved besides: the temporary file of a *)
(* download keeps its name, and what was saved is found again.                    *)
CallsComplete ==
  /\ NoBrokenOpen
  /\ \A a \in Openers :
       /\ pc[a] \in {"copy", "check"} => Has("tmp")
       /\ pc[a] = "reopen" => entry.state = "complete"

-------------------------------------------------------------------------------
(* The calls of EagerCache as calls on a BlobSource. *)
CallState(a) ==
  CASE pc[a] = "idle" -> "idle"
    [] pc[a] = "open" -> "served"
    [] pc[a] \in {"failed", "broken"} -> "refused"
    [] OTHER -> "pending"

Source == INSTANCE BlobSource
  WITH Clients <- Openers, Blob <- FullFile, Nothing <- NoInode,
       call <- [a \in Openers |-> CallState(a)],
       got <- [a \in Openers |-> IF pc[a] = "open" THEN data[fd[a]] ELSE NoInode],
       stored <- IF Has("blob") THEN data[name["blob"]] ELSE NoInode
===============================================================================
