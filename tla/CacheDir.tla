------------------------------- MODULE CacheDir -------------------------------
(***************************************************************************)
(* The on-disk cache of one blob (internal/cache): three file names, one   *)
(* metadata entry, and the operations every client of the directory uses.  *)
(*                                                                         *)
(* A file is an inode: a name can be unlinked or renamed while a           *)
(* descriptor still reads or writes the inode, as the code does on a Unix  *)
(* file system.  The blob is cut into Size chunks; an inode records which  *)
(* chunks lie below its end (span) and which hold the right bytes (good),  *)
(* so a hole in a sparse file is a chunk of span that is not good (a read  *)
(* returns zeros).                                                         *)
(*                                                                         *)
(* Actors are goroutines.  Proc maps each to its process: the mutex c.mu   *)
(* belongs to one Cache value, so it excludes the actors of one process    *)
(* only, and the directory is shared by several (a cron job that prunes,   *)
(* two command lines).                                                     *)
(***************************************************************************)
EXTENDS Integers, FiniteSets

CONSTANTS Actors,        \* goroutines that use the directory
          Proc,          \* Proc[a]: the process of actor a
          Inodes,        \* enough files for the names and the descriptors
          NoInode,       \* no file under this name, or no descriptor
          Size,          \* chunks of the blob
          Faults,        \* what may fail: see FaultKinds
          VerifyOnRead,  \* Cache.verifyOnRead
          CanCrash,      \* whether a process may be killed
          Leftovers      \* directories a run may start from: see DirInit

FaultKinds == {"fetch",    \* a registry request is refused, or cancelled
               "norange",  \* the registry does not serve ranges
               "short",    \* a body ends early, or the disk refuses a write, sync, rename or open
               "bad",      \* a body carries wrong bytes
               "save"}     \* the metadata entry cannot be written

LeftoverKinds == {"empty", "partial", "complete", "lost", "stale", "orphan"}

ASSUME SizeAssumption == Size \in Nat \ {0}
ASSUME NoInodeAssumption == NoInode \notin Inodes
ASSUME FaultAssumption == Faults \subseteq FaultKinds
ASSUME LeftoverAssumption == Leftovers \subseteq LeftoverKinds
ASSUME SwitchAssumption == VerifyOnRead \in BOOLEAN /\ CanCrash \in BOOLEAN

VARIABLES name,    \* name[n]: the inode under <digest>, .partial, .tmp
          data,    \* data[f]: extent and right chunks of inode f
          entry,   \* the metadata entry of the digest
          mu,      \* actors that hold the c.mu of their process
          pc,      \* where each actor is in its operation
          fd,      \* fd[a]: the inode a has open
          pos,     \* chunks a has copied to its temporary file
          sound    \* whether the stream a hashed is the blob so far

dirVars == <<name, data, entry>>
actVars == <<mu, pc, fd, pos, sound>>

Chunks == 1..Size
Names == {"blob", "partial", "tmp"}
File == [span : SUBSET Chunks, good : SUBSET Chunks]
Entry == [state : {"none", "partial", "complete"}, ranges : SUBSET Chunks]

EmptyFile == [span |-> {}, good |-> {}]
FullFile == [span |-> Chunks, good |-> Chunks]
Intact(f) == data[f] = FullFile

NoEntry == [state |-> "none", ranges |-> {}]
PartialEntry(R) == [state |-> "partial", ranges |-> R]
CompleteEntry == [state |-> "complete", ranges |-> {}]

(* Where an actor can be: nowhere, in the shared steps, or in the steps of one component. *)
Labels ==
  {"idle", "load", "hit", "touch", "open", "heal", "failed", "broken",
   "evictpartial", "evictentry", "clear", "fetch", "copy", "check", "save"}
  \cup {"lock", "gap", "rforget", "rinstall", "full", "reopen"}
  \cup {"sweep", "sweepentry"}
  \cup {"openlazy", "resize", "announce", "lazy", "lfetch", "lrename", "lreopen", "lsave"}

DirTypeOK ==
  /\ name \in [Names -> Inodes \cup {NoInode}]
  /\ data \in [Inodes -> File]
  /\ entry \in Entry
  /\ mu \in SUBSET Actors
  /\ pc \in [Actors -> Labels]
  /\ fd \in [Actors -> Inodes \cup {NoInode}]
  /\ pos \in [Actors -> 0..Size]
  /\ sound \in [Actors -> BOOLEAN]

-------------------------------------------------------------------------------
(* The file system. *)

Has(n) == name[n] # NoInode
Live == {f \in Inodes : (\E n \in Names : name[n] = f) \/ (\E a \in Actors : fd[a] = f)}

Unlink(n) == name' = [name EXCEPT ![n] = NoInode]
Rename(from, to) == name' = [name EXCEPT ![to] = name[from], ![from] = NoInode]

(* os.OpenFile(O_CREATE|O_TRUNC) by a: the same inode is reused when the name exists. *)
OpenTruncated(a, n) ==
  \E f \in IF Has(n) THEN {name[n]} ELSE Inodes \ Live :
     /\ name' = [name EXCEPT ![n] = f]
     /\ data' = [data EXCEPT ![f] = EmptyFile]
     /\ fd' = [fd EXCEPT ![a] = f]

(* File f after bytes for the chunks C, right or wrong, reach it; a gap below is a hole. *)
Written(f, C, right) ==
  [span |-> data[f].span \cup {d \in Chunks : \E c \in C : d <= c},
   good |-> IF right THEN data[f].good \cup C ELSE data[f].good \ C]

(* A saveEntry of value e, whose failure is logged and ignored. *)
SaveEntry(e) == entry' = e \/ ("save" \in Faults /\ UNCHANGED entry)

(* The RWMutex of a's process: a reader or a writer waits for the writer. *)
MuFree(a) == \A b \in mu : Proc[b] # Proc[a]

Goto(a, label) == pc' = [pc EXCEPT ![a] = label]

-------------------------------------------------------------------------------
(* The directory at start, as earlier sessions of the program leave it. *)

(* Inodes b, p and t are under the names in which, p holds the given content. *)
Holds(b, p, t, which, content, e) ==
  /\ name = [n \in Names |-> IF n \notin which THEN NoInode
                             ELSE IF n = "blob" THEN b
                             ELSE IF n = "partial" THEN p ELSE t]
  /\ data = [f \in Inodes |-> IF f = p THEN content
                              ELSE IF f = b /\ "blob" \in which THEN FullFile ELSE EmptyFile]
  /\ entry = e

LeftBehind(kind, b, p, t, R) ==
  \/ /\ kind = "empty"      \* a new cache
     /\ Holds(b, p, t, {}, EmptyFile, NoEntry)
  \/ /\ kind = "partial"    \* a lazy session that read some ranges
     /\ Holds(b, p, t, {"partial"}, [span |-> Chunks, good |-> R], PartialEntry(R))
  \/ /\ kind = "complete"   \* a finished download
     /\ Holds(b, p, t, {"blob"}, EmptyFile, CompleteEntry)
  \/ /\ kind = "lost"       \* an eviction killed after it removed the blob
     /\ Holds(b, p, t, {}, EmptyFile, CompleteEntry)
  \/ /\ kind = "stale"      \* an eviction killed after it removed the partial file
     /\ Holds(b, p, t, {}, EmptyFile, PartialEntry(R))
  \/ /\ kind = "orphan"     \* a copy and a lazy open killed before they wrote an entry
     /\ Holds(b, p, t, {"partial", "tmp"}, EmptyFile, NoEntry)

DirInit ==
  /\ \E b, p, t \in Inodes, R \in SUBSET Chunks, kind \in Leftovers :
       b # p /\ p # t /\ b # t /\ LeftBehind(kind, b, p, t, R)
  /\ mu = {}
  /\ pc = [a \in Actors |-> "idle"]
  /\ fd = [a \in Actors |-> NoInode]
  /\ pos = [a \in Actors |-> 0]
  /\ sound = [a \in Actors |-> TRUE]

-------------------------------------------------------------------------------
(* The hit path shared by Open, OpenStream, OpenStreamThrough and OpenLazy. *)

(* getPaths takes the read lock, then the entry is read without any lock. *)
Begin(a) ==
  /\ pc[a] = "idle" /\ MuFree(a)
  /\ Goto(a, "load")
  /\ UNCHANGED <<dirVars, mu, fd, pos, sound>>

(* LoadCompleteEntry: a complete entry is a hit, anything else goes to label miss. *)
LoadCompleteEntry(a, miss) ==
  /\ pc[a] = "load"
  /\ Goto(a, IF entry.state = "complete" THEN "hit" ELSE miss)
  /\ UNCHANGED <<dirVars, mu, fd, pos, sound>>

(* openCachedBlob accepts the file: it exists, has the size, and hashes right when asked to. *)
BlobOpensBySize == Has("blob") /\ data[name["blob"]].span = Chunks   \* a bug: no hash

BlobOpens ==
  /\ Has("blob")
  /\ data[name["blob"]].span = Chunks
  /\ VerifyOnRead => Intact(name["blob"])

OpenHit(a) ==
  /\ pc[a] = "hit"
  /\ \/ /\ BlobOpens
        /\ fd' = [fd EXCEPT ![a] = name["blob"]]
        /\ Goto(a, "touch")
     \/ /\ ~BlobOpens
        /\ Goto(a, "heal")
        /\ UNCHANGED fd
  /\ UNCHANGED <<dirVars, mu, pos, sound>>

(* touchEntry writes back the entry that LoadCompleteEntry read, without the lock. *)
TouchEntry(a) ==
  /\ pc[a] = "touch"
  /\ SaveEntry(CompleteEntry)
  /\ Goto(a, "open")
  /\ UNCHANGED <<name, data, mu, fd, pos, sound>>

CloseFile(a) ==
  /\ pc[a] = "open"
  /\ fd' = [fd EXCEPT ![a] = NoInode]
  /\ Goto(a, "idle")
  /\ UNCHANGED <<dirVars, mu, pos, sound>>

(* An operation that ended in an error returns it: "failed" when the registry *)
(* or the disk refused something, "broken" when nothing did. *)
ReturnError(a) ==
  /\ pc[a] \in {"failed", "broken"}
  /\ Goto(a, "idle")
  /\ UNCHANGED <<dirVars, mu, fd, pos, sound>>

-------------------------------------------------------------------------------
(* evictLocked: blob, partial file, entry, in this order, under c.mu.  The *)
(* self-healing of a hit and Evict, Prune and cron jobs all run it. *)

EvictBlob(a, from) ==
  /\ pc[a] = from /\ MuFree(a)
  /\ mu' = mu \cup {a}
  /\ Unlink("blob")
  /\ Goto(a, "evictpartial")
  /\ UNCHANGED <<data, entry, fd, pos, sound>>

EvictPartial(a) ==
  /\ pc[a] = "evictpartial"
  /\ Unlink("partial")
  /\ Goto(a, "evictentry")
  /\ UNCHANGED <<data, entry, mu, fd, pos, sound>>

EvictEntry(a, next) ==
  /\ pc[a] = "evictentry"
  /\ entry' = NoEntry
  /\ mu' = mu \ {a}
  /\ Goto(a, next)
  /\ UNCHANGED <<name, data, fd, pos, sound>>

(* Clear removes the files of the blob directory in no particular order, then the entries. *)
ClearBegin(a) ==
  /\ pc[a] = "idle" /\ MuFree(a)
  /\ mu' = mu \cup {a}
  /\ Goto(a, "clear")
  /\ UNCHANGED <<dirVars, fd, pos, sound>>

ClearFile(a) ==
  /\ pc[a] = "clear"
  /\ \E n \in Names : Has(n) /\ Unlink(n)
  /\ UNCHANGED <<data, entry, actVars>>

ClearEntries(a) ==
  /\ pc[a] = "clear"
  /\ \A n \in Names : ~Has(n)
  /\ entry' = NoEntry
  /\ mu' = mu \ {a}
  /\ Goto(a, "idle")
  /\ UNCHANGED <<name, data, fd, pos, sound>>

Evictor(a) ==
  \/ EvictBlob(a, "idle") \/ EvictPartial(a) \/ EvictEntry(a, "idle")
  \/ ClearBegin(a) \/ ClearFile(a) \/ ClearEntries(a)

(* A bug: the entry of a lost blob stays. *)
HealKeepsEntry(a, next) ==
  \/ EvictBlob(a, "heal") \/ EvictPartial(a)
  \/ /\ pc[a] = "evictentry"
     /\ mu' = mu \ {a}
     /\ Goto(a, next)
     /\ UNCHANGED <<dirVars, fd, pos, sound>>

SelfHeal(a, next) == EvictBlob(a, "heal") \/ EvictPartial(a) \/ EvictEntry(a, next)

(* A process is killed: its descriptors and its lock are gone, its files stay. *)
CrashOf(p) ==
  LET Dead == {a \in Actors : Proc[a] = p}
  IN /\ CanCrash
     /\ \E a \in Dead : pc[a] # "idle"
     /\ mu' = mu \ Dead
     /\ pc' = [a \in Actors |-> IF a \in Dead THEN "idle" ELSE pc[a]]
     /\ fd' = [a \in Actors |-> IF a \in Dead THEN NoInode ELSE fd[a]]
     /\ pos' = [a \in Actors |-> IF a \in Dead THEN 0 ELSE pos[a]]
     /\ sound' = [a \in Actors |-> IF a \in Dead THEN TRUE ELSE sound[a]]
     /\ UNCHANGED dirVars

-------------------------------------------------------------------------------
(* The temporary file <digest>.tmp, written by fullDownload and by the *)
(* cachingReader: both open it by name, hash what the registry sends and *)
(* rename it once the hash of the stream is right. *)

OpenTmp(a) ==
  /\ OpenTruncated(a, "tmp")
  /\ Goto(a, "copy")
  /\ UNCHANGED <<entry, mu, pos, sound>>

(* One more chunk of the stream reaches the file at the writer's own offset. *)
CopyChunk(a) ==
  /\ pc[a] = "copy" /\ pos[a] < Size
  /\ \E right \in {TRUE} \cup {b \in {FALSE} : "bad" \in Faults} :
       /\ data' = [data EXCEPT ![fd[a]] = Written(fd[a], {pos[a] + 1}, right)]
       /\ sound' = [sound EXCEPT ![a] = sound[a] /\ right]
  /\ pos' = [pos EXCEPT ![a] = pos[a] + 1]
  /\ UNCHANGED <<name, entry, mu, pc, fd>>

(* The stream ends: the file is synced and closed before the hash is looked at. *)
CopyEnds(a) ==
  /\ pc[a] = "copy"
  /\ pos[a] < Size => "short" \in Faults
  /\ fd' = [fd EXCEPT ![a] = NoInode]
  /\ Goto(a, "check")
  /\ UNCHANGED <<dirVars, mu, pos, sound>>

StreamHasSize(a) == pos[a] = Size   \* a bug: the hash is not compared
StreamIsBlob(a) == pos[a] = Size /\ sound[a]

(* A download is given up: the stream is not the blob, or the disk refused a sync or rename. *)
GiveUp(a) == ~StreamIsBlob(a) \/ "short" \in Faults

(* The writer's offset and hash end with its call. *)
ForgetStream(a) ==
  /\ pos' = [pos EXCEPT ![a] = 0]
  /\ sound' = [sound EXCEPT ![a] = TRUE]
===============================================================================
