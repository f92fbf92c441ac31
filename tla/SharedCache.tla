------------------------------ MODULE SharedCache ------------------------------
(***************************************************************************)
(* One cache directory with everybody who uses it: Open, OpenStream and    *)
(* Prefetch, OpenStreamThrough, OpenLazy handles, Evict and Clear, in any  *)
(* number of goroutines and processes.                                     *)
(***************************************************************************)
EXTENDS EagerCache, StreamThrough, LazyCache

ASSUME SharedRolesAssumption ==
  /\ Openers \cap (Streamers \cup Lazies) = {} /\ Streamers \cap Lazies = {}
  /\ Evictors \cap (Streamers \cup Lazies) = {}

sharedVars == <<dirVars, actVars, eagerLocals, lazyLocals>>

SharedTypeOK == EagerTypeOK /\ LazyTypeOK

SharedInit == EagerInit /\ LazyInit

SharedNext ==
  \/ (\E a \in Openers : EagerOpener(a)) /\ UNCHANGED lazyLocals
  \/ (\E a \in Streamers : Streamer(a)) /\ UNCHANGED <<eagerLocals, lazyLocals>>
  \/ (\E a \in Lazies : LazyReader(a)) /\ UNCHANGED eagerLocals
  \/ (\E a \in Evictors : Evictor(a)) /\ calm' = FALSE /\ UNCHANGED <<eagerLocals, mem, want, refused>>
  \/ (\E a \in Actors : CrashOf(Proc[a])) /\ calm' = FALSE /\ UNCHANGED <<eagerLocals, mem, want, refused>>

SharedSpec == SharedInit /\ [][SharedNext]_sharedVars

-------------------------------------------------------------------------------
AllIdle == \A a \in Actors : pc[a] = "idle"

(* The bytes behind a handle returned by Open, a hit of OpenStreamThrough or of *)
(* OpenLazy are the blob as long as the handle is open. *)
CheckedHandleIntact ==
  \A a \in Actors : pc[a] = "open" /\ (a \in Openers => op[a] = "open")
                    => fd[a] # NoInode /\ Intact(fd[a])

(* What a lazy handle would serve without asking the registry is in its file: the *)
(* zeros of a hole are never served as content (ReadAt, containsRange), unless a kill, *)
(* an eviction, a failed save or wrong bytes came before. *)
LazyRangesReal ==
  calm => \A a \in Lazies : pc[a] \in {"lazy", "lfetch"} /\ fd[a] # NoInode
                    => Cached(a) \subseteq data[fd[a]].good

(* Between two such sessions the ranges of the entry are backed by the partial file, *)
(* so the next session may trust them (saveProgress, Close). *)
EntryRangesReal ==
  calm /\ AllIdle /\ entry.state = "partial" /\ entry.ranges # {} =>
    Has("partial") /\ entry.ranges \subseteq data[name["partial"]].good

(* A lazy handle has a file to read until it is closed, and once it says it is complete *)
(* that file is the installed blob, unless the rename or the open of the completed file *)
(* failed.  Then verifyAndComplete leaves it complete and without a file, and its entry  *)
(* is saved so; but that ends with the handle: the next OpenLazy heals the entry and is  *)
(* refused nothing.                                                                      *)
LazyHandleUsable ==
  /\ \A a \in Lazies : pc[a] \in {"lazy", "lfetch"} => fd[a] # NoInode \/ refused[a]
  /\ calm => \A a \in Lazies :
       /\ pc[a] # "broken"
       /\ pc[a] = "lazy" /\ mem[a].state = "complete" /\ ~refused[a] => fd[a] = name["blob"]

-------------------------------------------------------------------------------
(* Why a cache that verifies what it opens hands out the blob only, however many calls *)
(* share the directory and as long as the registry sends the right bytes: whoever has  *)
(* the file open can only write right bytes to it, and it gets no name again that is   *)
(* truncated.                                                                          *)
Checked(a) ==
  \/ pc[a] = "touch"
  \/ pc[a] = "open" /\ (a \in Openers => op[a] = "open")

CheckedIntact ==
  \A a \in Openers \cup Streamers : Checked(a) =>
    /\ fd[a] \in Inodes /\ Intact(fd[a])
    /\ fd[a] # name["partial"] /\ fd[a] # name["tmp"]

NoOtherHandle ==
  /\ \A a \in Lazies : pc[a] = "idle"
  /\ \A a \in Actors \ (Openers \cup Streamers) : pc[a] # "open"

-------------------------------------------------------------------------------
(* Why one lazy handle at a time leaves a sound directory, whatever is evicted meanwhile, *)
(* fails or is killed: it writes to the partial file or to one without a name, and what   *)
(* it renames is what it hashed.                                                          *)
OneLazyHandle == Openers = {} /\ Streamers = {} /\ \A a, b \in Lazies : a = b

(* The handle fetches ranges, or is about to. *)
Filling(a) ==
  \/ pc[a] \in {"resize", "announce", "lfetch"}
  \/ pc[a] = "lazy" /\ mem[a].state = "partial"

Finishing == {"lrename", "lreopen", "lsave"}

LazyFilesSafe ==
  /\ NamesDistinct /\ InstalledBlobIntact
  /\ entry.state # "partial" => entry.ranges = {}
  /\ \A a \in Lazies :
       /\ Filling(a) => /\ mem[a].state = "partial" /\ fd[a] \in Inodes
                        /\ Has("partial") => name["partial"] = fd[a]
                        /\ fd[a] # name["blob"] /\ fd[a] # name["tmp"]
       /\ pc[a] \in Finishing \/ (pc[a] = "lazy" /\ ~Filling(a)) => mem[a] = CompleteEntry
       /\ pc[a] = "lrename" /\ Has("partial") => Intact(name["partial"])
       /\ pc[a] = "lsave" \/ (pc[a] = "lazy" /\ ~Filling(a)) => fd[a] # NoInode \/ refused[a]
       /\ pc[a] \in {"lrename", "lreopen"} => fd[a] = NoInode

(* Why the ranges are real as long as nothing of that happens: the entry and the handle *)
(* speak of the same partial file, until it is the blob.                                *)
Healing == {"hit", "touch", "heal", "evictpartial", "evictentry"}

RangesTold ==
  /\ \A e \in Evictors : pc[e] = "idle"
  /\ \/ entry.state = "partial" => Has("partial") /\ entry.ranges \subseteq data[name["partial"]].good
     \/ \E a \in Lazies : pc[a] \in {"lreopen", "lsave"}
  /\ \A a \in Lazies :
       /\ pc[a] \in Healing => entry.state = "complete"
       /\ pc[a] = "openlazy" => entry.state # "complete"
       /\ pc[a] # "broken"
       /\ Filling(a) => fd[a] = name["partial"] /\ mem[a].ranges \subseteq data[fd[a]].good
       /\ pc[a] = "lrename" => Has("partial")
       /\ pc[a] = "lreopen" => Has("blob")
       /\ pc[a] = "lsave" \/ (pc[a] = "lazy" /\ ~Filling(a)) =>
            \/ fd[a] = NoInode /\ refused[a]
            \/ Has("blob") /\ fd[a] = name["blob"]
       /\ pc[a] = "lazy" /\ ~Filling(a) => entry.state = "complete"

LazyInv == SharedTypeOK /\ LazyFilesSafe /\ (calm => RangesTold)
===============================================================================
