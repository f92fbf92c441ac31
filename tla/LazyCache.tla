------------------------------- MODULE LazyCache -------------------------------
(***************************************************************************)
(* Cache.OpenLazy and the lazyHandle it returns: ranges of the blob are    *)
(* fetched into <digest>.partial when they are read, the entry in memory   *)
(* says which are there, and the entry on disk is overwritten with it      *)
(* after every fetch and when the handle is closed.  h.mu serialises the   *)
(* calls on one handle, so an actor is a handle; c.mu is held by OpenLazy  *)
(* only.                                                                   *)
(***************************************************************************)
EXTENDS CacheDir

CONSTANT Lazies   \* goroutines that call OpenLazy

ASSUME LaziesAssumption == Lazies \subseteq Actors

VARIABLES mem,    \* mem[a]: lazyHandle.entry
          want,   \* want[a]: the chunks of the ReadAt under way
          refused, \* history: the rename or the open of the completed file failed, so a's
                  \* handle is left with the file it closed
          calm    \* history: so far every save succeeded, every byte was right and nobody
                  \* was killed or evicted anything

lazyLocals == <<mem, want, refused, calm>>

Intervals == {lo..hi : lo, hi \in Chunks}

LazyTypeOK ==
  /\ mem \in [Lazies -> Entry]
  /\ want \in [Lazies -> SUBSET Chunks]
  /\ refused \in [Lazies -> BOOLEAN]
  /\ calm \in BOOLEAN

LazyInit ==
  /\ mem = [a \in Lazies |-> NoEntry]
  /\ want = [a \in Lazies |-> {}]
  /\ refused = [a \in Lazies |-> FALSE]
  /\ calm = (entry.state = "partial" => Has("partial"))

(* saveEntry of what the handle has in memory. *)
SaveProgress(e) ==
  \/ entry' = e /\ UNCHANGED calm
  \/ "save" \in Faults /\ UNCHANGED entry /\ calm' = FALSE

-------------------------------------------------------------------------------
(* OpenLazy refuses a cache that verifies what it reads. *)
BeginLazy(a) == ~VerifyOnRead /\ Begin(a) /\ UNCHANGED lazyLocals

LazyHit(a) ==
  /\ \/ LoadCompleteEntry(a, "openlazy")
     \/ OpenHit(a)
     \/ TouchEntry(a)
     \/ SelfHeal(a, "openlazy")
     \/ CloseFile(a)
     \/ ReturnError(a)
  /\ UNCHANGED lazyLocals

(* openLazyHandle, the double check: a download finished meanwhile is opened, or refused. *)
OpenLazyComplete(a) ==
  /\ pc[a] = "openlazy" /\ MuFree(a) /\ entry.state = "complete"
  /\ \/ /\ BlobOpens
        /\ fd' = [fd EXCEPT ![a] = name["blob"]]
        /\ Goto(a, "open")
     \/ /\ ~BlobOpens
        /\ Goto(a, "broken")
        /\ UNCHANGED fd
  /\ UNCHANGED <<dirVars, mu, pos, sound, lazyLocals>>

(* The disk refuses to open or to stretch the partial file. *)
OpenLazyFails(a) ==
  /\ "short" \in Faults
  /\ \/ pc[a] = "openlazy" /\ MuFree(a) /\ entry.state # "complete"
     \/ pc[a] = "resize"
  /\ mu' = mu \ {a}
  /\ fd' = [fd EXCEPT ![a] = NoInode]
  /\ Goto(a, "failed")
  /\ UNCHANGED <<dirVars, pos, sound, lazyLocals>>

(* The ranges of an existing entry are kept, whatever file is there, or made now. *)
OpenLazyPartial(a) ==
  /\ pc[a] = "openlazy" /\ MuFree(a) /\ entry.state # "complete"
  /\ mu' = mu \cup {a}
  /\ refused' = [refused EXCEPT ![a] = FALSE]
  /\ mem' = [mem EXCEPT ![a] = PartialEntry(entry.ranges)]
  /\ \/ /\ Has("partial")
        /\ fd' = [fd EXCEPT ![a] = name["partial"]]
        /\ UNCHANGED <<name, data>>
     \/ /\ ~Has("partial")
        /\ OpenTruncated(a, "partial")
  /\ Goto(a, "resize")
  /\ UNCHANGED <<entry, pos, sound, want, calm>>

(* A bug: the stretched file is one chunk too long. *)
ResizePast(a) ==
  /\ pc[a] = "resize"
  /\ data' = [data EXCEPT ![fd[a]].span = Chunks \cup {Size + 1}]
  /\ Goto(a, "announce")
  /\ UNCHANGED <<name, entry, mu, fd, pos, sound, lazyLocals>>

(* A short file is stretched to the size of the blob, with a hole at its end; the *)
(* ranges stay.  (Only a longer file forgets them, and no writer goes past the size.) *)
Resize(a) ==
  /\ pc[a] = "resize"
  /\ data' = [data EXCEPT ![fd[a]].span = Chunks]
  /\ Goto(a, "announce")
  /\ UNCHANGED <<name, entry, mu, fd, pos, sound, lazyLocals>>

Announce(a) ==
  /\ pc[a] = "announce"
  /\ SaveProgress(mem[a])
  /\ mu' = mu \ {a}
  /\ Goto(a, "lazy")
  /\ UNCHANGED <<name, data, fd, pos, sound, mem, want, refused>>

-------------------------------------------------------------------------------
(* lazyHandle.ReadAt *)

(* What the handle serves without asking the registry. *)
Cached(a) == IF mem[a].state = "complete" THEN Chunks ELSE mem[a].ranges

ReadMissing(a) ==
  /\ pc[a] = "lazy"
  /\ \E chunks \in Intervals :
       /\ chunks # {} /\ ~(chunks \subseteq Cached(a))
       /\ want' = [want EXCEPT ![a] = chunks]
  /\ Goto(a, "lfetch")
  /\ UNCHANGED <<dirVars, mu, fd, pos, sound, mem, refused, calm>>

(* findGapsInRange, first element: the lowest run of wanted chunks that are missing. *)
NextGap(a) ==
  LET missing == want[a] \ mem[a].ranges
  IN {c \in missing : \E lo \in missing : /\ \A d \in missing : lo <= d
                                          /\ lo..c \subseteq missing}

FetchRange(a) ==
  /\ pc[a] = "lfetch" /\ NextGap(a) # {}
  /\ \E right \in {TRUE} \cup {b \in {FALSE} : "bad" \in Faults} :
       /\ data' = [data EXCEPT ![fd[a]] = Written(fd[a], NextGap(a), right)]
       /\ calm' = (calm /\ right)
  /\ mem' = [mem EXCEPT ![a].ranges = @ \cup NextGap(a)]
  /\ UNCHANGED <<name, entry, actVars, want, refused>>

(* A bug: a range is counted as there although its fetch was interrupted. *)
FetchRangeCounted(a) ==
  /\ pc[a] = "lfetch" /\ NextGap(a) # {} /\ "short" \in Faults
  /\ mem' = [mem EXCEPT ![a].ranges = @ \cup NextGap(a)]
  /\ SaveProgress(mem'[a])
  /\ Goto(a, "lazy")
  /\ UNCHANGED <<name, data, mu, fd, pos, sound, want, refused>>

(* saveProgress, then the read returns the error. *)
FetchRangeFails(a) ==
  /\ pc[a] = "lfetch" /\ NextGap(a) # {}
  /\ \/ /\ Faults \cap {"fetch", "norange"} # {}
        /\ UNCHANGED data
     \/ /\ "short" \in Faults
        /\ \E c \in NextGap(a) :
             data' = [data EXCEPT ![fd[a]] = Written(fd[a], {d \in NextGap(a) : d < c}, TRUE)]
  /\ SaveProgress(mem[a])
  /\ Goto(a, "lazy")
  /\ UNCHANGED <<name, mu, fd, pos, sound, mem, want, refused>>

(* Every wanted chunk is there, and the handle stays partial: chunks are missing elsewhere, *)
(* the hash is wrong, or the file could not be synced or read to be hashed. *)
ReadDone(a) ==
  /\ pc[a] = "lfetch" /\ NextGap(a) = {}
  /\ mem[a].ranges # Chunks \/ ~Intact(fd[a]) \/ "short" \in Faults
  /\ SaveProgress(mem[a])
  /\ Goto(a, "lazy")
  /\ UNCHANGED <<name, data, mu, fd, pos, sound, mem, want, refused>>

(* A bug: the entry is not marked complete before the rename. *)
VerifyKeepsRanges(a) ==
  /\ pc[a] = "lfetch" /\ NextGap(a) = {}
  /\ mem[a].ranges = Chunks /\ Intact(fd[a])
  /\ fd' = [fd EXCEPT ![a] = NoInode]
  /\ Goto(a, "lrename")
  /\ UNCHANGED <<dirVars, mu, pos, sound, lazyLocals>>

(* A bug: a file whose ranges are all there is not hashed. *)
CompleteUnverified(a) ==
  /\ pc[a] = "lfetch" /\ NextGap(a) = {} /\ mem[a].ranges = Chunks
  /\ mem' = [mem EXCEPT ![a] = CompleteEntry]
  /\ fd' = [fd EXCEPT ![a] = NoInode]
  /\ Goto(a, "lrename")
  /\ UNCHANGED <<dirVars, mu, pos, sound, want, refused, calm>>

(* verifyAndComplete: the hash of the open file is right, the entry in memory is *)
(* complete from here on, and the file is closed to be renamed. *)
VerifyLazy(a) ==
  /\ pc[a] = "lfetch" /\ NextGap(a) = {}
  /\ mem[a].ranges = Chunks /\ Intact(fd[a])
  /\ mem' = [mem EXCEPT ![a] = CompleteEntry]
  /\ fd' = [fd EXCEPT ![a] = NoInode]
  /\ Goto(a, "lrename")
  /\ UNCHANGED <<dirVars, mu, pos, sound, want, refused, calm>>

(* Whatever has the name .partial becomes the blob.  When nothing has it, or the disk *)
(* refuses, the handle stays without a file, and complete. *)
RenameLazy(a) ==
  /\ pc[a] = "lrename"
  /\ \/ /\ Has("partial")
        /\ Rename("partial", "blob")
        /\ Goto(a, "lreopen")
        /\ UNCHANGED refused
     \/ /\ ~Has("partial") \/ "short" \in Faults
        /\ refused' = [refused EXCEPT ![a] = TRUE]
        /\ Goto(a, "lsave")
        /\ UNCHANGED name
  /\ UNCHANGED <<data, entry, mu, fd, pos, sound, mem, want, calm>>

(* A blob that is gone, or that the disk does not open, leaves the handle the same way. *)
ReopenLazy(a) ==
  /\ pc[a] = "lreopen"
  /\ \/ /\ Has("blob")
        /\ fd' = [fd EXCEPT ![a] = name["blob"]]
        /\ UNCHANGED refused
     \/ /\ ~Has("blob") \/ "short" \in Faults
        /\ refused' = [refused EXCEPT ![a] = TRUE]
        /\ UNCHANGED fd
  /\ Goto(a, "lsave")
  /\ UNCHANGED <<dirVars, mu, pos, sound, mem, want, calm>>

SaveLazy(a) ==
  /\ pc[a] = "lsave"
  /\ SaveProgress(mem[a])
  /\ Goto(a, "lazy")
  /\ UNCHANGED <<name, data, mu, fd, pos, sound, mem, want, refused>>

(* Close saves the entry it has in memory over the one on disk. *)
CloseLazy(a) ==
  /\ pc[a] = "lazy"
  /\ SaveProgress(mem[a])
  /\ fd' = [fd EXCEPT ![a] = NoInode]
  /\ Goto(a, "idle")
  /\ UNCHANGED <<name, data, mu, pos, sound, mem, want, refused>>

-------------------------------------------------------------------------------
ReadAt(a) ==
  \/ ReadMissing(a) \/ FetchRange(a) \/ FetchRangeFails(a) \/ ReadDone(a)
  \/ VerifyLazy(a) \/ RenameLazy(a) \/ ReopenLazy(a) \/ SaveLazy(a)

LazyReader(a) ==
  \/ BeginLazy(a) \/ LazyHit(a)
  \/ OpenLazyComplete(a) \/ OpenLazyFails(a) \/ OpenLazyPartial(a) \/ Resize(a) \/ Announce(a)
  \/ ReadAt(a) \/ CloseLazy(a)
===============================================================================
