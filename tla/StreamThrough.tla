----------------------------- MODULE StreamThrough -----------------------------
(***************************************************************************)
(* Cache.OpenStreamThrough and its cachingReader, which Pull uses: a miss  *)
(* is streamed to the consumer and copied to <digest>.tmp on the way.      *)
(* Nothing after the hit path takes c.mu.                                  *)
(***************************************************************************)
EXTENDS CacheDir

CONSTANT Streamers   \* goroutines that call OpenStreamThrough

ASSUME StreamersAssumption == Streamers \subseteq Actors

StreamHit(a) ==
  \/ LoadCompleteEntry(a, "sweep")
  \/ OpenHit(a)
  \/ TouchEntry(a)
  \/ SelfHeal(a, "sweep")
  \/ CloseFile(a)
  \/ ReturnError(a)

(* A partial file left by lazy reads goes first, then the entry with its ranges. *)
SweepPartial(a) ==
  /\ pc[a] = "sweep"
  /\ Unlink("partial")
  /\ Goto(a, IF Has("partial") THEN "sweepentry" ELSE "fetch")
  /\ UNCHANGED <<data, entry, mu, fd, pos, sound>>

SweepEntry(a) ==
  /\ pc[a] = "sweepentry"
  /\ entry' = NoEntry
  /\ Goto(a, "fetch")
  /\ UNCHANGED <<name, data, mu, fd, pos, sound>>

StreamFetch(a) ==
  /\ pc[a] = "fetch"
  /\ OpenTmp(a)

StreamRefused(a) ==
  /\ pc[a] = "fetch" /\ "fetch" \in Faults
  /\ Goto(a, "failed")
  /\ UNCHANGED <<dirVars, mu, fd, pos, sound>>

(* Close after the consumer, or drainToCache, reached the end: a stream that is *)
(* not the blob removes whatever has the name .tmp; the caller is not told. *)
StreamDiscard(a) ==
  /\ pc[a] = "check" /\ GiveUp(a)
  /\ Unlink("tmp")
  /\ ForgetStream(a)
  /\ Goto(a, "idle")
  /\ UNCHANGED <<data, entry, mu, fd>>

StreamInstall(a) ==
  /\ pc[a] = "check" /\ StreamIsBlob(a)
  /\ ForgetStream(a)
  /\ \/ /\ Has("tmp")
        /\ Rename("tmp", "blob")
        /\ Goto(a, "save")
     \/ /\ ~Has("tmp")
        /\ Goto(a, "idle")
        /\ UNCHANGED name
  /\ UNCHANGED <<data, entry, mu, fd>>

StreamSave(a) ==
  /\ pc[a] = "save"
  /\ SaveEntry(CompleteEntry)
  /\ Goto(a, "idle")
  /\ UNCHANGED <<name, data, mu, fd, pos, sound>>

Streamer(a) ==
  \/ Begin(a) \/ StreamHit(a)
  \/ SweepPartial(a) \/ SweepEntry(a)
  \/ StreamFetch(a) \/ StreamRefused(a)
  \/ CopyChunk(a) \/ CopyEnds(a)
  \/ StreamDiscard(a) \/ StreamInstall(a) \/ StreamSave(a)
===============================================================================
