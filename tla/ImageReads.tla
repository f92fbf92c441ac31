------------------------------- MODULE ImageReads -------------------------------
(***************************************************************************)
(* One Image and the goroutines that use it: Open hands out readers of     *)
(* files, which outlive the image, and Close may come at any time.  Every  *)
(* read goes to the handle below, which is a lazyHandle, whose lock a      *)
(* ReadAt holds while it fetches, or a temporary file.  img.mu is taken    *)
(* before h.mu.  Walk keeps img.mu for reading while it calls back.  What  *)
(* a handle saves on disk is in LazyCache.                                 *)
(***************************************************************************)
EXTENDS RangeFetch

CONSTANTS Users,    \* goroutines
          Nobody

ASSUME NobodyAssumption == Nobody \notin Users

VARIABLES kind,      \* "lazy" or "temp"
          upc,       \* where each user is: see Labels
          reader,    \* reader[u]: Image.Open returned a reader to u
          imgMu,     \* who holds img.mu for writing
          mu,        \* who holds h.mu
          imgClosed, \* Image.closed
          closed,    \* the handle is closed, the temporary file closed and removed
          done       \* history: a Close has returned

fileVars == <<kind, closed>>
userVars == <<upc, reader, imgMu, mu, imgClosed, done>>
imageVars == <<fetchVars, fileVars, userVars>>

ImageInit ==
  /\ FetchInit
  /\ kind \in {"lazy", "temp"}
  /\ kind = "temp" => ranges = <<Interval(0, TotalSize)>>
  /\ upc = [u \in Users |-> "idle"]
  /\ reader = [u \in Users |-> FALSE]
  /\ imgMu = Nobody /\ mu = Nobody
  /\ imgClosed = FALSE /\ closed = FALSE
  /\ done = FALSE

Labels == {"idle", "read", "fetch",
           "walk", "inside", "walked",   \* Walk, in a call of fn on the image, after it
           "close", "closing"}           \* Close, waiting for img.mu, with it

UGoto(u, label) == upc' = [upc EXCEPT ![u] = label]

-------------------------------------------------------------------------------
(* img.mu, a sync.RWMutex: a Close that waits for it keeps new readers out. *)
Walking(v) == upc[v] \in {"walk", "inside", "walked"}
CanRLock == imgMu = Nobody /\ \A v \in Users : upc[v] # "close"
CanLock == imgMu = Nobody /\ \A v \in Users : ~Walking(v)

(* Image.Open and List: the read lock is kept for the call, which asks nobody. *)
OpenReader(u) ==
  /\ upc[u] = "idle" /\ ~reader[u] /\ CanRLock /\ ~imgClosed
  /\ reader' = [reader EXCEPT ![u] = TRUE]
  /\ UNCHANGED <<fetchVars, fileVars, upc, imgMu, mu, imgClosed, done>>

StartWalk(u) ==
  /\ upc[u] = "idle" /\ CanRLock /\ ~imgClosed
  /\ UGoto(u, "walk")
  /\ UNCHANGED <<fetchVars, fileVars, reader, imgMu, mu, imgClosed, done>>

(* fn calls Open, or List, which waits alike; here it does so once in a Walk. *)
CallInside(u) ==
  /\ upc[u] = "walk"
  /\ UGoto(u, "inside")
  /\ UNCHANGED <<fetchVars, fileVars, reader, imgMu, mu, imgClosed, done>>

AnswerInside(u) ==
  /\ upc[u] = "inside" /\ CanRLock
  /\ reader' = [reader EXCEPT ![u] = TRUE]
  /\ UGoto(u, "walked")
  /\ UNCHANGED <<fetchVars, fileVars, imgMu, mu, imgClosed, done>>

EndWalk(u) ==
  /\ upc[u] \in {"walk", "walked"}
  /\ UGoto(u, "idle")
  /\ UNCHANGED <<fetchVars, fileVars, reader, imgMu, mu, imgClosed, done>>

-------------------------------------------------------------------------------
BeginRead(u) ==
  /\ upc[u] = "idle" /\ reader[u]
  /\ UGoto(u, "read")
  /\ UNCHANGED <<fetchVars, fileVars, reader, imgMu, mu, imgClosed, done>>

(* What is there is served, and a closed handle or file returns an error. *)
ServeRead(u) ==
  /\ upc[u] = "read"
  /\ kind = "temp" \/ mu = Nobody
  /\ closed \/ Covered(ranges) # {}
  /\ UGoto(u, "idle")
  /\ UNCHANGED <<fetchVars, fileVars, reader, imgMu, mu, imgClosed, done>>

(* A bug: only the image looks whether it was closed. *)
FetchUnchecked(u) ==
  /\ upc[u] = "read" /\ kind = "lazy" /\ mu = Nobody
  /\ StartRead
  /\ mu' = u
  /\ UGoto(u, "fetch")
  /\ UNCHANGED <<fileVars, reader, imgMu, imgClosed, done>>

(* lazyHandle.ReadAt of bytes that are not all there. *)
LockAndFetch(u) ==
  /\ upc[u] = "read" /\ kind = "lazy" /\ mu = Nobody /\ ~closed
  /\ StartRead
  /\ mu' = u
  /\ UGoto(u, "fetch")
  /\ UNCHANGED <<fileVars, reader, imgMu, imgClosed, done>>

FetchNextGap(u) ==
  /\ upc[u] = "fetch" /\ FetchGap
  /\ UNCHANGED <<fileVars, userVars>>

(* A bug: a read that failed is made again, for as long as it fails. *)
RetryRead(u) ==
  /\ upc[u] = "fetch"
  /\ FinishRead \/ FailRead
  /\ mu' = Nobody
  /\ UGoto(u, IF err' THEN "read" ELSE "idle")
  /\ UNCHANGED <<kind, closed, reader, imgMu, imgClosed, done>>

(* Progress is saved and the lock released, whether the read succeeded or not. *)
EndRead(u) ==
  /\ upc[u] = "fetch"
  /\ FinishRead \/ FailRead
  /\ mu' = Nobody
  /\ UGoto(u, "idle")
  /\ UNCHANGED <<kind, closed, reader, imgMu, imgClosed, done>>

-------------------------------------------------------------------------------
BeginClose(u) ==
  /\ upc[u] = "idle"
  /\ UGoto(u, "close")
  /\ UNCHANGED <<fetchVars, fileVars, reader, imgMu, mu, imgClosed, done>>

(* Image.Close of an image that is closed, or is being closed: it waits for the lock. *)
CloseAgain(u) ==
  /\ upc[u] = "close" /\ CanLock /\ imgClosed
  /\ done' = TRUE
  /\ UGoto(u, "idle")
  /\ UNCHANGED <<fetchVars, fileVars, reader, imgMu, mu, imgClosed>>

LockImage(u) ==
  /\ upc[u] = "close" /\ CanLock /\ ~imgClosed
  /\ imgMu' = u /\ imgClosed' = TRUE
  /\ UGoto(u, "closing")
  /\ UNCHANGED <<fetchVars, fileVars, reader, mu, done>>

(* lazyHandle.Close waits for the read under way: its fetch is not cancelled before. *)
CloseHandle(u) ==
  /\ upc[u] = "closing"
  /\ kind = "lazy" => mu = Nobody
  /\ closed' = TRUE
  /\ imgMu' = Nobody
  /\ done' = TRUE
  /\ UGoto(u, "idle")
  /\ UNCHANGED <<fetchVars, kind, reader, mu, imgClosed>>

(* What waits for a mutex, and what only takes time. *)
Takes(u) ==
  \/ AnswerInside(u) \/ ServeRead(u) \/ LockAndFetch(u)
  \/ CloseAgain(u) \/ LockImage(u) \/ CloseHandle(u)
Works(u) == EndWalk(u) \/ FetchNextGap(u) \/ EndRead(u)

ImageNext ==
  \E u \in Users :
    \/ OpenReader(u) \/ StartWalk(u) \/ CallInside(u) \/ BeginRead(u) \/ BeginClose(u)
    \/ Takes(u) \/ Works(u)

ImageSpec == ImageInit /\ [][ImageNext]_imageVars

(* A fetch ends, with an answer or an error, so does fn, and a mutex starves nobody. *)
ImageFairness == \A u \in Users : WF_imageVars(Works(u)) /\ SF_imageVars(Takes(u))
-------------------------------------------------------------------------------
(* image.go:131-132: when a Close has returned, to whoever called it first or again, *)
(* the handle is closed and nobody fetches into its file any more.                    *)
ClosedIsFinal ==
  done => imgClosed /\ closed /\ \A u \in Users : upc[u] # "fetch"

(* What makes it inductive: a fetch holds h.mu and its handle is open; the Close that *)
(* holds img.mu is between LockImage and CloseHandle, and only then may an image that  *)
(* is closed have a handle that is not.                                                *)
ClosedInv ==
  /\ upc \in [Users -> Labels]
  /\ \A u \in Users : upc[u] = "fetch" => mu = u /\ kind = "lazy" /\ ~closed
  /\ \A u \in Users : upc[u] = "closing" => imgMu = u /\ imgClosed
  /\ imgClosed /\ imgMu = Nobody => closed
  /\ done \/ closed => imgClosed /\ closed
===============================================================================
