------------------------------ MODULE RangeFetch ------------------------------
(***************************************************************************)
(* The loop of fetchMissingRanges and resumeDownload over real ranges: the *)
(* gaps are computed once, fetched one by one, and each is added to the    *)
(* ranges, which are those of an entry file and need not be tidy.          *)
(* CacheDir keeps only the set of chunks that are present; the runs of     *)
(* this module show that the slices of ranges behave as such a set.        *)
(***************************************************************************)
EXTENDS Ranges

CONSTANTS TotalSize,  \* bytes of the blob
          MaxRanges   \* bound: ranges of an entry file when it is read

ASSUME TotalSizeAssumption == TotalSize \in Nat \ {0}
ASSUME MaxRangesAssumption == MaxRanges \in Nat

VARIABLES ranges,  \* Entry.Ranges
          window,  \* the ReadAt under way: a set of at most one range
          gaps,    \* gaps still to be fetched
          err      \* whether the last ReadAt returned an error

fetchVars == <<ranges, window, gaps, err>>

Windows == {r \in [Offset : 0..(TotalSize - 1), Length : 1..TotalSize] : End(r) <= TotalSize}

FetchInit ==
  /\ ranges \in UNION {[1..n -> Windows] : n \in 0..MaxRanges}
  /\ window = {}
  /\ gaps = <<>>
  /\ err = FALSE

(* ReadAt past the hit test: the ranges do not contain the window. *)
StartRead ==
  /\ window = {}
  /\ \E r \in Windows :
       /\ ~containsRange(ranges, r.Offset, r.Length)
       /\ window' = {r}
       /\ gaps' = findGapsInRange(ranges, r.Offset, r.Length)
  /\ UNCHANGED <<ranges, err>>

FetchGap ==
  /\ window # {} /\ gaps # <<>>
  /\ ranges' = addRange(ranges, Head(gaps))
  /\ gaps' = Tail(gaps)
  /\ UNCHANGED <<window, err>>

(* A bug: a gap is recorded although its bytes did not come. *)
FailReadCounted ==
  /\ window # {} /\ gaps # <<>>
  /\ ranges' = addRange(ranges, Head(gaps))
  /\ window' = {} /\ gaps' = <<>> /\ err' = TRUE

FailRead ==
  /\ window # {} /\ gaps # <<>>
  /\ window' = {} /\ gaps' = <<>> /\ err' = TRUE
  /\ UNCHANGED ranges

FinishRead ==
  /\ window # {} /\ gaps = <<>>
  /\ window' = {} /\ err' = FALSE
  /\ UNCHANGED <<ranges, gaps>>

FetchNext == StartRead \/ FetchGap \/ FailRead \/ FinishRead

FetchSpec == FetchInit /\ [][FetchNext]_fetchVars

-------------------------------------------------------------------------------
AllBytes == 0..(TotalSize - 1)

(* Entry.Ranges once a range was added: sorted, disjoint and not even adjacent *)
(* (entry.go:38, mergeRanges). *)
MergedForm ==
  [][ranges' # ranges => Apart(ranges')]_fetchVars

(* A gap list is the complement of the ranges: every missing byte is in exactly one *)
(* gap, no gap has a byte that is there, and gaps come in order (findGaps). *)
GapsAreMissingBytes ==
  LET all == findGaps(ranges, TotalSize)
  IN /\ Covered(all) = AllBytes \ Covered(ranges)
     /\ \A i \in DOMAIN all : all[i].Length > 0
     /\ Apart(all)

(* The same inside a window that starts and ends anywhere (findGapsInRange), for what *)
(* a read finds when it starts. *)
WindowGapsAreMissingBytes ==
  window = {} => \A w \in Windows :
    LET some == findGapsInRange(ranges, w.Offset, w.Length)
    IN /\ Covered(some) = Bytes(w) \ Covered(ranges)
       /\ Apart(some)

(* A read is served from disk exactly when all its bytes are there (containsRange), *)
(* and a blob is hashed exactly when no byte is missing (isComplete). *)
TestsMatchBytes ==
  window = {} =>
  /\ \A w \in Windows : containsRange(ranges, w.Offset, w.Length) <=> Bytes(w) \subseteq Covered(ranges)
  /\ isComplete(ranges, TotalSize) <=> Covered(ranges) = AllBytes

(* What makes them inductive: the gaps of a read are apart from each other, lie in its *)
(* window and are what is missing there.                                               *)
FetchInv ==
  /\ ranges \in Seq(Windows) /\ gaps \in Seq(Windows) /\ err \in BOOLEAN
  /\ window \subseteq Windows /\ \A r, s \in window : r = s
  /\ window = {} => gaps = <<>>
  /\ Apart(gaps)
  /\ \A r \in window : Covered(gaps) = Bytes(r) \ Covered(ranges)

Abstract == INSTANCE ByteSet
  WITH AllBytes <- AllBytes,
       present <- Covered(ranges),
       reading <- UNION {Bytes(r) : r \in window},
       failed <- err

(* The slices behave as the set of bytes they cover: it grows by missing bytes of the *)
(* read only, and a read that ends without an error has all its bytes. *)
ImplementsByteSet == Abstract!Spec
===============================================================================
