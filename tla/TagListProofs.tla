----------------------------- MODULE TagListProofs -----------------------------
(***************************************************************************)
(* Proofs about TagLists for every number of processes, lists, times and   *)
(* TTLs.                                                                   *)
(***************************************************************************)
EXTENDS TagLists, TLAPS

LEMMA TagStart == TagInit => TagInv
<1> SUFFICES ASSUME TagInit PROVE TagInv
  OBVIOUS
<1>1. 0 \in Moments
  BY ListTTLAssumption DEF Moments
<1>2. file = [n \in {"saved", "temp"} |-> <<>>]
  BY DEF TagInit, NoFile
<1>3. \A n \in {"saved", "temp"} : DOMAIN file[n] = {}
  BY <1>2
<1>4. had \in [Lists -> -1..0] /\ current \in Lists /\ had[current] = 0 /\ now = 0
  BY DEF TagInit
<1>5. list \in [Listers -> Document]
  BY <1>1, ListsAssumption DEF TagInit, Document
<1>6. QED
  BY <1>1, <1>2, <1>3, <1>4, <1>5 DEF TagInit, TagInv

(* The registry having had a list is not undone. *)
LEMMA HadStays ==
  ASSUME TagInv, now' \in Moments, now <= now',
         \A l \in Lists : had'[l] = had[l] \/ had'[l] = now',
         NEW d, Had(d)
  PROVE  Had(d)'
<1>1. had[d.tags] \in -1..now /\ now \in Int /\ now' \in Int
  BY ListTTLAssumption DEF TagInv, Had, Moments
<1>2. QED
  BY <1>1 DEF Had, Moments

(* A step of the registry or of the clock. *)
LEMMA WorldStep ==
  ASSUME TagInv, ChangeTags \/ PassTime PROVE TagInv'
<1>1. now \in Nat /\ MaxNow \in Nat /\ now <= MaxNow
  BY ListTTLAssumption DEF TagInv, Moments
<1>2. CASE ChangeTags
  <2>1. PICK l \in Lists \ {current} : current' = l /\ had' = [had EXCEPT ![l] = now]
    BY <1>2 DEF ChangeTags
  <2>2. UNCHANGED <<file, lpc, open, list, now>>
    BY <1>2 DEF ChangeTags
  <2>3. /\ current' \in Lists /\ had' \in [Lists -> -1..now'] /\ had'[current'] = now'
        /\ \A m \in Lists : had'[m] = had[m] \/ had'[m] = now'
    BY <1>1, <2>1, <2>2 DEF TagInv
  <2>4. \A d : Had(d) => Had(d)'
    BY <1>1, <2>2, <2>3, HadStays DEF TagInv
  <2>5. QED
    BY <2>2, <2>3, <2>4 DEF TagInv, NoPiece, Moments
<1>3. CASE PassTime
  <2>1. /\ now' = now + 1 /\ now < MaxNow /\ had' = [had EXCEPT ![current] = now + 1]
        /\ UNCHANGED <<file, lpc, open, list, current>>
    BY <1>3 DEF PassTime
  <2>2. now' \in Moments /\ now <= now'
    BY <1>1, <2>1 DEF Moments
  <2>3. /\ current' \in Lists /\ had' \in [Lists -> -1..now'] /\ had'[current'] = now'
        /\ \A m \in Lists : had'[m] = had[m] \/ had'[m] = now'
    BY <1>1, <2>1 DEF TagInv
  <2>4. \A d : Had(d) => Had(d)'
    BY <2>2, <2>3, HadStays
  <2>5. QED
    BY <2>1, <2>2, <2>3, <2>4 DEF TagInv, NoPiece, Document, Moments
<1>4. QED
  BY <1>2, <1>3

(* A text whose pieces are from texts that say what the registry had says so too. *)
LEMMA EmptyText == DOMAIN Empty = 1..MaxPieces /\ \A i \in DOMAIN Empty : Empty[i] = NoPiece
BY DEF Empty

(* A call asks the registry, or is about to. *)
LEMMA AskStep ==
  ASSUME TagInv, NEW a \in Listers, MissTags(a) \/ FetchTags(a) PROVE TagInv'
<1>1. UNCHANGED <<file, open, current, had, now>>
  BY DEF MissTags, FetchTags, World
<1>2. \A d : Had(d)' <=> Had(d)
  BY <1>1 DEF Had, Moments
<1>3. /\ lpc' \in [Listers -> {"idle", "fetch", "create", "write", "rename", "remove"}]
      /\ list' \in [Listers -> Document]
      /\ \A b \in Listers : lpc'[b] \in {"create", "write"} => Had(list'[b])
  <2>1. CASE MissTags(a)
    <3>1. UNCHANGED list /\ lpc' = [lpc EXCEPT ![a] = "fetch"]
      BY <2>1 DEF MissTags, LGoto
    <3>2. QED
      BY <3>1 DEF TagInv
  <2>2. CASE lpc' = [lpc EXCEPT ![a] = "idle"] /\ UNCHANGED list
    BY <2>2 DEF TagInv
  <2>3. CASE /\ lpc' = [lpc EXCEPT ![a] = "create"]
             /\ list' = [list EXCEPT ![a] = [tags |-> current, validated |-> now]]
    <3>1. Had([tags |-> current, validated |-> now]) /\ [tags |-> current, validated |-> now] \in Document
      BY DEF Had, TagInv, Moments, Document
    <3>2. QED
      BY <2>3, <3>1 DEF TagInv
  <2>4. ASSUME FetchTags(a)
        PROVE  \/ lpc' = [lpc EXCEPT ![a] = "idle"] /\ UNCHANGED list
               \/ /\ lpc' = [lpc EXCEPT ![a] = "create"]
                  /\ list' = [list EXCEPT ![a] = [tags |-> current, validated |-> now]]
    BY <2>4 DEF FetchTags, LGoto
  <2>5. QED
    BY <2>1, <2>2, <2>3, <2>4
<1>4. QED
  BY <1>1, <1>2, <1>3 DEF TagInv, Moments, NoPiece, Document

(* A save creates, renames or removes the temporary file, or the process is killed. *)
LEMMA NameStep ==
  ASSUME TagInv, NEW a \in Listers,
         CreateTemp(a) \/ RenameTemp(a) \/ RemoveTemp(a) \/ KillLister(a)
  PROVE  TagInv'
<1>1. UNCHANGED <<list, current, had, now>>
  BY DEF CreateTemp, RenameTemp, RemoveTemp, KillLister, World
<1>2. \A d : Had(d)' <=> Had(d)
  BY <1>1 DEF Had, Moments
<1>3. \A b \in Listers : lpc'[b] \in {"create", "write"} => lpc[b] \in {"create", "write"}
  BY DEF CreateTemp, RenameTemp, RemoveTemp, KillLister, LGoto, TagInv
<1>4. lpc' \in [Listers -> {"idle", "fetch", "create", "write", "rename", "remove"}]
  BY DEF CreateTemp, RenameTemp, RemoveTemp, KillLister, LGoto, TagInv
<1>5. /\ open' \in [Listers -> {"temp", "saved", "gone"}]
      /\ DOMAIN file' = {"saved", "temp"}
      /\ \A n \in {"saved", "temp"} : \A i \in DOMAIN file'[n] :
           file'[n][i] = NoPiece \/ Had(file'[n][i])
      /\ \A b \in Listers : open'[b] # "gone" => DOMAIN file'[open'[b]] = 1..MaxPieces
  <2>1. CASE CreateTemp(a)
    BY <2>1, EmptyText DEF CreateTemp, TagInv
  <2>2. CASE RenameTemp(a) /\ UNCHANGED <<file, open>>
    BY <2>2 DEF TagInv
  <2>3. CASE /\ file' = [n \in {"saved", "temp"} |-> IF n = "saved" THEN file["temp"] ELSE NoFile]
             /\ open' = [b \in Listers |-> IF open[b] = "temp" THEN "saved" ELSE "gone"]
    <3>1. DOMAIN NoFile = {}
      BY DEF NoFile
    <3>2. file'["saved"] = file["temp"] /\ file'["temp"] = NoFile
      BY <2>3
    <3>3. QED
      BY <2>3, <3>1, <3>2 DEF TagInv
  <2>4. CASE RemoveTemp(a)
    <3>1. DOMAIN NoFile = {}
      BY DEF NoFile
    <3>2. QED
      BY <2>4, <3>1 DEF RemoveTemp, TagInv
  <2>5. CASE KillLister(a)
    BY <2>5 DEF KillLister, TagInv
  <2>6. QED
    BY <2>1, <2>2, <2>3, <2>4, <2>5 DEF RenameTemp
<1>6. QED
  BY <1>1, <1>2, <1>3, <1>4, <1>5 DEF TagInv, Moments, NoPiece, Document

(* A write puts pieces of a list that the registry had in front of what is there. *)
LEMMA WriteStep ==
  ASSUME TagInv, NEW a \in Listers, WriteTemp(a) PROVE TagInv'
<1>1. UNCHANGED <<list, current, had, now>> /\ open' = [open EXCEPT ![a] = "gone"]
  BY DEF WriteTemp, World
<1>2. \A d : Had(d)' <=> Had(d)
  BY <1>1 DEF Had, Moments
<1>3. Had(list[a]) /\ lpc[a] = "write"
  BY DEF WriteTemp, TagInv
<1>4. /\ lpc' \in [Listers -> {"idle", "fetch", "create", "write", "rename", "remove"}]
      /\ \A b \in Listers : lpc'[b] \in {"create", "write"} => lpc[b] \in {"create", "write"}
  BY DEF WriteTemp, LGoto, TagInv
<1>5. /\ DOMAIN file' = {"saved", "temp"}
      /\ \A n \in {"saved", "temp"} : \A i \in DOMAIN file'[n] :
           file'[n][i] = NoPiece \/ Had(file'[n][i])
      /\ \A n \in {"saved", "temp"} : DOMAIN file[n] = 1..MaxPieces => DOMAIN file'[n] = 1..MaxPieces
  <2>1. CASE UNCHANGED file
    BY <2>1 DEF TagInv
  <2>2. ASSUME NEW k, open[a] # "gone",
               file' = [file EXCEPT ![open[a]] =
                          [i \in 1..MaxPieces |-> IF i <= k THEN list[a] ELSE file[open[a]][i]]]
        PROVE  <1>5
    <3>1. open[a] \in {"saved", "temp"} /\ DOMAIN file[open[a]] = 1..MaxPieces
      BY <2>2 DEF TagInv
    <3>2. QED
      BY <1>3, <2>2, <3>1 DEF TagInv
  <2>3. CASE open[a] = "gone"
    BY <2>1, <2>3 DEF WriteTemp
  <2>4. CASE open[a] # "gone"
    <3>1. PICK k : \/ UNCHANGED file
                   \/ file' = [file EXCEPT ![open[a]] =
                                 [i \in 1..MaxPieces |-> IF i <= k THEN list[a] ELSE file[open[a]][i]]]
      <4> DEFINE New(k) == [i \in 1..MaxPieces |-> IF i <= k THEN list[a] ELSE file[open[a]][i]]
      <4>1. \/ UNCHANGED file
            \/ file' = [file EXCEPT ![open[a]] = New(list[a].tags)]
            \/ file' = [file EXCEPT ![open[a]] = New(1)]
            \/ file' = [file EXCEPT ![open[a]] = New(0)]
        BY <2>4 DEF WriteTemp
      <4>2. QED
        BY <4>1
    <3>2. CASE UNCHANGED file
      BY <2>1, <3>2
    <3>3. CASE file' = [file EXCEPT ![open[a]] =
                          [i \in 1..MaxPieces |-> IF i <= k THEN list[a] ELSE file[open[a]][i]]]
      BY <2>2, <2>4, <3>3
    <3>4. QED
      BY <3>1, <3>2, <3>3
  <2>5. QED
    BY <2>3, <2>4
<1>6. QED
  BY <1>1, <1>2, <1>4, <1>5 DEF TagInv, Moments, NoPiece, Document

(* What TagLists keeps: whatever the processes write over each other, every piece of a *)
(* file is of a list that the registry had, no earlier than it was stamped. *)
THEOREM TagInvariant == TagSpec => []TagInv
<1>1. TagInv /\ [TagNext]_tagVars => TagInv'
  <2> SUFFICES ASSUME TagInv, [TagNext]_tagVars PROVE TagInv'
    OBVIOUS
  <2>1. CASE UNCHANGED tagVars
    BY <2>1 DEF tagVars, TagInv, Had, Moments, NoPiece, Document
  <2>2. CASE ChangeTags \/ PassTime
    BY <2>2, WorldStep
  <2>3. ASSUME NEW a \in Listers, Lister(a) PROVE TagInv'
    BY <2>3, AskStep, NameStep, WriteStep DEF Lister
  <2>4. QED
    BY <2>1, <2>2, <2>3 DEF TagNext
<1>2. QED
  BY <1>1, TagStart, PTL DEF TagSpec

(* ListTags serves from its file only a list that the registry had within the TTL *)
(* (tagindex.go:98-99), for any processes, lists and TTL. *)
THEOREM AlwaysFresh == TagSpec => []TagsFresh
<1>1. TagInv => TagsFresh
  <2> SUFFICES ASSUME TagInv, NEW d \in Hits PROVE had[d.tags] + ListTTL >= now
    BY DEF TagsFresh
  <2>1. PICK i \in DOMAIN file["saved"] : d = file["saved"][i] /\ d # NoPiece
    BY DEF Hits, Documents
  <2>2. Had(d) /\ now - d.validated <= ListTTL
    BY <2>1 DEF TagInv, Hits, Valid
  <2>3. had[d.tags] \in Int /\ now \in Int /\ d.validated \in Int /\ ListTTL \in Int
    BY <2>2, ListTTLAssumption DEF Had, TagInv, Moments
  <2>4. QED
    BY <2>2, <2>3 DEF Had
<1>2. QED
  BY <1>1, TagInvariant, PTL
===============================================================================
