----------------------------- MODULE SharedProofs -----------------------------
(***************************************************************************)
(* Proofs about SharedCache: the types for everybody who may use the       *)
(* directory, the handles of a cache that verifies what it opens, and one  *)
(* lazy handle at a time.                                                  *)
(***************************************************************************)
EXTENDS SharedCache, EagerProofs

(* Types: the steps that every call may take. *)
LEMMA PathType ==
  ASSUME DirTypeOK, NEW a \in Actors, NEW l \in Labels,
         \/ Begin(a) \/ LoadCompleteEntry(a, l) \/ OpenHit(a) \/ TouchEntry(a)
         \/ SelfHeal(a, l) \/ CloseFile(a) \/ ReturnError(a)
  PROVE  DirTypeOK'
<1> USE DEF DirTypeOK, Goto, Labels, dirVars
<1>1. CASE Begin(a) \/ LoadCompleteEntry(a, l) \/ CloseFile(a) \/ ReturnError(a)
  BY <1>1 DEF Begin, LoadCompleteEntry, CloseFile, ReturnError
<1>2. CASE OpenHit(a)
  BY <1>2 DEF OpenHit, BlobOpens, Has, Names
<1>3. CASE TouchEntry(a)
  BY <1>3 DEF TouchEntry, SaveEntry, CompleteEntry, Entry
<1>4. CASE SelfHeal(a, l)
  BY <1>4 DEF SelfHeal, EvictBlob, EvictPartial, EvictEntry, Unlink, Names, NoEntry, Entry
<1>5. QED
  BY <1>1, <1>2, <1>3, <1>4

(* Types: a file that is made or truncated under a name. *)
LEMMA TruncateType ==
  ASSUME DirTypeOK, NEW a \in Actors, NEW n \in Names, OpenTruncated(a, n)
  PROVE  /\ name' \in [Names -> Inodes \cup {NoInode}]
         /\ data' \in [Inodes -> File]
         /\ fd' \in [Actors -> Inodes \cup {NoInode}]
<1>1. PICK f \in IF Has(n) THEN {name[n]} ELSE Inodes \ Live :
        /\ name' = [name EXCEPT ![n] = f]
        /\ data' = [data EXCEPT ![f] = EmptyFile]
        /\ fd' = [fd EXCEPT ![a] = f]
  BY DEF OpenTruncated
<1>2. f \in Inodes
  BY <1>1 DEF Has, DirTypeOK
<1>3. QED
  BY <1>1, <1>2 DEF DirTypeOK, EmptyFile, File

(* Types: the stream that is copied to the temporary file. *)
LEMMA CopyType ==
  ASSUME DirTypeOK, NEW a \in Actors, CopyChunk(a) \/ CopyEnds(a)
  PROVE  DirTypeOK'
<1> USE SizeAssumption DEF DirTypeOK, Goto, Labels, dirVars
<1>1. CASE CopyChunk(a)
  <2>1. {pos[a] + 1} \in SUBSET Chunks
    BY <1>1 DEF CopyChunk, Chunks
  <2>2. PICK right \in BOOLEAN :
          /\ data' = [data EXCEPT ![fd[a]] = Written(fd[a], {pos[a] + 1}, right)]
          /\ sound' = [sound EXCEPT ![a] = sound[a] /\ right]
    BY <1>1 DEF CopyChunk
  <2>3. data' \in [Inodes -> File]
    BY <2>1, <2>2, WriteType
  <2>4. sound' \in [Actors -> BOOLEAN]
    BY <2>2
  <2>5. pos' \in [Actors -> 0..Size]
    BY <1>1 DEF CopyChunk
  <2>6. QED
    BY <1>1, <2>3, <2>4, <2>5 DEF CopyChunk
<1>2. CASE CopyEnds(a)
  BY <1>2 DEF CopyEnds
<1>3. QED
  BY <1>1, <1>2

LEMMA StreamerType ==
  ASSUME DirTypeOK, NEW a \in Streamers, Streamer(a) PROVE DirTypeOK'
<1> USE StreamersAssumption, SizeAssumption DEF DirTypeOK, Goto, Labels, dirVars
<1>1. CASE Begin(a) \/ StreamHit(a)
  <2>1. "sweep" \in Labels
    OBVIOUS
  <2>2. QED
    BY <1>1, <2>1, PathType DEF StreamHit
<1>2. CASE SweepPartial(a) \/ SweepEntry(a)
  BY <1>2 DEF SweepPartial, SweepEntry, Unlink, Names, NoEntry, Entry
<1>3. CASE StreamFetch(a)
  <2>1. "tmp" \in Names
    BY DEF Names
  <2>2. QED
    BY <1>3, <2>1, TruncateType DEF StreamFetch, OpenTmp
<1>4. CASE CopyChunk(a) \/ CopyEnds(a)
  BY <1>4, CopyType
<1>5. CASE StreamRefused(a) \/ StreamSave(a)
  BY <1>5 DEF StreamRefused, StreamSave, SaveEntry, CompleteEntry, Entry
<1>6. CASE StreamDiscard(a)
  BY <1>6 DEF StreamDiscard, ForgetStream, Unlink, Names
<1>7. CASE StreamInstall(a)
  BY <1>7 DEF StreamInstall, ForgetStream, Rename, Has, Names
<1>8. QED
  BY <1>1, <1>2, <1>3, <1>4, <1>5, <1>6, <1>7 DEF Streamer

-------------------------------------------------------------------------------
(* Types: the lazy handle. *)

LEMMA NextGapType ==
  ASSUME LazyTypeOK, NEW a \in Lazies PROVE NextGap(a) \in SUBSET Chunks
BY DEF LazyTypeOK, NextGap

LEMMA SaveType ==
  ASSUME DirTypeOK, calm \in BOOLEAN, NEW e \in Entry, SaveProgress(e)
  PROVE  entry' \in Entry /\ calm' \in BOOLEAN
BY DEF DirTypeOK, SaveProgress

LEMMA LazyOpenType ==
  ASSUME DirTypeOK, LazyTypeOK, NEW a \in Lazies,
         \/ BeginLazy(a) \/ LazyHit(a) \/ OpenLazyComplete(a) \/ OpenLazyFails(a)
         \/ OpenLazyPartial(a) \/ Resize(a) \/ Announce(a)
  PROVE  DirTypeOK' /\ LazyTypeOK'
<1> USE LaziesAssumption DEF LazyTypeOK, lazyLocals
<1>1. CASE BeginLazy(a) \/ LazyHit(a)
  <2>1. "openlazy" \in Labels
    BY DEF Labels
  <2>2. QED
    BY <1>1, <2>1, PathType DEF BeginLazy, LazyHit
<1>2. CASE OpenLazyComplete(a) \/ OpenLazyFails(a)
  BY <1>2 DEF OpenLazyComplete, OpenLazyFails, BlobOpens, Has, Names, DirTypeOK, Goto, Labels,
              dirVars
<1>3. CASE OpenLazyPartial(a)
  <2>1. PartialEntry(entry.ranges) \in Entry
    BY DEF DirTypeOK, PartialEntry, Entry
  <2>2. LazyTypeOK'
    BY <1>3, <2>1 DEF OpenLazyPartial
  <2>3. mu' \in SUBSET Actors /\ pc' \in [Actors -> Labels]
    BY <1>3 DEF OpenLazyPartial, DirTypeOK, Goto, Labels
  <2>4. /\ name' \in [Names -> Inodes \cup {NoInode}]
        /\ data' \in [Inodes -> File]
        /\ fd' \in [Actors -> Inodes \cup {NoInode}]
    <3>1. CASE /\ fd' = [fd EXCEPT ![a] = name["partial"]]
               /\ UNCHANGED <<name, data>>
      BY <3>1 DEF DirTypeOK, Names
    <3>2. CASE OpenTruncated(a, "partial")
      BY <3>2, TruncateType DEF Names
    <3>3. QED
      BY <1>3, <3>1, <3>2 DEF OpenLazyPartial
  <2>5. QED
    BY <1>3, <2>2, <2>3, <2>4 DEF OpenLazyPartial, DirTypeOK
<1>4. CASE Resize(a)
  <2>1. data' \in [Inodes -> File]
    BY <1>4 DEF Resize, DirTypeOK, File
  <2>2. QED
    BY <1>4, <2>1 DEF Resize, DirTypeOK, Goto, Labels
<1>5. CASE Announce(a)
  BY <1>5, SaveType DEF Announce, DirTypeOK, Goto, Labels
<1>6. QED
  BY <1>1, <1>2, <1>3, <1>4, <1>5

LEMMA ReadType ==
  ASSUME DirTypeOK, LazyTypeOK, NEW a \in Lazies, ReadAt(a) \/ CloseLazy(a)
  PROVE  DirTypeOK' /\ LazyTypeOK'
<1> USE LaziesAssumption DEF LazyTypeOK, lazyLocals, Goto
<1>1. CASE ReadMissing(a)
  <2>1. Intervals \subseteq SUBSET Nat
    BY SizeAssumption DEF Intervals, Chunks
  <2>2. PICK chunks \in Intervals : want' = [want EXCEPT ![a] = chunks]
    BY <1>1 DEF ReadMissing
  <2>3. chunks \in SUBSET Chunks
    BY <2>2, SizeAssumption DEF Intervals, Chunks
  <2>4. QED
    BY <1>1, <2>2, <2>3 DEF ReadMissing, DirTypeOK, Labels, dirVars
<1>2. CASE FetchRange(a)
  <2>1. PICK right \in BOOLEAN :
          /\ data' = [data EXCEPT ![fd[a]] = Written(fd[a], NextGap(a), right)]
          /\ calm' = (calm /\ right)
    BY <1>2 DEF FetchRange
  <2>2. data' \in [Inodes -> File] /\ calm' \in BOOLEAN
    BY <2>1, NextGapType, WriteType DEF DirTypeOK
  <2>3. mem' \in [Lazies -> Entry]
    BY <1>2, NextGapType DEF FetchRange, Entry
  <2>4. QED
    BY <1>2, <2>2, <2>3 DEF FetchRange, DirTypeOK, actVars
<1>3. CASE FetchRangeFails(a)
  <2>1. data' \in [Inodes -> File]
    <3>1. CASE UNCHANGED data
      BY <3>1 DEF DirTypeOK
    <3>2. ASSUME NEW c \in NextGap(a),
                 data' = [data EXCEPT ![fd[a]] =
                            Written(fd[a], {d \in NextGap(a) : d < c}, TRUE)]
          PROVE  data' \in [Inodes -> File]
      <4> DEFINE C == {d \in NextGap(a) : d < c}
      <4>1. C \in SUBSET Chunks
        BY NextGapType
      <4> HIDE DEF C
      <4>2. data' = [data EXCEPT ![fd[a]] = Written(fd[a], C, TRUE)]
        BY <3>2 DEF C
      <4>3. QED
        BY <4>1, <4>2, WriteType DEF DirTypeOK
    <3>3. QED
      BY <1>3, <3>1, <3>2 DEF FetchRangeFails
  <2>2. QED
    BY <1>3, <2>1, SaveType DEF FetchRangeFails, DirTypeOK, Labels
<1>4. CASE ReadDone(a) \/ SaveLazy(a)
  BY <1>4, SaveType DEF ReadDone, SaveLazy, DirTypeOK, Labels
<1>5. CASE VerifyLazy(a)
  BY <1>5 DEF VerifyLazy, DirTypeOK, Labels, dirVars, CompleteEntry, Entry
<1>6. CASE RenameLazy(a)
  <2>1. name' \in [Names -> Inodes \cup {NoInode}]
    BY <1>6 DEF RenameLazy, Rename, Has, Names, DirTypeOK
  <2>2. refused' \in [Lazies -> BOOLEAN]
    BY <1>6 DEF RenameLazy
  <2>3. QED
    BY <1>6, <2>1, <2>2 DEF RenameLazy, DirTypeOK, Labels
<1>7. CASE ReopenLazy(a)
  <2>1. fd' \in [Actors -> Inodes \cup {NoInode}]
    BY <1>7 DEF ReopenLazy, Names, DirTypeOK
  <2>2. refused' \in [Lazies -> BOOLEAN]
    BY <1>7 DEF ReopenLazy
  <2>3. QED
    BY <1>7, <2>1, <2>2 DEF ReopenLazy, DirTypeOK, Labels, dirVars
<1>8. CASE CloseLazy(a)
  BY <1>8, SaveType DEF CloseLazy, DirTypeOK, Labels
<1>9. QED
  BY <1>1, <1>2, <1>3, <1>4, <1>5, <1>6, <1>7, <1>8 DEF ReadAt

-------------------------------------------------------------------------------
LEMMA SharedTypeInit == SharedInit => SharedTypeOK
BY TypeInit DEF SharedInit, SharedTypeOK, LazyInit, LazyTypeOK, NoEntry, Entry

LEMMA SharedTypeStep ==
  ASSUME SharedTypeOK, [SharedNext]_sharedVars PROVE SharedTypeOK'
<1> EagerTypeOK /\ DirTypeOK /\ LazyTypeOK
  BY DEF SharedTypeOK, EagerTypeOK
<1>1. ASSUME NEW a \in Openers, EagerOpener(a), UNCHANGED lazyLocals PROVE SharedTypeOK'
  BY <1>1, OpenerType DEF SharedTypeOK, LazyTypeOK, lazyLocals
<1>2. ASSUME NEW a \in Streamers, Streamer(a), UNCHANGED <<eagerLocals, lazyLocals>>
      PROVE  SharedTypeOK'
  BY <1>2, StreamerType DEF SharedTypeOK, EagerTypeOK, LazyTypeOK, eagerLocals, lazyLocals
<1>3. ASSUME NEW a \in Lazies, LazyReader(a), UNCHANGED eagerLocals PROVE SharedTypeOK'
  BY <1>3, LazyOpenType, ReadType DEF LazyReader, SharedTypeOK, EagerTypeOK, eagerLocals
<1>4. ASSUME NEW e \in Evictors, Evictor(e), calm' = FALSE,
             UNCHANGED <<eagerLocals, mem, want, refused>>
      PROVE  SharedTypeOK'
  BY <1>4, EvictorType DEF SharedTypeOK, LazyTypeOK
<1>5. ASSUME NEW b \in Actors, CrashOf(Proc[b]), calm' = FALSE,
             UNCHANGED <<eagerLocals, mem, want, refused>>
      PROVE  SharedTypeOK'
  BY <1>5, CrashType DEF SharedTypeOK, LazyTypeOK
<1>6. CASE UNCHANGED sharedVars
  BY <1>6 DEF sharedVars, dirVars, actVars, eagerLocals, lazyLocals, SharedTypeOK, EagerTypeOK,
              DirTypeOK, LazyTypeOK
<1>7. QED
  BY <1>1, <1>2, <1>3, <1>4, <1>5, <1>6 DEF SharedNext

(* Whoever shares the directory, in however many processes, the state stays well formed. *)
THEOREM SharedTypes == SharedSpec => []SharedTypeOK
BY SharedTypeInit, SharedTypeStep, PTL DEF SharedSpec

-------------------------------------------------------------------------------
(* A cache that verifies what it opens. *)

(* What a call of OpenStreamThrough, Open, OpenStream, Prefetch, Evict or Clear does to *)
(* the directory in one step, when the registry sends the right bytes.                  *)
NamesDropped == data' = data /\ \A n \in Names : name'[n] \in {name[n], NoInode}
Installs == data' = data /\ (Rename("partial", "blob") \/ Rename("tmp", "blob"))
WritesRight(a) ==
  /\ name' = name
  /\ \E C \in SUBSET Chunks : data' = [data EXCEPT ![fd[a]] = Written(fd[a], C, TRUE)]
DirChange(a) == NamesDropped \/ Installs \/ OpenTruncated(a, "tmp") \/ WritesRight(a)

(* A whole file that is open and has no name under which it is truncated or renamed. *)
Held(f) ==
  /\ f \in Inodes /\ Intact(f) /\ f # name["partial"] /\ f # name["tmp"]
  /\ \E b \in Actors : fd[b] = f

LEMMA HeldStays ==
  ASSUME DirTypeOK, NamesDistinct, NEW a \in Actors, DirChange(a)
  PROVE  /\ NamesDistinct'
         /\ \A f : Held(f) => (Intact(f) /\ f # name["partial"] /\ f # name["tmp"])'
<1> USE NoInodeAssumption DEF DirTypeOK, Names
<1>1. CASE NamesDropped
  BY <1>1 DEF NamesDropped, NamesDistinct, Has, Held, Intact
<1>2. CASE Installs
  <2>1. NamesDistinct'
    BY <1>2 DEF Installs, Rename, NamesDistinct, Has
  <2>2. QED
    BY <1>2, <2>1 DEF Installs, Rename, Held, Intact
<1>3. CASE OpenTruncated(a, "tmp")
  <2>1. PICK g \in IF Has("tmp") THEN {name["tmp"]} ELSE Inodes \ Live :
          /\ name' = [name EXCEPT !["tmp"] = g]
          /\ data' = [data EXCEPT ![g] = EmptyFile]
    BY <1>3 DEF OpenTruncated
  <2>2. g = name["tmp"] \/ (g \notin Live /\ g \in Inodes)
    BY <2>1
  <2>3. NamesDistinct'
    BY <2>1, <2>2 DEF NamesDistinct, Has, Live
  <2>4. \A f : Held(f) => f # g
    BY <2>2 DEF Held, Live
  <2>5. QED
    BY <2>1, <2>3, <2>4 DEF Held, Intact
<1>4. CASE WritesRight(a)
  <2>1. PICK C \in SUBSET Chunks : data' = [data EXCEPT ![fd[a]] = Written(fd[a], C, TRUE)]
    BY <1>4 DEF WritesRight
  <2>2. NamesDistinct'
    BY <1>4 DEF WritesRight, NamesDistinct, Has
  <2>3. ASSUME NEW f \in Inodes, Intact(f) PROVE Written(f, C, TRUE) = FullFile
    <3>1. data[f].span = Chunks /\ data[f].good = Chunks
      BY <2>3 DEF Intact, FullFile
    <3>2. /\ Chunks \cup {d \in Chunks : \E c \in C : d <= c} = Chunks
          /\ Chunks \cup C = Chunks
      OBVIOUS
    <3>3. QED
      BY <3>1, <3>2 DEF Written, FullFile
  <2>4. \A f \in Inodes : Intact(f) => data'[f] = FullFile
    BY <2>1, <2>3 DEF Intact
  <2>5. QED
    BY <1>4, <2>2, <2>4 DEF WritesRight, Held, Intact
<1>5. QED
  BY <1>1, <1>2, <1>3, <1>4 DEF DirChange

(* What one actor does is nothing to the others, and an actor that comes to a checked *)
(* handle has it from a whole file.                                                   *)
LEMMA CheckedKept ==
  ASSUME DirTypeOK, NamesDistinct, CheckedIntact, NEW a \in Actors, DirChange(a),
         \A b \in Actors \ {a} : pc'[b] = pc[b] /\ fd'[b] = fd[b],
         \A b \in Openers \ {a} : op'[b] = op[b],
         \/ ~Checked(a)'
         \/ Checked(a) /\ fd'[a] = fd[a]
         \/ data' = data /\ name' = name /\ fd'[a] = name["blob"] /\ Has("blob") /\ Intact(name["blob"])
  PROVE  NamesDistinct' /\ CheckedIntact'
<1> USE OpenersAssumption, StreamersAssumption
<1>1. NamesDistinct'
  BY HeldStays
<1>2. ASSUME NEW b \in Openers \cup Streamers, Checked(b), fd'[b] = fd[b]
      PROVE  (/\ fd[b] \in Inodes /\ Intact(fd[b])
              /\ fd[b] # name["partial"] /\ fd[b] # name["tmp"])'
  <2>1. Held(fd[b])
    BY <1>2 DEF CheckedIntact, Held
  <2>2. Intact(fd[b])' /\ fd'[b] \in Inodes
    BY <1>2, <2>1, HeldStays DEF Held, Intact
  <2>3. QED
    BY <1>2, <2>1, <2>2, HeldStays
<1>3. ASSUME NEW b \in Openers \cup Streamers, b # a, Checked(b)'
      PROVE  Checked(b) /\ fd'[b] = fd[b]
  BY <1>3 DEF Checked
<1>4. CASE data' = data /\ name' = name /\ fd'[a] = name["blob"] /\ Has("blob") /\ Intact(name["blob"])
  <2>1. (/\ fd[a] \in Inodes /\ Intact(fd[a])
         /\ fd[a] # name["partial"] /\ fd[a] # name["tmp"])'
    BY <1>4 DEF Has, Intact, NamesDistinct, Names, DirTypeOK
  <2>2. QED
    BY <1>1, <1>2, <1>3, <2>1 DEF CheckedIntact
<1>5. CASE ~Checked(a)' \/ (Checked(a) /\ fd'[a] = fd[a])
  BY <1>1, <1>2, <1>3, <1>5 DEF CheckedIntact
<1>6. QED
  BY <1>4, <1>5

(* The steps shared by all calls. *)
LEMMA PathChecked ==
  ASSUME VerifyOnRead, DirTypeOK, NamesDistinct, CheckedIntact, NEW a \in Actors,
         NEW l \in Labels \ {"touch", "open"},
         UNCHANGED op,
         \/ LoadCompleteEntry(a, l) \/ OpenHit(a) \/ TouchEntry(a)
         \/ SelfHeal(a, l) \/ CloseFile(a) \/ ReturnError(a)
  PROVE  NamesDistinct' /\ CheckedIntact'
<1> USE DEF Goto, dirVars, DirTypeOK
<1>1. DirChange(a)
  BY DEF LoadCompleteEntry, OpenHit, TouchEntry, CloseFile, ReturnError, SelfHeal, EvictBlob,
         EvictPartial, EvictEntry, Unlink, DirChange, NamesDropped
<1>2. \A b \in Actors \ {a} : pc'[b] = pc[b] /\ fd'[b] = fd[b]
  BY DEF LoadCompleteEntry, OpenHit, TouchEntry, CloseFile, ReturnError, SelfHeal, EvictBlob,
         EvictPartial, EvictEntry
<1>3. CASE OpenHit(a)
  BY <1>1, <1>2, <1>3, CheckedKept DEF OpenHit, BlobOpens, Checked
<1>4. CASE TouchEntry(a)
  BY <1>1, <1>2, <1>4, CheckedKept DEF TouchEntry, Checked
<1>5. CASE \/ LoadCompleteEntry(a, l) \/ SelfHeal(a, l) \/ CloseFile(a) \/ ReturnError(a)
  <2>1. pc'[a] \notin {"touch", "open"}
    BY <1>5 DEF LoadCompleteEntry, CloseFile, ReturnError, SelfHeal, EvictBlob, EvictPartial,
                EvictEntry
  <2>2. QED
    BY <1>1, <1>2, <2>1, CheckedKept DEF Checked
<1>6. QED
  BY <1>3, <1>4, <1>5

(* A step that does not end at a hit or at a handle. *)
LEMMA UncheckedStep ==
  ASSUME DirTypeOK, NamesDistinct, CheckedIntact, NEW a \in Actors, DirChange(a),
         NEW l \in Labels \ {"touch", "open"}, pc' = [pc EXCEPT ![a] = l],
         NEW f, fd' = [fd EXCEPT ![a] = f],
         \A b \in Openers \ {a} : op'[b] = op[b]
  PROVE  NamesDistinct' /\ CheckedIntact'
<1>1. /\ \A b \in Actors \ {a} : pc'[b] = pc[b] /\ fd'[b] = fd[b]
      /\ ~Checked(a)'
  BY DEF Checked, DirTypeOK
<1>2. QED
  BY <1>1, CheckedKept

LEMMA CopyChecked ==
  ASSUME "bad" \notin Faults, DirTypeOK, NamesDistinct, CheckedIntact, NEW a \in Actors,
         CopyChunk(a) \/ CopyEnds(a), UNCHANGED op
  PROVE  NamesDistinct' /\ CheckedIntact'
<1> USE SizeAssumption DEF Goto, Labels, dirVars
<1>1. CASE CopyChunk(a)
  <2>1. {pos[a] + 1} \in SUBSET Chunks
    BY <1>1 DEF CopyChunk, Chunks, DirTypeOK
  <2>2. DirChange(a)
    BY <1>1, <2>1 DEF CopyChunk, DirChange, WritesRight
  <2>3. pc' = [pc EXCEPT ![a] = "copy"] /\ fd' = [fd EXCEPT ![a] = fd[a]]
    BY <1>1 DEF CopyChunk, DirTypeOK
  <2>4. QED
    BY <2>2, <2>3, UncheckedStep
<1>2. CASE CopyEnds(a)
  <2>1. DirChange(a)
    BY <1>2 DEF CopyEnds, DirChange, NamesDropped
  <2>2. QED
    BY <1>2, <2>1, UncheckedStep DEF CopyEnds
<1>3. QED
  BY <1>1, <1>2

LEMMA StreamerChecked ==
  ASSUME VerifyOnRead, "bad" \notin Faults, DirTypeOK, NamesDistinct, CheckedIntact,
         NEW a \in Streamers, Streamer(a), UNCHANGED op
  PROVE  NamesDistinct' /\ CheckedIntact'
<1> USE StreamersAssumption DEF Goto, Labels, dirVars
<1> a \in Actors
  OBVIOUS
<1> DEFINE Same == fd' = [fd EXCEPT ![a] = fd[a]]
<1>0. UNCHANGED fd => Same
  BY DEF DirTypeOK
<1> HIDE DEF Same
<1>1. CASE Begin(a)
  BY <1>0, <1>1, UncheckedStep DEF Begin, DirChange, NamesDropped, Same
<1>2. CASE StreamHit(a)
  BY <1>2, PathChecked DEF StreamHit
<1>3. CASE SweepPartial(a) \/ SweepEntry(a) \/ StreamRefused(a) \/ StreamSave(a)
  <2>1. DirChange(a)
    BY <1>3 DEF SweepPartial, SweepEntry, StreamRefused, StreamSave, Unlink, DirTypeOK, Names,
                DirChange, NamesDropped
  <2>2. QED
    BY <1>0, <1>3, <2>1, UncheckedStep
       DEF SweepPartial, SweepEntry, StreamRefused, StreamSave, Same
<1>4. CASE StreamFetch(a)
  <2>1. DirChange(a)
    BY <1>4 DEF StreamFetch, OpenTmp, DirChange
  <2>2. QED
    BY <1>4, <2>1, UncheckedStep DEF StreamFetch, OpenTmp, OpenTruncated
<1>5. CASE CopyChunk(a) \/ CopyEnds(a)
  BY <1>5, CopyChecked
<1>6. CASE StreamDiscard(a) \/ StreamInstall(a)
  <2>1. DirChange(a)
    BY <1>6 DEF StreamDiscard, StreamInstall, Unlink, DirTypeOK, Names,
                DirChange, NamesDropped, Installs
  <2>2. QED
    BY <1>0, <1>6, <2>1, UncheckedStep DEF StreamDiscard, StreamInstall, Same
<1>7. QED
  BY <1>1, <1>2, <1>3, <1>4, <1>5, <1>6 DEF Streamer

LEMMA OpenerChecked ==
  ASSUME VerifyOnRead, "bad" \notin Faults, EagerTypeOK, NamesDistinct, CheckedIntact,
         NEW a \in Openers, EagerOpener(a)
  PROVE  NamesDistinct' /\ CheckedIntact'
<1> USE OpenersAssumption DEF Goto, Labels, dirVars, eagerLocals
<1> DirTypeOK /\ a \in Actors
  BY DEF EagerTypeOK
<1> DEFINE Same == fd' = [fd EXCEPT ![a] = fd[a]]
<1>0. UNCHANGED fd => Same
  BY DEF DirTypeOK
<1> HIDE DEF Same
<1>1. CASE BeginOp(a)
  <2>1. \A b \in Openers \ {a} : op'[b] = op[b]
    BY <1>1 DEF BeginOp, EagerTypeOK
  <2>2. QED
    BY <1>0, <1>1, <2>1, UncheckedStep DEF BeginOp, Begin, DirChange, NamesDropped, Same
<1>2. CASE Hit(a)
  BY <1>2, PathChecked DEF Hit
<1>3. CASE PrefetchLoad(a) \/ LockAndLoad(a)
  <2>1. DirChange(a)
    BY <1>3 DEF PrefetchLoad, LockAndLoad, DirChange, NamesDropped
  <2>2. QED
    BY <1>0, <1>3, <2>1, UncheckedStep DEF PrefetchLoad, LockAndLoad, AfterDownload, Same
<1>4. CASE Resume(a)
  <2>1. CASE FetchGap(a)
    <3>1. DirChange(a)
      BY <2>1, FirstGapType DEF FetchGap, DirChange, WritesRight
    <3>2. pc' = [pc EXCEPT ![a] = "gap"]
      BY <2>1 DEF FetchGap, actVars, DirTypeOK
    <3>3. QED
      BY <1>0, <2>1, <3>1, <3>2, UncheckedStep DEF FetchGap, actVars, Same
  <2>2. CASE GapFails(a)
    <3>1. DirChange(a)
      <4>1. CASE UNCHANGED data
        BY <2>2, <4>1 DEF GapFails, DirChange, NamesDropped
      <4>2. ASSUME NEW c \in FirstGap(have[a]),
                   data' = [data EXCEPT ![fd[a]] =
                              Written(fd[a], {d \in FirstGap(have[a]) : d < c}, TRUE)]
            PROVE  DirChange(a)
        <5>1. {d \in FirstGap(have[a]) : d < c} \in SUBSET Chunks
          BY FirstGapType
        <5>2. QED
          BY <2>2, <4>2, <5>1 DEF GapFails, DirChange, WritesRight
      <4>3. QED
        BY <2>2, <4>1, <4>2 DEF GapFails
    <3>2. QED
      BY <2>2, <3>1, UncheckedStep DEF GapFails, EndResume
  <2>3. CASE GapNotSupported(a) \/ VerifyResumed(a)
    <3>1. DirChange(a)
      BY <2>3 DEF GapNotSupported, VerifyResumed, Unlink, DirTypeOK, Names, DirChange, NamesDropped
    <3>2. QED
      BY <2>3, <3>1, UncheckedStep DEF GapNotSupported, VerifyResumed, EndResume
  <2>4. CASE ForgetResumed(a) \/ InstallResumed(a)
    <3>1. DirChange(a)
      BY <2>4 DEF ForgetResumed, InstallResumed, DirChange, NamesDropped, Installs
    <3>2. QED
      BY <1>0, <2>4, <3>1, UncheckedStep DEF ForgetResumed, InstallResumed, Same
  <2>5. QED
    BY <1>4, <2>1, <2>2, <2>3, <2>4 DEF Resume
<1>5. CASE FullDownload(a)
  <2>1. CASE RemovePartial(a) \/ FetchRefused(a) \/ DiscardDownload(a) \/ SaveComplete(a)
    <3>1. DirChange(a)
      BY <2>1 DEF RemovePartial, FetchRefused, DiscardDownload, SaveComplete, Unlink, DirTypeOK,
                  Names, DirChange, NamesDropped
    <3>2. QED
      BY <1>0, <2>1, <3>1, UncheckedStep
         DEF RemovePartial, FetchRefused, DiscardDownload, SaveComplete, AfterDownload, Same
  <2>2. CASE FetchBlob(a)
    <3>1. DirChange(a)
      BY <2>2 DEF FetchBlob, OpenTmp, DirChange
    <3>2. QED
      BY <2>2, <3>1, UncheckedStep DEF FetchBlob, OpenTmp, OpenTruncated
  <2>3. CASE Copy(a)
    BY <2>3, CopyChecked DEF Copy
  <2>4. CASE InstallDownload(a)
    <3>1. DirChange(a)
      BY <2>4 DEF InstallDownload, DirChange, NamesDropped, Installs
    <3>2. QED
      BY <1>0, <2>4, <3>1, UncheckedStep DEF InstallDownload, Same
  <2>5. QED
    BY <1>5, <2>1, <2>2, <2>3, <2>4 DEF FullDownload
<1>6. CASE Reopen(a)
  <2>1. DirChange(a)
    BY <1>6 DEF Reopen, DirChange, NamesDropped
  <2>2. \A b \in Actors \ {a} : pc'[b] = pc[b] /\ fd'[b] = fd[b]
    BY <1>6 DEF Reopen, DirTypeOK
  <2>3. CASE op[a] = "open"
    BY <1>6, <2>1, <2>2, <2>3, CheckedKept DEF Reopen, BlobOpens, Checked, DirTypeOK
  <2>4. CASE op[a] # "open"
    <3>1. ~Checked(a)'
      BY <1>6, <2>4 DEF Reopen, Checked, DirTypeOK
    <3>2. QED
      BY <1>6, <2>1, <2>2, <3>1, CheckedKept DEF Reopen
  <2>5. QED
    BY <2>3, <2>4
<1>7. QED
  BY <1>1, <1>2, <1>3, <1>4, <1>5, <1>6 DEF EagerOpener, EagerWork

LEMMA EvictorChecked ==
  ASSUME DirTypeOK, NamesDistinct, CheckedIntact, NEW e \in Evictors, Evictor(e),
         UNCHANGED op
  PROVE  NamesDistinct' /\ CheckedIntact'
<1> USE OpenersAssumption DEF Goto, Labels, dirVars, actVars
<1>1. DirChange(e)
  BY DEF Evictor, EvictBlob, EvictPartial, EvictEntry, ClearBegin, ClearFile, ClearEntries,
         Unlink, DirTypeOK, Names, DirChange, NamesDropped
<1>2. e \notin Openers \cup Streamers
  BY RolesAssumption, SharedRolesAssumption
<1>3. \A b \in Actors \ {e} : pc'[b] = pc[b] /\ fd'[b] = fd[b]
  BY DEF Evictor, EvictBlob, EvictPartial, EvictEntry, ClearBegin, ClearFile, ClearEntries,
         DirTypeOK
<1>4. NamesDistinct'
  BY <1>1, HeldStays
<1>5. ASSUME NEW b \in Openers \cup Streamers, Checked(b)'
      PROVE  (/\ fd[b] \in Inodes /\ Intact(fd[b])
              /\ fd[b] # name["partial"] /\ fd[b] # name["tmp"])'
  <2>1. b \in Actors \ {e} /\ Checked(b) /\ fd'[b] = fd[b]
    BY <1>2, <1>3, <1>5, StreamersAssumption DEF Checked
  <2>2. Held(fd[b])
    BY <2>1 DEF CheckedIntact, Held
  <2>3. Intact(fd[b])' /\ fd'[b] \in Inodes
    BY <1>1, <2>1, <2>2, HeldStays DEF Held, Intact
  <2>4. QED
    BY <1>1, <2>1, <2>2, <2>3, HeldStays
<1>6. QED
  BY <1>4, <1>5 DEF CheckedIntact

LEMMA NoLazyStep ==
  ASSUME VerifyOnRead, NoOtherHandle, NEW a \in Lazies PROVE ~LazyReader(a)
BY DEF NoOtherHandle, LazyReader, BeginLazy, LazyHit, LoadCompleteEntry, OpenHit, TouchEntry,
       SelfHeal, EvictBlob, EvictPartial, EvictEntry, CloseFile, ReturnError, OpenLazyComplete,
       OpenLazyFails, OpenLazyPartial, Resize, Announce, ReadAt, ReadMissing, FetchRange, FetchRangeFails,
       ReadDone, VerifyLazy, RenameLazy, ReopenLazy, SaveLazy, CloseLazy

LEMMA NoOtherKept ==
  ASSUME DirTypeOK, NoOtherHandle,
         \/ \E a \in Openers : EagerOpener(a)
         \/ \E a \in Streamers : Streamer(a)
         \/ \E a \in Evictors : Evictor(a)
  PROVE  NoOtherHandle'
<1> USE OpenersAssumption, StreamersAssumption, LaziesAssumption, SharedRolesAssumption
    DEF Goto, DirTypeOK, dirVars, actVars, NoOtherHandle
<1>1. ASSUME NEW a \in Openers, EagerOpener(a) PROVE NoOtherHandle'
  BY <1>1, OthersWait
<1>2. ASSUME NEW a \in Streamers, Streamer(a) PROVE NoOtherHandle'
  <2>1. \A b \in Actors \ {a} : pc'[b] = pc[b]
    BY <1>2 DEF Streamer, Begin, StreamHit, LoadCompleteEntry, OpenHit, TouchEntry, SelfHeal,
       EvictBlob, EvictPartial, EvictEntry, CloseFile, ReturnError, SweepPartial, SweepEntry,
       StreamFetch, OpenTmp, StreamRefused, CopyChunk, CopyEnds, StreamDiscard, StreamInstall,
       StreamSave
  <2>2. QED
    BY <2>1
<1>3. ASSUME NEW a \in Evictors, Evictor(a) PROVE NoOtherHandle'
  <2>1. \A b \in Actors : pc'[b] = pc[b] \/ (b = a /\ pc'[b] # "open")
    BY <1>3 DEF Evictor, EvictBlob, EvictPartial, EvictEntry, ClearBegin, ClearFile, ClearEntries
  <2>2. QED
    BY <2>1
<1>4. QED
  BY <1>1, <1>2, <1>3

(* A cache that verifies what it opens hands out whole and right files, whoever else uses *)
(* the directory, in this process or another, and is killed there: a call that downloads  *)
(* without the lock, an eviction, another download of the same blob (openCachedBlob).     *)
THEOREM CheckedHandles ==
  ASSUME VerifyOnRead, "bad" \notin Faults PROVE SharedSpec => []CheckedHandleIntact
<1> DEFINE Inv == SharedTypeOK /\ NamesDistinct /\ NoOtherHandle /\ CheckedIntact
<1>1. SharedInit => Inv
  <2> SUFFICES ASSUME SharedInit PROVE Inv
    OBVIOUS
  <2>1. \A a \in Actors : pc[a] = "idle"
    BY DEF SharedInit, EagerInit, DirInit
  <2>2. QED
    BY <2>1, SharedTypeInit, FilesInit, OpenersAssumption, StreamersAssumption, LaziesAssumption
       DEF SharedInit, FilesSafe, NoOtherHandle, CheckedIntact, Checked
<1>2. Inv /\ [SharedNext]_sharedVars => Inv'
  <2> SUFFICES ASSUME Inv, [SharedNext]_sharedVars PROVE Inv'
    OBVIOUS
  <2> EagerTypeOK /\ DirTypeOK
    BY DEF SharedTypeOK, EagerTypeOK
  <2>1. SharedTypeOK'
    BY SharedTypeStep
  <2>2. ASSUME NEW a \in Openers, EagerOpener(a) PROVE Inv'
    BY <2>1, <2>2, OpenerChecked, NoOtherKept
  <2>3. ASSUME NEW a \in Streamers, Streamer(a), UNCHANGED eagerLocals PROVE Inv'
    BY <2>1, <2>3, StreamerChecked, NoOtherKept DEF eagerLocals
  <2>4. ASSUME NEW a \in Lazies, LazyReader(a) PROVE Inv'
    BY <2>4, NoLazyStep
  <2>5. ASSUME NEW e \in Evictors, Evictor(e), UNCHANGED eagerLocals PROVE Inv'
    BY <2>1, <2>5, EvictorChecked, NoOtherKept DEF eagerLocals
  <2>6. ASSUME NEW b \in Actors, CrashOf(Proc[b]), UNCHANGED eagerLocals PROVE Inv'
    <3>1. NoOtherHandle' /\ NamesDistinct'
      BY <2>6, LaziesAssumption DEF CrashOf, dirVars, NoOtherHandle, NamesDistinct, Has
    <3>2. CheckedIntact'
      BY <2>6, OpenersAssumption, StreamersAssumption
         DEF CrashOf, dirVars, eagerLocals, CheckedIntact, Checked, Intact
    <3>3. QED
      BY <2>1, <3>1, <3>2
  <2>7. CASE UNCHANGED sharedVars
    BY <2>1, <2>7 DEF sharedVars, dirVars, actVars, eagerLocals, NoOtherHandle, NamesDistinct, Has,
                      CheckedIntact, Checked, Intact
  <2>8. QED
    BY <2>2, <2>3, <2>4, <2>5, <2>6, <2>7 DEF SharedNext
<1>3. Inv => CheckedHandleIntact
  <2> SUFFICES ASSUME Inv, NEW a \in Actors, pc[a] = "open", a \in Openers => op[a] = "open"
               PROVE  fd[a] # NoInode /\ Intact(fd[a])
    BY DEF CheckedHandleIntact
  <2>1. QED
    BY NoInodeAssumption DEF CheckedIntact, Checked, NoOtherHandle
<1>4. QED
  BY <1>1, <1>2, <1>3, PTL DEF SharedSpec

-------------------------------------------------------------------------------
(* One lazy handle at a time. *)

(* What has to be shown of the only handle after a step of its own. *)
HandleSafe(a) ==
  /\ Filling(a) => /\ mem[a].state = "partial" /\ fd[a] \in Inodes
                   /\ Has("partial") => name["partial"] = fd[a]
                   /\ fd[a] # name["blob"] /\ fd[a] # name["tmp"]
  /\ pc[a] \in Finishing \/ (pc[a] = "lazy" /\ ~Filling(a)) => mem[a] = CompleteEntry
  /\ pc[a] = "lrename" /\ Has("partial") => Intact(name["partial"])
  /\ pc[a] = "lsave" \/ (pc[a] = "lazy" /\ ~Filling(a)) => fd[a] # NoInode \/ refused[a]
  /\ pc[a] \in {"lrename", "lreopen"} => fd[a] = NoInode

EntryTold ==
  entry.state = "partial" => Has("partial") /\ entry.ranges \subseteq data[name["partial"]].good

HandleTold(a) ==
  /\ pc[a] \in Healing => entry.state = "complete"
  /\ pc[a] = "openlazy" => entry.state # "complete"
  /\ pc[a] # "broken"
  /\ Filling(a) => fd[a] = name["partial"] /\ mem[a].ranges \subseteq data[fd[a]].good
  /\ pc[a] = "lrename" => Has("partial")
  /\ pc[a] = "lreopen" => Has("blob")
  /\ pc[a] = "lsave" \/ (pc[a] = "lazy" /\ ~Filling(a)) =>
       \/ fd[a] = NoInode /\ refused[a]
       \/ Has("blob") /\ fd[a] = name["blob"]
  /\ pc[a] = "lazy" /\ ~Filling(a) => entry.state = "complete"

DirSafe == NamesDistinct /\ InstalledBlobIntact /\ (entry.state # "partial" => entry.ranges = {})

LEMMA HandleStep ==
  ASSUME LazyInv, OneLazyHandle, NEW a \in Lazies, SharedTypeOK',
         \A b \in Evictors : pc'[b] = pc[b],
         DirSafe', HandleSafe(a)',
         calm' => calm /\ HandleTold(a)' /\ (EntryTold' \/ pc'[a] \in {"lreopen", "lsave"})
  PROVE  LazyInv'
<1>1. \A b \in Lazies : b = a
  BY DEF OneLazyHandle
<1>2. LazyFilesSafe'
  BY <1>1 DEF LazyFilesSafe, DirSafe, HandleSafe
<1>3. ASSUME calm' PROVE RangesTold'
  BY <1>1, <1>3 DEF LazyInv, RangesTold, HandleTold, EntryTold
<1>4. QED
  BY <1>2, <1>3 DEF LazyInv

(* What the invariant says of the only handle. *)
LEMMA HandleNow ==
  ASSUME LazyInv, OneLazyHandle, NEW a \in Lazies
  PROVE  /\ DirTypeOK /\ LazyTypeOK /\ DirSafe /\ HandleSafe(a)
         /\ calm => HandleTold(a) /\ (EntryTold \/ pc[a] \in {"lreopen", "lsave"})
  BY DEF LazyInv, LazyFilesSafe, RangesTold, DirSafe, HandleSafe, HandleTold, EntryTold,
         OneLazyHandle, SharedTypeOK, EagerTypeOK

(* A step of the handle is a step of nobody who evicts. *)
LEMMA EvictorsWait ==
  ASSUME DirTypeOK, NEW a \in Lazies, NEW l, pc' = [pc EXCEPT ![a] = l]
  PROVE  \A b \in Evictors : pc'[b] = pc[b]
BY OpenersAssumption, SharedRolesAssumption DEF DirTypeOK

LEMMA DirSame ==
  ASSUME DirSafe, UNCHANGED dirVars PROVE DirSafe' /\ (EntryTold => EntryTold')
BY DEF dirVars, DirSafe, NamesDistinct, InstalledBlobIntact, Has, Intact, EntryTold

(* Outside a session there is little to say of a handle. *)
LEMMA HandleAway ==
  ASSUME NEW a \in Lazies, pc'[a] \notin Finishing \cup {"resize", "announce", "lfetch", "lazy"}
  PROVE  /\ HandleSafe(a)'
         /\ (/\ pc'[a] \in Healing => entry'.state = "complete"
             /\ pc'[a] = "openlazy" => entry'.state # "complete"
             /\ pc'[a] # "broken") => HandleTold(a)'
BY DEF HandleSafe, HandleTold, Filling, Finishing

(* The steps up to the hit and its end. *)
LEMMA LazyPath ==
  ASSUME LazyInv, OneLazyHandle, NEW a \in Lazies, SharedTypeOK',
         BeginLazy(a) \/ LazyHit(a) \/ OpenLazyComplete(a) \/ OpenLazyFails(a)
  PROVE  LazyInv'
<1> USE LaziesAssumption DEF Goto, Labels
<1> /\ DirTypeOK /\ DirSafe /\ HandleSafe(a)
    /\ calm => HandleTold(a) /\ (EntryTold \/ pc[a] \in {"lreopen", "lsave"})
  BY HandleNow
<1>1. PICK l \in {"load", "hit", "openlazy", "touch", "heal", "open", "idle", "broken",
                  "evictpartial", "evictentry", "failed"} :
        pc' = [pc EXCEPT ![a] = l]
  BY DEF BeginLazy, Begin, LazyHit, LoadCompleteEntry, OpenHit, TouchEntry, SelfHeal, EvictBlob,
         EvictPartial, EvictEntry, CloseFile, ReturnError, OpenLazyComplete, OpenLazyFails
<1>2. /\ pc[a] \notin {"lreopen", "lsave"} /\ calm' = calm
      /\ l \in Healing /\ pc[a] # "load" => pc[a] \in Healing
      /\ l \in Healing /\ pc[a] = "load" => entry.state = "complete"
      /\ l = "openlazy" /\ pc[a] # "evictentry" => entry.state # "complete"
      /\ l = "broken" => pc[a] = "openlazy" /\ entry.state = "complete"
  BY <1>1 DEF BeginLazy, Begin, LazyHit, LoadCompleteEntry, OpenHit, TouchEntry, SelfHeal,
         EvictBlob, EvictPartial, EvictEntry, CloseFile, ReturnError, OpenLazyComplete,
         OpenLazyFails, Healing, lazyLocals, DirTypeOK
<1>3. pc'[a] = l
  BY <1>1 DEF DirTypeOK
<1>4. /\ pc'[a] \notin Finishing \cup {"resize", "announce", "lfetch", "lazy"}
      /\ \A b \in Evictors : pc'[b] = pc[b]
  BY <1>1, <1>3, EvictorsWait DEF Finishing
<1>5. CASE UNCHANGED dirVars /\ pc[a] # "evictentry"
  <2>1. DirSafe' /\ (EntryTold => EntryTold') /\ entry' = entry
    BY <1>5, DirSame DEF dirVars
  <2>2. HandleSafe(a)' /\ (calm => HandleTold(a)')
    BY <1>2, <1>3, <1>4, <1>5, <2>1, HandleAway DEF HandleTold
  <2>3. QED
    BY <1>2, <1>4, <2>1, <2>2, HandleStep
<1>6. CASE TouchEntry(a)
  <2>1. /\ pc[a] = "touch" /\ pc'[a] = "open" /\ name' = name /\ data' = data
        /\ entry' = entry \/ entry' = CompleteEntry
    BY <1>6 DEF TouchEntry, SaveEntry, DirTypeOK
  <2>2. DirSafe' /\ (EntryTold => EntryTold')
    BY <2>1 DEF DirSafe, NamesDistinct, InstalledBlobIntact, Has, Intact, EntryTold, CompleteEntry
  <2>3. HandleSafe(a)' /\ HandleTold(a)'
    BY <1>4, <2>1, HandleAway DEF Healing
  <2>4. QED
    BY <1>2, <1>4, <2>2, <2>3, HandleStep
<1>7. CASE SelfHeal(a, "openlazy")
  <2>1. DirSafe'
    BY <1>7, NoInodeAssumption
       DEF SelfHeal, EvictBlob, EvictPartial, EvictEntry, Unlink, DirSafe, NamesDistinct,
           InstalledBlobIntact, Has, Intact, Names, DirTypeOK, NoEntry
  <2>2. HandleSafe(a)'
    BY <1>4, HandleAway
  <2>3. ASSUME calm PROVE HandleTold(a)' /\ EntryTold'
    <3>1. entry.state = "complete"
      BY <1>7, <2>3 DEF HandleTold, SelfHeal, EvictBlob, EvictPartial, EvictEntry, Healing
    <3>2. CASE pc'[a] \in Healing
      BY <1>4, <1>7, <3>1, <3>2, HandleAway
         DEF SelfHeal, EvictBlob, EvictPartial, EvictEntry, Healing, EntryTold, DirTypeOK
    <3>3. CASE pc'[a] \notin Healing
      BY <1>4, <1>7, <3>1, <3>3, HandleAway
         DEF SelfHeal, EvictBlob, EvictPartial, EvictEntry, Healing, EntryTold, NoEntry, DirTypeOK
    <3>4. QED
      BY <3>2, <3>3
  <2>4. QED
    BY <1>2, <1>4, <2>1, <2>2, <2>3, HandleStep
<1>8. QED
  BY <1>5, <1>6, <1>7
     DEF BeginLazy, Begin, LazyHit, LoadCompleteEntry, OpenHit, CloseFile, ReturnError,
         OpenLazyComplete, OpenLazyFails

-------------------------------------------------------------------------------
(* The opening of the partial file. *)

LEMMA LazyOpens ==
  ASSUME LazyInv, OneLazyHandle, NEW a \in Lazies, SharedTypeOK', OpenLazyPartial(a)
  PROVE  LazyInv'
<1> USE LaziesAssumption, NoInodeAssumption DEF Goto
<1> /\ DirTypeOK /\ LazyTypeOK /\ DirSafe /\ HandleSafe(a)
    /\ calm => HandleTold(a) /\ (EntryTold \/ pc[a] \in {"lreopen", "lsave"})
  BY HandleNow
<1>1. /\ pc[a] = "openlazy" /\ pc' = [pc EXCEPT ![a] = "resize"] /\ pc'[a] = "resize"
      /\ entry' = entry /\ entry.state # "complete" /\ calm' = calm
      /\ mem'[a] = PartialEntry(entry.ranges)
  BY DEF OpenLazyPartial, DirTypeOK, LazyTypeOK
<1>2. \A b \in Evictors : pc'[b] = pc[b]
  BY <1>1, EvictorsWait
<1>3. CASE Has("partial") /\ fd' = [fd EXCEPT ![a] = name["partial"]] /\ UNCHANGED <<name, data>>
  <2>1. fd'[a] = name["partial"] /\ fd'[a] \in Inodes
    BY <1>3 DEF DirTypeOK, Has, Names
  <2>2. DirSafe' /\ (EntryTold => EntryTold')
    BY <1>1, <1>3, DirSame DEF dirVars
  <2>3. HandleSafe(a)'
    BY <1>1, <1>3, <2>1
       DEF HandleSafe, Filling, Finishing, PartialEntry, DirSafe, NamesDistinct, Names, Has
  <2>4. calm => HandleTold(a)'
    BY <1>1, <1>3, <2>1
       DEF HandleTold, Filling, Healing, PartialEntry, EntryTold, DirSafe, Entry, DirTypeOK
  <2>5. QED
    BY <1>1, <1>2, <2>2, <2>3, <2>4, HandleStep
<1>4. CASE ~Has("partial") /\ OpenTruncated(a, "partial")
  <2>1. PICK f \in Inodes \ Live :
          /\ name' = [name EXCEPT !["partial"] = f]
          /\ data' = [data EXCEPT ![f] = EmptyFile]
          /\ fd' = [fd EXCEPT ![a] = f]
    BY <1>4 DEF OpenTruncated
  <2>2. /\ fd'[a] = f /\ name'["partial"] = f /\ f \in Inodes
        /\ name'["blob"] = name["blob"] /\ name'["tmp"] = name["tmp"]
        /\ f # name["blob"] /\ f # name["tmp"]
        /\ \A g \in Inodes \ {f} : data'[g] = data[g]
        /\ data'[f] = EmptyFile
    BY <2>1 DEF DirTypeOK, Names, Live
  <2>3. DirSafe'
    BY <1>1, <2>2 DEF DirSafe, NamesDistinct, InstalledBlobIntact, Has, Intact, Names, DirTypeOK
  <2>4. HandleSafe(a)'
    BY <1>1, <2>2 DEF HandleSafe, Filling, Finishing, PartialEntry
  <2>5. calm => entry.ranges = {} /\ entry.state # "partial"
    BY <1>1, <1>4 DEF EntryTold, DirSafe
  <2>6. calm => HandleTold(a)' /\ EntryTold'
    BY <1>1, <2>2, <2>5 DEF HandleTold, Filling, Healing, PartialEntry, EntryTold
  <2>7. QED
    BY <1>1, <1>2, <2>3, <2>4, <2>6, HandleStep
<1>5. QED
  BY <1>3, <1>4 DEF OpenLazyPartial

LEMMA LazyResizes ==
  ASSUME LazyInv, OneLazyHandle, NEW a \in Lazies, SharedTypeOK', Resize(a)
  PROVE  LazyInv'
<1> USE LaziesAssumption DEF Goto
<1> /\ DirTypeOK /\ DirSafe /\ HandleSafe(a)
    /\ calm => HandleTold(a) /\ (EntryTold \/ pc[a] \in {"lreopen", "lsave"})
  BY HandleNow
<1>1. /\ pc[a] = "resize" /\ pc' = [pc EXCEPT ![a] = "announce"] /\ pc'[a] = "announce"
      /\ entry' = entry /\ calm' = calm /\ mem' = mem /\ fd' = fd /\ name' = name
      /\ \A g \in Inodes : data'[g].good = data[g].good
      /\ \A g \in Inodes \ {fd[a]} : data'[g] = data[g]
  BY DEF Resize, DirTypeOK, lazyLocals, File
<1>2. \A b \in Evictors : pc'[b] = pc[b]
  BY <1>1, EvictorsWait
<1>3. fd[a] # name["blob"] /\ fd[a] \in Inodes /\ Filling(a)
  BY <1>1 DEF HandleSafe, Filling
<1>4. DirSafe'
  BY <1>1, <1>3 DEF DirSafe, NamesDistinct, InstalledBlobIntact, Has, Intact, DirTypeOK, Names
<1>5. HandleSafe(a)'
  BY <1>1, <1>3 DEF HandleSafe, Filling, Finishing, Has
<1>6. calm => HandleTold(a)' /\ EntryTold'
  BY <1>1, <1>3 DEF HandleTold, Filling, Healing, EntryTold, Has, DirTypeOK, Names
<1>7. QED
  BY <1>1, <1>2, <1>4, <1>5, <1>6, HandleStep

-------------------------------------------------------------------------------
(* The saves of the entry the handle has in memory, and the steps that touch no file. *)

(* The handle writes its entry over the one on disk: its ranges, or that the blob is there. *)
LEMMA SaveSound ==
  ASSUME DirTypeOK, LazyTypeOK, DirSafe, NEW a \in Lazies, HandleSafe(a), calm \in BOOLEAN,
         calm => HandleTold(a), SaveProgress(mem[a]), UNCHANGED name,
         Filling(a) \/ mem[a] = CompleteEntry,
         InstalledBlobIntact',
         Filling(a) /\ calm => mem[a].ranges \subseteq data'[fd[a]].good
  PROVE  /\ DirSafe'
         /\ calm' => calm /\ entry' = mem[a] /\ EntryTold'
<1> USE DEF SaveProgress, CompleteEntry
<1>1. entry'.state # "partial" => entry'.ranges = {}
  BY DEF DirSafe, HandleSafe
<1>2. DirSafe'
  BY <1>1 DEF DirSafe, NamesDistinct, Has
<1>3. calm' => calm /\ entry' = mem[a]
  OBVIOUS
<1>4. ASSUME calm', Filling(a) PROVE EntryTold'
  BY <1>3, <1>4, NoInodeAssumption DEF HandleSafe, HandleTold, EntryTold, Has
<1>5. ASSUME calm', mem[a] = CompleteEntry PROVE EntryTold'
  BY <1>3, <1>5 DEF EntryTold
<1>6. QED
  BY <1>2, <1>3, <1>4, <1>5

LEMMA LazySaves ==
  ASSUME LazyInv, OneLazyHandle, NEW a \in Lazies, SharedTypeOK',
         Announce(a) \/ ReadDone(a) \/ SaveLazy(a) \/ CloseLazy(a)
  PROVE  LazyInv'
<1> USE LaziesAssumption DEF Goto
<1> /\ DirTypeOK /\ LazyTypeOK /\ DirSafe /\ HandleSafe(a)
    /\ calm => HandleTold(a) /\ (EntryTold \/ pc[a] \in {"lreopen", "lsave"})
  BY HandleNow
<1>1. PICK l \in {"lazy", "idle"} : pc' = [pc EXCEPT ![a] = l]
  BY DEF Announce, ReadDone, SaveLazy, CloseLazy
<1>2. /\ UNCHANGED <<name, data, mem, refused>> /\ SaveProgress(mem[a]) /\ pc'[a] = l
      /\ l = "lazy" => fd' = fd /\ pc[a] \in {"announce", "lfetch", "lsave"}
      /\ pc[a] \in {"announce", "lfetch", "lsave", "lazy"}
  BY <1>1 DEF Announce, ReadDone, SaveLazy, CloseLazy, DirTypeOK
<1>3. \A b \in Evictors : pc'[b] = pc[b]
  BY <1>1, EvictorsWait
<1>4. Filling(a) \/ mem[a] = CompleteEntry
  BY <1>2 DEF Filling, HandleSafe, Finishing
<1>5. InstalledBlobIntact' /\ calm \in BOOLEAN
  BY <1>2 DEF DirSafe, InstalledBlobIntact, Has, Intact, LazyTypeOK
<1>6. /\ DirSafe'
      /\ calm' => calm /\ entry' = mem[a] /\ EntryTold'
  BY <1>2, <1>4, <1>5, SaveSound DEF HandleTold
<1>7. HandleSafe(a)'
  BY <1>2, <1>4 DEF HandleSafe, Filling, Finishing, CompleteEntry, Has
<1>8. calm' => HandleTold(a)'
  BY <1>2, <1>4, <1>6 DEF HandleTold, HandleSafe, Filling, Healing, CompleteEntry, Has
<1>9. QED
  BY <1>3, <1>6, <1>7, <1>8, HandleStep

-------------------------------------------------------------------------------
(* The fetches, which write to the partial file or to a file without a name. *)

(* Chunks that reach the file of the handle spoil no other, and right ones only help. *)
LEMMA FetchWrites ==
  ASSUME DirTypeOK, DirSafe, NEW a \in Lazies, HandleSafe(a), Filling(a), UNCHANGED name,
         NEW C \in SUBSET Chunks, NEW right \in BOOLEAN,
         data' = [data EXCEPT ![fd[a]] = Written(fd[a], C, right)]
  PROVE  /\ InstalledBlobIntact'
         /\ right => /\ C \subseteq data'[fd[a]].good
                     /\ \A g \in Inodes : data[g].good \subseteq data'[g].good
<1>1. fd[a] \in Inodes /\ fd[a] # name["blob"]
  BY DEF HandleSafe
<1>2. /\ data'[fd[a]] = Written(fd[a], C, right)
      /\ \A g \in Inodes \ {fd[a]} : data'[g] = data[g]
  BY <1>1 DEF DirTypeOK
<1>3. InstalledBlobIntact'
  BY <1>1, <1>2 DEF DirSafe, InstalledBlobIntact, Has, Intact, DirTypeOK, Names
<1>4. ASSUME right PROVE data'[fd[a]].good = data[fd[a]].good \cup C
  BY <1>2, <1>4 DEF Written
<1>5. QED
  BY <1>1, <1>2, <1>3, <1>4

LEMMA LazyFetches ==
  ASSUME LazyInv, OneLazyHandle, NEW a \in Lazies, SharedTypeOK', FetchRange(a)
  PROVE  LazyInv'
<1> USE LaziesAssumption
<1> /\ DirTypeOK /\ LazyTypeOK /\ DirSafe /\ HandleSafe(a)
    /\ calm => HandleTold(a) /\ (EntryTold \/ pc[a] \in {"lreopen", "lsave"})
  BY HandleNow
<1>1. PICK right \in BOOLEAN :
        /\ data' = [data EXCEPT ![fd[a]] = Written(fd[a], NextGap(a), right)]
        /\ calm' = (calm /\ right)
  BY DEF FetchRange
<1>2. /\ pc[a] = "lfetch" /\ Filling(a) /\ UNCHANGED <<name, entry, pc, fd>>
      /\ mem'[a].ranges = mem[a].ranges \cup NextGap(a) /\ mem'[a].state = mem[a].state
  BY DEF FetchRange, actVars, Filling, LazyTypeOK, Entry
<1>3. /\ InstalledBlobIntact'
      /\ right => /\ NextGap(a) \subseteq data'[fd[a]].good
                  /\ \A g \in Inodes : data[g].good \subseteq data'[g].good
  BY <1>1, <1>2, NextGapType, FetchWrites
<1>4. DirSafe'
  BY <1>2, <1>3 DEF DirSafe, NamesDistinct, Has
<1>5. HandleSafe(a)'
  BY <1>2 DEF HandleSafe, Filling, Finishing, Has
<1>6. calm' => calm /\ HandleTold(a)' /\ EntryTold'
  <2> SUFFICES ASSUME calm' PROVE calm /\ HandleTold(a)' /\ EntryTold'
    OBVIOUS
  <2>1. calm /\ right /\ fd[a] \in Inodes /\ fd[a] = name["partial"]
    BY <1>1, <1>2 DEF HandleSafe, HandleTold
  <2>2. EntryTold'
    BY <1>2, <1>3, <2>1 DEF EntryTold, Has
  <2>3. mem'[a].ranges \subseteq data'[fd[a]].good
    BY <1>2, <1>3, <2>1 DEF HandleTold
  <2>4. QED
    BY <1>2, <2>1, <2>2, <2>3 DEF HandleTold, Filling, Healing
<1>7. QED
  BY <1>2, <1>4, <1>5, <1>6, HandleStep

LEMMA LazyFetchFails ==
  ASSUME LazyInv, OneLazyHandle, NEW a \in Lazies, SharedTypeOK', FetchRangeFails(a)
  PROVE  LazyInv'
<1> USE LaziesAssumption DEF Goto
<1> /\ DirTypeOK /\ LazyTypeOK /\ DirSafe /\ HandleSafe(a)
    /\ calm => HandleTold(a) /\ (EntryTold \/ pc[a] \in {"lreopen", "lsave"})
  BY HandleNow
<1>1. /\ pc[a] = "lfetch" /\ Filling(a) /\ pc' = [pc EXCEPT ![a] = "lazy"] /\ pc'[a] = "lazy"
      /\ UNCHANGED <<name, fd, mem>> /\ SaveProgress(mem[a])
  BY DEF FetchRangeFails, Filling, DirTypeOK
<1>2. InstalledBlobIntact' /\ \A g \in Inodes : data[g].good \subseteq data'[g].good
  <2>1. CASE UNCHANGED data
    BY <1>1, <2>1 DEF DirSafe, InstalledBlobIntact, Has, Intact
  <2>2. ASSUME NEW c \in NextGap(a),
               data' = [data EXCEPT ![fd[a]] =
                          Written(fd[a], {d \in NextGap(a) : d < c}, TRUE)]
        PROVE  <1>2
    <3> DEFINE C == {d \in NextGap(a) : d < c}
    <3>1. C \in SUBSET Chunks
      BY NextGapType
    <3> HIDE DEF C
    <3>2. data' = [data EXCEPT ![fd[a]] = Written(fd[a], C, TRUE)]
      BY <2>2 DEF C
    <3>3. QED
      BY <1>1, <3>1, <3>2, FetchWrites
  <2>3. QED
    BY <2>1, <2>2 DEF FetchRangeFails
<1>3. \A b \in Evictors : pc'[b] = pc[b]
  BY <1>1, EvictorsWait
<1>4. calm => mem[a].ranges \subseteq data'[fd[a]].good
  BY <1>1, <1>2 DEF HandleTold, HandleSafe
<1>5. /\ DirSafe'
      /\ calm' => calm /\ entry' = mem[a] /\ EntryTold'
  BY <1>1, <1>2, <1>4, SaveSound DEF LazyTypeOK
<1>6. HandleSafe(a)'
  BY <1>1 DEF HandleSafe, Filling, Finishing, Has
<1>7. calm' => HandleTold(a)'
  BY <1>1, <1>4, <1>5 DEF HandleTold, HandleSafe, Filling, Healing
<1>8. QED
  BY <1>3, <1>5, <1>6, <1>7, HandleStep

-------------------------------------------------------------------------------
(* verifyAndComplete: what was hashed is renamed and opened under its new name. *)

LEMMA LazyCompletes ==
  ASSUME LazyInv, OneLazyHandle, NEW a \in Lazies, SharedTypeOK',
         ReadMissing(a) \/ VerifyLazy(a) \/ RenameLazy(a) \/ ReopenLazy(a)
  PROVE  LazyInv'
<1> USE LaziesAssumption, NoInodeAssumption DEF Goto
<1> /\ DirTypeOK /\ LazyTypeOK /\ DirSafe /\ HandleSafe(a)
    /\ calm => HandleTold(a) /\ (EntryTold \/ pc[a] \in {"lreopen", "lsave"})
  BY HandleNow
<1>1. PICK l \in {"lfetch", "lrename", "lreopen", "lsave"} : pc' = [pc EXCEPT ![a] = l]
  BY DEF ReadMissing, VerifyLazy, RenameLazy, ReopenLazy
<1>2. pc'[a] = l /\ calm' = calm /\ data' = data /\ entry' = entry
  BY <1>1 DEF ReadMissing, VerifyLazy, RenameLazy, ReopenLazy, dirVars, lazyLocals, DirTypeOK
<1>3. \A b \in Evictors : pc'[b] = pc[b]
  BY <1>1, EvictorsWait
<1>4. CASE ReadMissing(a)
  <2>1. pc[a] = "lazy" /\ Filling(a) /\ l = "lfetch" /\ UNCHANGED <<dirVars, fd, mem>>
    <3>1. Intervals \subseteq SUBSET Chunks
      BY SizeAssumption DEF Intervals, Chunks
    <3>2. mem[a].state # "complete"
      BY <1>4, <3>1 DEF ReadMissing, Cached
    <3>3. QED
      BY <1>1, <1>2, <1>4, <3>2 DEF ReadMissing, HandleSafe, Filling, CompleteEntry
  <2>2. DirSafe' /\ (EntryTold => EntryTold')
    BY <2>1, DirSame
  <2>3. HandleSafe(a)' /\ (calm => HandleTold(a)')
    BY <1>2, <2>1 DEF HandleSafe, HandleTold, Filling, Finishing, Healing, Has, dirVars
  <2>4. QED
    BY <1>2, <1>3, <2>1, <2>2, <2>3, HandleStep
<1>5. CASE VerifyLazy(a)
  <2>1. /\ pc[a] = "lfetch" /\ Filling(a) /\ l = "lrename" /\ UNCHANGED dirVars
        /\ mem'[a] = CompleteEntry /\ Intact(fd[a]) /\ fd'[a] = NoInode
    BY <1>1, <1>2, <1>5 DEF VerifyLazy, Filling, LazyTypeOK, DirTypeOK
  <2>2. DirSafe' /\ (EntryTold => EntryTold')
    BY <2>1, DirSame
  <2>3. HandleSafe(a)' /\ (calm => HandleTold(a)')
    BY <1>2, <2>1
       DEF HandleSafe, HandleTold, Filling, Finishing, Healing, Has, dirVars, Intact, DirTypeOK
  <2>4. QED
    BY <1>2, <1>3, <2>1, <2>2, <2>3, HandleStep
<1>6. CASE RenameLazy(a)
  <2>1. pc[a] = "lrename" /\ mem' = mem /\ mem[a] = CompleteEntry /\ l \in {"lreopen", "lsave"}
    BY <1>1, <1>2, <1>6 DEF RenameLazy, HandleSafe, Finishing, lazyLocals, DirTypeOK
  <2>2. DirSafe'
    BY <1>2, <1>6, <2>1
       DEF RenameLazy, Rename, DirSafe, NamesDistinct, InstalledBlobIntact, HandleSafe, Has,
           Intact, Names, DirTypeOK
  <2>3. (l = "lsave" => refused'[a]) /\ fd'[a] = NoInode
    BY <1>1, <1>2, <1>6 DEF RenameLazy, HandleSafe, LazyTypeOK, DirTypeOK
  <2>4. HandleSafe(a)'
    BY <1>2, <2>1, <2>3 DEF HandleSafe, Filling, Finishing
  <2>5. ASSUME calm PROVE HandleTold(a)' /\ (EntryTold' \/ pc'[a] \in {"lreopen", "lsave"})
    <3>1. CASE l = "lreopen"
      <4>1. Has("partial") /\ name'["blob"] = name["partial"]
        BY <1>1, <1>2, <1>6, <2>5, <3>1 DEF RenameLazy, Rename, Has, Names, DirTypeOK
      <4>2. QED
        BY <1>2, <3>1, <4>1 DEF HandleTold, Healing, Filling, Has
    <3>2. CASE l = "lsave"
      BY <1>2, <2>3, <3>2 DEF HandleTold, Healing, Filling
    <3>3. QED
      BY <2>1, <3>1, <3>2
  <2>6. QED
    BY <1>2, <1>3, <2>2, <2>4, <2>5, HandleStep
<1>7. CASE ReopenLazy(a)
  <2>1. /\ pc[a] = "lreopen" /\ l = "lsave" /\ mem' = mem /\ mem[a] = CompleteEntry
        /\ UNCHANGED dirVars
        /\ \/ Has("blob") /\ fd'[a] = name["blob"]
           \/ refused'[a] /\ fd'[a] = fd[a]
    BY <1>1, <1>2, <1>7 DEF ReopenLazy, HandleSafe, Finishing, DirTypeOK, LazyTypeOK
  <2>2. DirSafe'
    BY <2>1, DirSame
  <2>3. HandleSafe(a)' /\ (calm => HandleTold(a)')
    BY <1>2, <2>1 DEF HandleSafe, HandleTold, Filling, Finishing, Healing, Has, dirVars
  <2>4. QED
    BY <1>2, <1>3, <2>1, <2>2, <2>3, HandleStep
<1>8. QED
  BY <1>4, <1>5, <1>6, <1>7

-------------------------------------------------------------------------------
(* Everybody else. *)

(* An eviction only takes names away, and ends the calm. *)
LEMMA EvictLazy ==
  ASSUME LazyInv, OneLazyHandle, SharedTypeOK', NEW e \in Evictors, Evictor(e), calm' = FALSE,
         UNCHANGED <<mem, refused>>
  PROVE  LazyInv'
<1> USE OpenersAssumption, NoInodeAssumption DEF Goto, dirVars, actVars
<1> DirTypeOK /\ LazyFilesSafe
  BY DEF LazyInv, SharedTypeOK, EagerTypeOK
<1>1. /\ data' = data /\ fd' = fd
      /\ \A n \in Names : name'[n] \in {name[n], NoInode}
      /\ entry' = entry \/ entry' = NoEntry
  BY DEF Evictor, EvictBlob, EvictPartial, EvictEntry, ClearBegin, ClearFile, ClearEntries,
         Unlink, DirTypeOK, Names
<1>2. \A a \in Lazies : pc'[a] = pc[a]
  BY SharedRolesAssumption, LaziesAssumption
     DEF Evictor, EvictBlob, EvictPartial, EvictEntry, ClearBegin, ClearFile, ClearEntries,
         DirTypeOK
<1>3. NamesDistinct' /\ InstalledBlobIntact' /\ (entry'.state # "partial" => entry'.ranges = {})
  BY <1>1 DEF LazyFilesSafe, NamesDistinct, InstalledBlobIntact, Has, Intact, Names, NoEntry
<1>4. ASSUME NEW a \in Lazies PROVE HandleSafe(a)'
  BY <1>1, <1>2 DEF LazyFilesSafe, HandleSafe, Filling, Finishing, Has, Intact, Names
<1>5. QED
  BY <1>3, <1>4 DEF LazyInv, LazyFilesSafe, HandleSafe

(* A kill takes the handle with it, or leaves it alone. *)
LEMMA CrashLazy ==
  ASSUME LazyInv, OneLazyHandle, SharedTypeOK', NEW p, CrashOf(p), calm' = FALSE, UNCHANGED <<mem, refused>>
  PROVE  LazyInv'
<1> USE LaziesAssumption DEF dirVars
<1> DirTypeOK /\ LazyFilesSafe
  BY DEF LazyInv, SharedTypeOK, EagerTypeOK
<1>1. UNCHANGED dirVars
  BY DEF CrashOf
<1>2. ASSUME NEW a \in Lazies PROVE HandleSafe(a)'
  <2>1. CASE pc'[a] = "idle"
    BY <2>1, HandleAway DEF Finishing
  <2>2. CASE pc'[a] = pc[a] /\ fd'[a] = fd[a]
    BY <1>1, <2>2 DEF LazyFilesSafe, HandleSafe, Filling, Finishing, Has, Intact
  <2>3. QED
    BY <2>1, <2>2 DEF CrashOf
<1>3. QED
  BY <1>1, <1>2
     DEF LazyInv, LazyFilesSafe, HandleSafe, NamesDistinct, InstalledBlobIntact, Has, Intact

LEMMA LazyStep ==
  ASSUME LazyInv, OneLazyHandle, [SharedNext]_sharedVars PROVE LazyInv'
<1>1. SharedTypeOK'
  BY SharedTypeStep DEF LazyInv
<1>2. ASSUME NEW a \in Lazies, LazyReader(a) PROVE LazyInv'
  BY <1>1, <1>2, LazyPath, LazyOpens, LazyResizes, LazySaves, LazyFetches, LazyFetchFails,
     LazyCompletes
     DEF LazyReader, ReadAt
<1>3. ASSUME NEW e \in Evictors, Evictor(e), calm' = FALSE, UNCHANGED <<mem, refused>> PROVE LazyInv'
  BY <1>1, <1>3, EvictLazy
<1>4. ASSUME NEW b \in Actors, CrashOf(Proc[b]), calm' = FALSE, UNCHANGED <<mem, refused>> PROVE LazyInv'
  BY <1>1, <1>4, CrashLazy
<1>5. CASE UNCHANGED sharedVars
  <2>1. LazyFilesSafe'
    BY <1>5 DEF LazyInv, sharedVars, dirVars, actVars, lazyLocals, LazyFilesSafe, NamesDistinct,
                InstalledBlobIntact, Has, Intact, Filling, Finishing
  <2>2. calm' => RangesTold'
    BY <1>5 DEF LazyInv, sharedVars, dirVars, actVars, lazyLocals, RangesTold, Has, Filling,
                Healing
  <2>3. QED
    BY <1>1, <2>1, <2>2 DEF LazyInv
<1>6. QED
  BY <1>2, <1>3, <1>4, <1>5 DEF SharedNext, OneLazyHandle

LEMMA LazyBegins == ASSUME OneLazyHandle, SharedInit PROVE LazyInv
<1>1. PICK b \in Inodes, p \in Inodes, t \in Inodes, R \in SUBSET Chunks, kind \in Leftovers :
        b # p /\ p # t /\ b # t /\ LeftBehind(kind, b, p, t, R)
  BY DEF SharedInit, EagerInit, DirInit
<1>2. \A a \in Actors : pc[a] = "idle"
  BY DEF SharedInit, EagerInit, DirInit
<1>3. NamesDistinct /\ InstalledBlobIntact
  BY FilesInit DEF SharedInit, FilesSafe
<1>4. entry.state # "partial" => entry.ranges = {}
  BY <1>1 DEF LeftBehind, Holds, NoEntry, CompleteEntry, PartialEntry
<1>5. entry.state = "partial" /\ Has("partial") => entry.ranges \subseteq data[name["partial"]].good
  BY <1>1, NoInodeAssumption
     DEF LeftBehind, Holds, NoEntry, CompleteEntry, PartialEntry, Has, Names
<1>6. LazyFilesSafe
  BY <1>2, <1>3, <1>4, LaziesAssumption DEF LazyFilesSafe, Filling, Finishing
<1>7. calm => RangesTold
  BY <1>2, <1>5, LaziesAssumption, OpenersAssumption
     DEF SharedInit, LazyInit, RangesTold, Filling, Healing
<1>8. QED
  BY <1>6, <1>7, SharedTypeInit DEF LazyInv

(* The invariant, whatever else happens to the directory. *)
THEOREM LazyInvariant == ASSUME OneLazyHandle PROVE SharedSpec => []LazyInv
BY LazyBegins, LazyStep, PTL DEF SharedSpec

(* A lazy handle never installs a file that is not the whole blob, even when its partial *)
(* file is evicted under it, its process is killed, or the registry sends wrong bytes    *)
(* (verifyAndComplete).                                                                  *)
THEOREM LazyBlobIntact == ASSUME OneLazyHandle PROVE SharedSpec => []InstalledBlobIntact
<1>1. LazyInv => InstalledBlobIntact
  BY DEF LazyInv, LazyFilesSafe
<1>2. QED
  BY <1>1, LazyInvariant, PTL

(* As long as nobody is killed or evicts, every save succeeds and every byte is right, a    *)
(* lazy read never takes a hole of the partial file for content, whatever else fails: the   *)
(* ranges it counts as there were fetched, by this handle or by one before it (ReadAt,      *)
(* openLazyHandle).  A kill between the rename and the save of the entry ends that promise: *)
(* old ranges are left over no partial file.                                                *)
THEOREM LazyServesReal == ASSUME OneLazyHandle PROVE SharedSpec => []LazyRangesReal
<1>1. LazyInv => LazyRangesReal
  <2> SUFFICES ASSUME LazyInv, calm, NEW a \in Lazies, pc[a] \in {"lazy", "lfetch"},
                      fd[a] # NoInode
               PROVE  Cached(a) \subseteq data[fd[a]].good
    BY DEF LazyRangesReal
  <2>1. CASE Filling(a)
    BY <2>1 DEF LazyInv, LazyFilesSafe, RangesTold, Cached
  <2>2. CASE ~Filling(a)
    <3>1. Has("blob") /\ fd[a] = name["blob"] /\ mem[a] = CompleteEntry
      BY <2>2 DEF LazyInv, LazyFilesSafe, RangesTold, Filling
    <3>2. data[fd[a]].good = Chunks
      BY <3>1 DEF LazyInv, LazyFilesSafe, InstalledBlobIntact, Intact, FullFile
    <3>3. QED
      BY <3>1, <3>2 DEF Cached, CompleteEntry
  <2>3. QED
    BY <2>1, <2>2
<1>2. QED
  BY <1>1, LazyInvariant, PTL

(* Between two such sessions the entry speaks of the partial file that is there, so the *)
(* next one may trust its ranges (saveProgress, Close).                                 *)
THEOREM EntryServesReal == ASSUME OneLazyHandle PROVE SharedSpec => []EntryRangesReal
<1>1. LazyInv => EntryRangesReal
  BY LaziesAssumption DEF LazyInv, RangesTold, EntryRangesReal, AllIdle
<1>2. QED
  BY <1>1, LazyInvariant, PTL

(* A lazy handle can be read until it is closed, unless the rename or the open of the *)
(* completed file failed; then the next OpenLazy is not refused for it, as long as     *)
(* nobody is killed or evicts and every save succeeds (verifyAndComplete, OpenLazy).   *)
THEOREM LazyStaysUsable == ASSUME OneLazyHandle PROVE SharedSpec => []LazyHandleUsable
<1>1. LazyInv => LazyHandleUsable
  <2> SUFFICES ASSUME LazyInv, NEW a \in Lazies
               PROVE  /\ pc[a] \in {"lazy", "lfetch"} => fd[a] # NoInode \/ refused[a]
                      /\ calm => /\ pc[a] # "broken"
                                 /\ pc[a] = "lazy" /\ mem[a].state = "complete" /\ ~refused[a]
                                    => fd[a] = name["blob"]
    BY DEF LazyHandleUsable
  <2>1. pc[a] \in {"lazy", "lfetch"} => fd[a] # NoInode \/ refused[a]
    BY NoInodeAssumption DEF LazyInv, LazyFilesSafe, Filling
  <2>2. QED
    BY <2>1 DEF LazyInv, LazyFilesSafe, RangesTold, Filling, CompleteEntry
<1>2. QED
  BY <1>1, LazyInvariant, PTL
===============================================================================
