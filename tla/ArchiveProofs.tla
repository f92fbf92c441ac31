----------------------------- MODULE ArchiveProofs -----------------------------
(***************************************************************************)
(* Proofs about Archive, for every tree, every length of its files, every  *)
(* layer and limit, and every fault.                                       *)
(***************************************************************************)
EXTENDS Archive, FoldProofs, SequenceTheorems

BuildPart == BuildTypeOK /\ NoTempLeft /\ BuildInOrder
ExtractPart == ExtractTypeOK /\ ExtractInOrder

Received == Seq([header : Entry, got : Nat])

-------------------------------------------------------------------------------
(* What goes through the pipe *)

LEMMA TreeNodes ==
  /\ Len(Tree) \in Nat /\ Nodes = 1..Len(Tree)
  /\ \A k \in Nodes : /\ Tree[k].name \in Names /\ Tree[k].type \in Types
                      /\ Lens(k) \subseteq Lengths
                      /\ \A n \in Lens(k) : HeaderOf(k, n) \in Entry
<1>1. Len(Tree) \in Nat /\ Nodes = 1..Len(Tree)
  BY TreeAssumption DEF Nodes
<1>2. ASSUME NEW k \in Nodes
      PROVE  Tree[k].name \in Names /\ Tree[k].type \in Types
  <2>1. Tree[k] \in [name : Names, type : {"reg", "dir", "link"}]
    BY <1>1, TreeAssumption, ElementOfSeq
  <2>2. QED
    BY <2>1 DEF Types
<1>3. ASSUME NEW k \in Nodes, NEW n \in Lens(k)
      PROVE  n \in Lengths /\ HeaderOf(k, n) \in Entry
  <2>1. n \in Lengths /\ n \in Sizes
    BY LengthsAssumption, MaxIntAssumption DEF Lens, Sizes
  <2>2. QED
    BY <1>2, <2>1 DEF HeaderOf, Entry
<1>4. QED
  BY <1>1, <1>2, <1>3

LEMMA PutHeader ==
  ASSUME NEW k, NEW n
  PROVE  Put(Header(k, n)) = Append(blob, [header |-> HeaderOf(k, n), got |-> 0])
BY DEF Put, Header

LEMMA PutChunk == Put(Chunk) = [blob EXCEPT ![Len(blob)].got = @ + 1]
BY DEF Put, Chunk

LEMMA PutTrailer == Put(Trailer) = blob
BY DEF Put, Trailer

LEMMA ItemsDiffer ==
  /\ Chunk # Nothing /\ Trailer # Nothing
  /\ \A k, n : Header(k, n) # Nothing
BY DEF Chunk, Trailer, Nothing, Header

LEMMA NothingYet == <<>> \in Seq([header : Entry, got : Nat])
OBVIOUS

LEMMA LengthsNat == Lengths \subseteq Nat /\ \A n \in Lengths : n <= MaxInt64
BY LengthsAssumption, MaxIntAssumption

(* Files have lengths, entries of another type none. *)
LEMMA SourceLengths ==
  ASSUME BuildPart, NEW k \in Nodes
  PROVE  src[k] \in Nat /\ src[k] <= MaxInt64 /\ src[k] \in Lens(k)
<1>1. src[k] \in Lengths /\ src[k] \in Lens(k)
  BY DEF BuildPart, BuildTypeOK
<1>2. QED
  BY <1>1, LengthsNat

LEMMA BuildKept == ASSUME BuildPart, UNCHANGED buildVars PROVE BuildPart'
<1>1. UNCHANGED <<src, wpc, next, todo, read, errCh, pipe, ends, bpc, tmp, blob>>
  BY DEF buildVars, writerVars
<1>2. Came' = Came /\ HeadersOut' = HeadersOut
  BY <1>1 DEF Came, Put, HeadersOut
<1>3. (SentWhole' <=> SentWhole) /\ (AllSent' <=> AllSent)
  BY <1>1, <1>2 DEF SentWhole, AllSent
<1>4. BuildTypeOK' /\ NoTempLeft'
  BY <1>1 DEF BuildPart, BuildTypeOK, NoTempLeft
<1>5. BuildInOrder'
  BY <1>1, <1>3 DEF BuildPart, BuildInOrder
<1>6. QED
  BY <1>4, <1>5 DEF BuildPart

-------------------------------------------------------------------------------
(* The goroutine that writes the tar stream *)

(* A Write: the item is in the pipe, and the invariant is about what it becomes there. *)
LEMMA HeaderStep == ASSUME BuildPart, AddHeader PROVE BuildPart'
<1>1. /\ wpc = "walk" /\ next <= Len(Tree) /\ todo = 0 /\ pipe = Nothing /\ "reader" \notin ends
      /\ pipe' = Header(next, src[next]) /\ todo' = src[next] /\ read' = 0 /\ wpc' = "copy"
      /\ UNCHANGED <<src, next, errCh, ends, bpc, tmp, blob>>
  BY DEF AddHeader, Writes, CanWrite
<1>2. next \in Nodes /\ next \in 1..Len(Tree) + 1 /\ next \in Nat
  BY <1>1, TreeNodes DEF BuildPart, BuildTypeOK
<1>3. src[next] \in Lens(next) /\ src[next] \in Nat
  BY <1>2, SourceLengths
<1>4. BuildTypeOK' /\ NoTempLeft'
  <2>1. pipe' \in UNION {{Header(k, n) : n \in Lens(k)} : k \in Nodes}
    BY <1>1, <1>2, <1>3
  <2>2. QED
    BY <1>1, <1>3, <2>1 DEF BuildPart, BuildTypeOK, NoTempLeft
<1>5. SentWhole => SentWhole'
  <2> SUFFICES ASSUME SentWhole PROVE SentWhole'
    OBVIOUS
  <2> DEFINE last == [header |-> HeaderOf(next, src[next]), got |-> 0]
  <2>1. Came = blob /\ HeadersOut = next - 1 /\ HeadersOut' = next
    BY <1>1 DEF Came, HeadersOut
  <2>2. Came' = Append(blob, last)
    <3>1. Came' = Put(Header(next, src[next]))'
      BY <1>1, ItemsDiffer DEF Came
    <3>2. Put(Header(next, src[next]))' = Append(blob, last)
      BY <1>1 DEF Put, Header, HeaderOf
    <3>3. QED
      BY <3>1, <3>2
  <2>3. last \in [header : Entry, got : Nat]
    BY <1>2, <1>3, TreeNodes
  <2>4. blob \in Received /\ Len(blob) = next - 1
    BY <2>1 DEF SentWhole, Received
  <2>5. /\ Came' \in Received /\ Len(Came') = next
        /\ \A k \in 1..next - 1 : Came'[k] = blob[k]
        /\ Came'[next] = last
    BY <1>2, <2>2, <2>3, <2>4 DEF Received
  <2>6. ASSUME NEW k \in 1..next
        PROVE  /\ Came'[k].header.name = Tree[k].name /\ Came'[k].header.type = Tree[k].type
               /\ Came'[k].got + (IF k = next THEN todo' ELSE 0) = Came'[k].header.size
    <3>1. CASE k = next
      BY <1>1, <1>3, <2>5, <3>1 DEF HeaderOf
    <3>2. CASE k # next
      <4>1. k \in 1..next - 1
        BY <1>2, <3>2
      <4>2. blob[k] \in [header : Entry, got : Nat]
        BY <2>4, <4>1, <1>2, ElementOfSeq DEF Received
      <4>3. /\ blob[k].header.name = Tree[k].name /\ blob[k].header.type = Tree[k].type
            /\ blob[k].got + 0 = blob[k].header.size
        BY <1>1, <2>1, <4>1 DEF SentWhole
      <4>4. QED
        BY <2>5, <3>2, <4>1, <4>2, <4>3
    <3>3. QED
      BY <3>1, <3>2
  <2>7. QED
    BY <2>1, <2>5, <2>6 DEF SentWhole, Received
<1>6. BuildInOrder'
  BY <1>1, <1>5, ItemsDiffer DEF BuildPart, BuildInOrder, AllSent
<1>7. QED
  BY <1>4, <1>6 DEF BuildPart

LEMMA ChunkStep == ASSUME BuildPart, CopyFile PROVE BuildPart'
<1>1. /\ wpc = "copy" /\ todo > 0 /\ pipe = Nothing /\ "reader" \notin ends
      /\ pipe' = Chunk /\ read' = read + 1 /\ todo' = todo - 1
      /\ UNCHANGED <<src, wpc, next, errCh, ends, bpc, tmp, blob>>
  BY DEF CopyFile, Writes, CanWrite
<1>2. next \in Nodes /\ next \in Nat /\ next >= 1 /\ todo \in Nat
  BY <1>1, TreeNodes DEF BuildPart, BuildTypeOK, BuildInOrder
<1>3. BuildTypeOK' /\ NoTempLeft'
  BY <1>1, <1>2 DEF BuildPart, BuildTypeOK, NoTempLeft
<1>4. SentWhole => SentWhole'
  <2> SUFFICES ASSUME SentWhole PROVE SentWhole'
    OBVIOUS
  <2>1. Came = blob /\ HeadersOut = next /\ HeadersOut' = next
    BY <1>1 DEF Came, HeadersOut
  <2>2. Came' = [blob EXCEPT ![Len(blob)].got = @ + 1]
    <3>1. Came' = Put(Chunk)'
      BY <1>1, ItemsDiffer DEF Came
    <3>2. Put(Chunk)' = [blob EXCEPT ![Len(blob)].got = @ + 1]
      BY <1>1 DEF Put, Chunk
    <3>3. QED
      BY <3>1, <3>2
  <2>3. blob \in Received /\ Len(blob) = next
    BY <2>1 DEF SentWhole, Received
  <2>4. blob[next] \in [header : Entry, got : Nat] /\ next \in 1..Len(blob)
    <3>1. next \in 1..Len(blob)
      BY <1>2, <2>3
    <3>2. QED
      BY <2>3, <3>1, ElementOfSeq DEF Received
  <2>5. [blob[next] EXCEPT !.got = @ + 1] \in [header : Entry, got : Nat]
    BY <2>4
  <2>6. /\ Came' \in Received /\ Len(Came') = next
        /\ \A k \in 1..next : k # next => Came'[k] = blob[k]
        /\ Came'[next] = [blob[next] EXCEPT !.got = @ + 1]
    BY <1>2, <2>2, <2>3, <2>4, <2>5 DEF Received
  <2>7. ASSUME NEW k \in 1..next
        PROVE  /\ Came'[k].header.name = Tree[k].name /\ Came'[k].header.type = Tree[k].type
               /\ Came'[k].got + (IF k = next THEN todo' ELSE 0) = Came'[k].header.size
    <3>1. /\ blob[k].header.name = Tree[k].name /\ blob[k].header.type = Tree[k].type
          /\ blob[k].got + (IF k = next THEN todo ELSE 0) = blob[k].header.size
      BY <2>1 DEF SentWhole
    <3>2. CASE k = next
      <4>1. Came'[k].header = blob[k].header /\ Came'[k].got = blob[k].got + 1
        BY <2>4, <2>6, <3>2
      <4>2. blob[k].got \in Nat /\ blob[k].got + todo = blob[k].header.size
        BY <2>4, <3>1, <3>2
      <4>3. QED
        BY <1>1, <1>2, <3>1, <3>2, <4>1, <4>2
    <3>3. CASE k # next
      BY <2>6, <3>1, <3>3
    <3>4. QED
      BY <3>2, <3>3
  <2>8. QED
    BY <2>1, <2>6, <2>7 DEF SentWhole, Received
<1>5. BuildInOrder'
  BY <1>1, <1>4 DEF BuildPart, BuildInOrder, AllSent
<1>6. QED
  BY <1>3, <1>5 DEF BuildPart
LEMMA SentKept ==
  ASSUME Came' = Came, HeadersOut' = HeadersOut, todo' = todo, SentWhole PROVE SentWhole'
BY DEF SentWhole

LEMMA FileStep == ASSUME BuildPart, FileCopied PROVE BuildPart'
<1>1. /\ wpc = "copy" /\ pipe = Nothing /\ next' = next + 1 /\ wpc' = "walk"
      /\ UNCHANGED <<src, todo, read, errCh, pipe, ends, bpc, tmp, blob>>
  BY DEF FileCopied
<1>2. next \in Nat /\ next <= Len(Tree) /\ Len(Tree) \in Nat
  BY <1>1, TreeNodes DEF BuildPart, BuildTypeOK, BuildInOrder
<1>3. BuildTypeOK' /\ NoTempLeft'
  BY <1>1, <1>2 DEF BuildPart, BuildTypeOK, NoTempLeft
<1>4. Came' = Came /\ HeadersOut' = HeadersOut
  BY <1>1, <1>2 DEF Came, HeadersOut
<1>5. SentWhole => SentWhole'
  BY <1>1, <1>4, SentKept
<1>6. BuildInOrder'
  BY <1>1, <1>5 DEF BuildPart, BuildInOrder, AllSent
<1>7. QED
  BY <1>3, <1>6 DEF BuildPart

LEMMA TrailerStep == ASSUME BuildPart, CloseTar PROVE BuildPart'
<1>1. /\ wpc = "walk" /\ next > Len(Tree) /\ todo = 0 /\ pipe = Nothing /\ "reader" \notin ends
      /\ pipe' = Trailer /\ wpc' = "close"
      /\ UNCHANGED <<src, next, todo, read, errCh, ends, bpc, tmp, blob>>
  BY DEF CloseTar, Writes, CanWrite
<1>2. next = Len(Tree) + 1
  BY <1>1, TreeNodes DEF BuildPart, BuildTypeOK
<1>3. BuildTypeOK' /\ NoTempLeft'
  BY <1>1 DEF BuildPart, BuildTypeOK, NoTempLeft
<1>4. Came' = Came /\ HeadersOut' = HeadersOut
  <2>1. Came' = Put(Trailer)' /\ Came = blob
    BY <1>1, ItemsDiffer DEF Came
  <2>2. Put(Trailer)' = blob
    BY <1>1 DEF Put, Trailer
  <2>3. QED
    BY <1>1, <2>1, <2>2 DEF HeadersOut
<1>5. SentWhole => SentWhole'
  BY <1>1, <1>4, SentKept
<1>6. BuildInOrder'
  BY <1>1, <1>2, <1>5 DEF BuildPart, BuildInOrder, AllSent
<1>7. QED
  BY <1>3, <1>6 DEF BuildPart

(* The writer gives up: nothing is claimed of what it wrote. *)
LEMMA GiveUpStep ==
  ASSUME BuildPart, ReadFails \/ LengthChanged \/ WriteRefused PROVE BuildPart'
<1>1. /\ wpc \in {"walk", "copy", "close"} /\ wpc' = "fail" /\ pipe' = Nothing
      /\ UNCHANGED <<src, next, todo, read, errCh, ends, bpc, tmp, blob>>
  BY DEF ReadFails, LengthChanged, WriteRefused
<1>2. BuildTypeOK' /\ NoTempLeft'
  BY <1>1 DEF BuildPart, BuildTypeOK, NoTempLeft
<1>3. errCh # "ok"
  BY <1>1 DEF BuildPart, BuildInOrder
<1>4. BuildInOrder'
  BY <1>1, <1>3 DEF BuildPart, BuildInOrder
<1>5. QED
  BY <1>2, <1>4 DEF BuildPart

LEMMA WriterEnds == ASSUME BuildPart, EndWriter PROVE BuildPart'
<1>1. /\ wpc' = "ended" /\ UNCHANGED <<src, next, todo, read, pipe, bpc, tmp, blob>>
      /\ errCh' \in {"ok", "error"}
      /\ errCh' = "ok" => wpc = "close"
      /\ pipe = Nothing
      /\ wpc \in {"close", "fail"}
      /\ ends' \subseteq ends \cup {"eof", "error"}
  BY DEF EndWriter, BuildPart, BuildInOrder
<1>2. BuildTypeOK' /\ NoTempLeft'
  BY <1>1 DEF BuildPart, BuildTypeOK, NoTempLeft
<1>3. Came' = Came /\ HeadersOut' = HeadersOut
  BY <1>1 DEF Came, HeadersOut
<1>4. SentWhole => SentWhole'
  BY <1>1, <1>3, SentKept
<1>5. errCh = "empty"
  BY <1>1 DEF BuildPart, BuildTypeOK, BuildInOrder
<1>6. BuildInOrder'
  BY <1>1, <1>4, <1>5 DEF BuildPart, BuildInOrder, AllSent
<1>7. QED
  BY <1>2, <1>6 DEF BuildPart

-------------------------------------------------------------------------------
(* The goroutine that reads it, and the call *)

LEMMA AppendStep == ASSUME BuildPart, AppendItem PROVE BuildPart'
<1>1. /\ bpc = "append" /\ pipe # Nothing /\ blob' = Put(pipe) /\ pipe' = Nothing
      /\ UNCHANGED <<src, wpc, next, todo, read, errCh, ends, bpc, tmp>>
  BY DEF AppendItem, writerVars
<1>2. Came = Put(pipe) /\ Came' = Came /\ HeadersOut' = HeadersOut
  BY <1>1 DEF Came, HeadersOut
<1>3. wpc \in {"walk", "copy", "close"} /\ errCh = "empty"
  BY <1>1 DEF BuildPart, BuildTypeOK, BuildInOrder
<1>4. SentWhole
  BY <1>1, <1>3 DEF BuildPart, BuildInOrder
<1>5. SentWhole'
  BY <1>1, <1>2, <1>4, SentKept
<1>6. BuildTypeOK' /\ NoTempLeft'
  BY <1>1, <1>2, <1>4 DEF BuildPart, BuildTypeOK, NoTempLeft, SentWhole
<1>7. BuildInOrder'
  BY <1>1, <1>3, <1>5 DEF BuildPart, BuildInOrder, AllSent
<1>8. QED
  BY <1>6, <1>7 DEF BuildPart

(* The other steps of Build leave the archive as it is. *)
LEMMA CallStep ==
  ASSUME BuildPart,
         AppendEnds \/ AppendFails \/ CloseReader \/ Abort \/ AwaitWriter \/ CloseBlob
  PROVE  BuildPart'
<1>1. UNCHANGED <<src, wpc, next, todo, read, errCh, pipe, blob>>
  BY DEF AppendEnds, AppendFails, CloseReader, Abort, AwaitWriter, CloseBlob, writerVars
<1> DEFINE Going == {"append", "wait", "built", "closed"}
           Moves == /\ bpc' \in {"append", "abort", "wait", "built", "failed", "closed"}
                    /\ bpc \in {"append", "abort", "wait", "built"}
                    /\ bpc' \in Going => bpc \in Going
                    /\ bpc' \in {"built", "closed"} => errCh = "ok"
                    /\ ends' = ends \/ (bpc' = "abort" /\ ends' = ends \cup {"reader"})
                    /\ "reader" \in ends => bpc' \in {"abort", "failed"}
           Gives == tmp' = FALSE \/ (tmp' = tmp /\ bpc' \in {"append", "abort", "wait", "built"})
<1>a. /\ "reader" \in ends => bpc \in {"abort", "failed"}
      /\ bpc = "built" => errCh = "ok"
  BY DEF BuildPart, BuildTypeOK, NoTempLeft, BuildInOrder
<1>2. Moves
  <2>1. CASE AppendEnds
    BY <1>a, <2>1 DEF AppendEnds
  <2>2. CASE AppendFails
    BY <1>a, <2>2 DEF AppendFails
  <2>3. CASE CloseReader
    BY <1>a, <2>3 DEF CloseReader
  <2>4. CASE Abort
    BY <1>a, <2>4 DEF Abort
  <2>5. CASE AwaitWriter
    BY <1>a, <2>5 DEF AwaitWriter
  <2>6. CASE CloseBlob
    BY <1>a, <2>6 DEF CloseBlob
  <2>7. QED
    BY <2>1, <2>2, <2>3, <2>4, <2>5, <2>6
<1>b. Gives
  BY DEF AppendEnds, AppendFails, CloseReader, Abort, AwaitWriter, CloseBlob
<1>3. BuildTypeOK' /\ NoTempLeft'
  BY <1>1, <1>2, <1>b DEF BuildPart, BuildTypeOK, NoTempLeft
<1>4. Came' = Came /\ HeadersOut' = HeadersOut
  BY <1>1 DEF Came, HeadersOut, Put
<1>5. SentWhole => SentWhole'
  BY <1>1, <1>4, SentKept
<1>6. wpc # "none" \/ bpc = "failed"
  BY <1>2 DEF BuildPart, BuildInOrder
<1>7. BuildInOrder'
  BY <1>1, <1>2, <1>5, <1>6 DEF BuildPart, BuildInOrder, AllSent
<1>8. QED
  BY <1>3, <1>7 DEF BuildPart

LEMMA EditStep == ASSUME BuildPart, EditSource PROVE BuildPart'
<1>1. UNCHANGED <<wpc, next, todo, read, errCh, pipe, ends, bpc, tmp, blob>>
  BY DEF EditSource, writerVars
<1>2. src' \in [Nodes -> Lengths] /\ \A k \in Nodes : src'[k] \in Lens(k)
  <2>1. PICK k \in Nodes : \E n \in Lens(k) : src' = [src EXCEPT ![k] = n]
    BY DEF EditSource
  <2>2. QED
    BY <2>1, TreeNodes DEF BuildPart, BuildTypeOK
<1>3. BuildTypeOK' /\ NoTempLeft'
  BY <1>1, <1>2 DEF BuildPart, BuildTypeOK, NoTempLeft
<1>4. Came' = Came /\ HeadersOut' = HeadersOut
  BY <1>1 DEF Came, HeadersOut, Put
<1>5. SentWhole => SentWhole'
  BY <1>1, <1>4, SentKept
<1>6. BuildInOrder'
  BY <1>1, <1>5 DEF BuildPart, BuildInOrder, AllSent
<1>7. QED
  BY <1>3, <1>6 DEF BuildPart

LEMMA StartStep == ASSUME BuildPart, StartBuild PROVE BuildPart'
<1>1. /\ bpc = "idle" /\ wpc = "none"
      /\ UNCHANGED <<next, todo, read, errCh, pipe, ends, blob>>
      /\ \/ (tmp' = TRUE /\ wpc' = "walk" /\ bpc' = "append")
         \/ (bpc' = "failed" /\ UNCHANGED <<tmp, wpc>>)
  BY DEF StartBuild, BuildPart, BuildInOrder
<1>2. src' \in [Nodes -> Lengths] /\ \A k \in Nodes : src'[k] \in Lens(k)
  BY DEF StartBuild
<1>3. next = 1 /\ todo = 0 /\ pipe = Nothing /\ ends = {} /\ blob = <<>> /\ errCh = "empty" /\ ~tmp
  BY <1>1 DEF BuildPart, BuildTypeOK, BuildInOrder, NoTempLeft
<1>4. BuildTypeOK' /\ NoTempLeft'
  <2>1. CASE tmp' = TRUE /\ wpc' = "walk" /\ bpc' = "append"
    BY <1>1, <1>2, <2>1 DEF BuildPart, BuildTypeOK, NoTempLeft
  <2>2. CASE bpc' = "failed" /\ UNCHANGED <<tmp, wpc>>
    BY <1>1, <1>2, <1>3, <2>2 DEF BuildPart, BuildTypeOK, NoTempLeft
  <2>3. QED
    BY <1>1, <2>1, <2>2
<1>5. CASE bpc' = "failed" /\ UNCHANGED <<tmp, wpc>>
  BY <1>1, <1>3, <1>4, <1>5 DEF BuildPart, BuildInOrder
<1>6. CASE tmp' = TRUE /\ wpc' = "walk" /\ bpc' = "append"
  <2>1. SentWhole'
    BY <1>1, <1>3, <1>6 DEF SentWhole, Came, HeadersOut
  <2>2. QED
    BY <1>1, <1>3, <1>4, <1>6, <2>1 DEF BuildPart, BuildInOrder
<1>7. QED
  BY <1>1, <1>5, <1>6

LEMMA ReturnStep == ASSUME BuildPart, BuildReturns PROVE BuildPart'
<1>1. /\ src' = [k \in Nodes |-> 0] /\ wpc' = "none" /\ next' = 1 /\ todo' = 0 /\ read' = 0
      /\ errCh' = "empty" /\ pipe' = Nothing /\ ends' = {} /\ bpc' = "idle" /\ blob' = <<>>
      /\ ~tmp /\ tmp' = tmp
  BY DEF BuildReturns, BuildPart, NoTempLeft
<1>2. src' \in [Nodes -> Lengths] /\ \A k \in Nodes : src'[k] \in Lens(k)
  BY <1>1, LengthsAssumption DEF Lens
<1>3. 1 \in 1..Len(Tree) + 1
  BY TreeNodes
<1>4. BuildTypeOK' /\ NoTempLeft'
  <2>1. tmp' \in BOOLEAN /\ ~tmp'
    BY <1>1 DEF BuildPart, BuildTypeOK
  <2>2. QED
    BY <1>1, <1>2, <1>3, <2>1, NothingYet DEF BuildTypeOK, NoTempLeft
<1>5. BuildInOrder'
  BY <1>1 DEF BuildInOrder
<1>6. QED
  BY <1>4, <1>5 DEF BuildPart

LEMMA BuildStarts == BuildInit => BuildPart
<1> SUFFICES ASSUME BuildInit PROVE BuildPart
  OBVIOUS
<1>1. src \in [Nodes -> Lengths] /\ \A k \in Nodes : src[k] \in Lens(k)
  BY LengthsAssumption DEF BuildInit, Lens
<1>2. 1 \in 1..Len(Tree) + 1
  BY TreeNodes
<1>3. BuildTypeOK /\ NoTempLeft
  BY <1>1, <1>2, NothingYet DEF BuildInit, BuildTypeOK, NoTempLeft
<1>4. BuildInOrder
  BY DEF BuildInit, BuildInOrder
<1>5. QED
  BY <1>3, <1>4 DEF BuildPart

(* A blob that Build returned is whole. *)
LEMMA ReturnedIsWhole == BuildPart => BuiltWhole
<1> SUFFICES ASSUME BuildPart, bpc \in {"built", "closed"} PROVE BuiltWhole
  BY DEF BuiltWhole
<1>1. errCh = "ok" /\ SentWhole /\ AllSent /\ pipe = Nothing /\ wpc = "ended"
  BY DEF BuildPart, BuildInOrder
<1>2. Came = blob /\ HeadersOut = Len(Tree) /\ Len(Tree) \in Nat
  BY <1>1, TreeNodes DEF Came, HeadersOut, AllSent
<1>3. ASSUME NEW k \in Nodes
      PROVE  /\ blob[k].header.name = Tree[k].name /\ blob[k].header.type = Tree[k].type
             /\ blob[k].got = blob[k].header.size
  <2>1. /\ blob[k].header.name = Tree[k].name /\ blob[k].header.type = Tree[k].type
        /\ blob[k].got + 0 = blob[k].header.size
    BY <1>1, <1>2, TreeNodes DEF SentWhole, AllSent
  <2>2. blob[k] \in [header : Entry, got : Nat]
    <3>1. blob \in Received /\ Len(blob) = Len(Tree) /\ k \in 1..Len(blob)
      BY <1>1, <1>2, TreeNodes DEF SentWhole, Received
    <3>2. QED
      BY <3>1, ElementOfSeq DEF Received
  <2>3. QED
    BY <2>1, <2>2
<1>4. Len(blob) = Len(Tree)
  BY <1>1, <1>2 DEF SentWhole
<1>5. QED
  BY <1>3, <1>4 DEF BuiltWhole
-------------------------------------------------------------------------------
(* Extract *)

Things == [type : {"none", "reg", "dir", "link"}, size : 0..MaxInt64, entry : 0..Len(layer)]

LEMMA EntryHere ==
  ASSUME ExtractPart, at <= Len(layer)
  PROVE  /\ at \in 1..Len(layer) /\ at + 1 \in 1..Len(layer) + 1
         /\ entry \in Entry /\ entry.name \in Names
<1>1. at \in 1..Len(layer) + 1 /\ Len(layer) \in Nat /\ layer \in Seq(Entry)
  BY DEF ExtractPart, ExtractTypeOK
<1>2. at \in 1..Len(layer) /\ at + 1 \in 1..Len(layer) + 1
  BY <1>1
<1>3. entry \in Entry
  BY <1>1, <1>2, ElementOfSeq DEF entry
<1>4. QED
  BY <1>2, <1>3 DEF Entry

LEMMA ThingsMade ==
  ASSUME NEW k \in 0..Len(layer), NEW n \in 0..MaxInt64
  PROVE  /\ File(n, k) \in Things /\ Dir(k) \in Things /\ Link(k) \in Things
BY MaxIntAssumption DEF Things, File, Dir, Link

LEMMA AbsentIsThing == ASSUME Len(layer) \in Nat PROVE Absent \in Things
BY MaxIntAssumption DEF Things, Absent

(* A sum within an int64 is the sum. *)
LEMMA PlusFits ==
  ASSUME NEW x \in 0..MaxInt64, NEW y \in 0..MaxInt64, x + y <= MaxInt64
  PROVE  Plus(x, y) = x + y
<1> DEFINE z == x + y + MaxInt64 + 1
           w == 2 * (MaxInt64 + 1)
<1>1. z \in Nat /\ w \in Nat /\ w > 0 /\ z < w
  BY MaxIntAssumption
<1>2. z % w = z
  <2> HIDE DEF z, w
  <2>1. QED
    BY <1>1
<1>3. Plus(x, y) = z - (MaxInt64 + 1)
  BY <1>2 DEF Plus
<1>4. QED
  BY <1>3, MaxIntAssumption

LEMMA LimitsKept ==
  ASSUME ExtractPart, at <= Len(layer), WithinLimits
  PROVE  entry.size \in 0..MaxInt64 /\ Plus(totalSize, entry.size) \in 0..MaxInt64
<1>1. entry.size \in 0..MaxInt64
  BY EntryHere, MaxIntAssumption DEF WithinLimits, SizeAllowed, Entry, Sizes
<1>2. totalSize \in 0..MaxInt64 /\ totalSize + entry.size <= MaxInt64
  BY <1>1, MaxIntAssumption DEF ExtractPart, ExtractTypeOK, WithinLimits, Overflows
<1>3. Plus(totalSize, entry.size) = totalSize + entry.size
  BY <1>1, <1>2, PlusFits
<1>4. QED
  BY <1>1, <1>2, <1>3, MaxIntAssumption

(* A step that writes nothing to the destination. *)
LEMMA QuietExtract ==
  ASSUME ExtractPart,
         \/ ExtractFails \/ SkipEntry \/ RefuseEntry \/ ExceedLimits
         \/ FileWritten \/ EndOfArchive \/ CompareDigest
  PROVE  ExtractPart' /\ UNCHANGED dest
<1>1. UNCHANGED <<layer, intact, limits, fileCount, totalSize, createdDirs, dest>>
  BY DEF ExtractFails, SkipEntry, RefuseEntry, ExceedLimits, FileWritten, EndOfArchive,
         CompareDigest, archive, extractState
<1>2. xpc' \in {"entry", "compare", "limits", "failed", "ok"}
  BY DEF ExtractFails, SkipEntry, RefuseEntry, ExceedLimits, FileWritten, EndOfArchive,
         CompareDigest, NextEntry, Fails
<1>3. at' \in 1..Len(layer) + 1
  <2>1. CASE at' = at
    BY <2>1 DEF ExtractPart, ExtractTypeOK
  <2>2. CASE at' = at + 1 /\ at <= Len(layer)
    BY <2>2, EntryHere
  <2>3. (SkipEntry \/ FileWritten) => at' = at + 1 /\ at <= Len(layer)
    BY DEF SkipEntry, FileWritten, AtEntry, NextEntry, ExtractPart, ExtractInOrder
  <2>4. (ExtractFails \/ RefuseEntry \/ ExceedLimits \/ EndOfArchive \/ CompareDigest) => at' = at
    BY DEF ExtractFails, RefuseEntry, ExceedLimits, EndOfArchive, CompareDigest, Fails
  <2>5. QED
    BY <2>1, <2>2, <2>3, <2>4
<1>4. ExtractTypeOK'
  BY <1>1, <1>2, <1>3 DEF ExtractPart, ExtractTypeOK
<1>5. ExtractInOrder'
  BY <1>2 DEF ExtractInOrder
<1>6. QED
  BY <1>1, <1>4, <1>5 DEF ExtractPart
(* What a step does to files that were there: see NoOverwrite. *)
Spares ==
  \A n \in Names :
    (dest[n].type = "reg" /\ dest'[n] # dest[n]) =>
      \/ dest[n].entry = at
      \/ (entry.type = "link" /\ n \in {entry.name, TmpLink[entry.name]})

LEMMA DirStep == ASSUME ExtractPart, MakeDir PROVE ExtractPart' /\ Spares
<1>1. /\ at <= Len(layer) /\ entry.type = "dir"
      /\ UNCHANGED <<layer, intact, limits, fileCount, totalSize>>
      /\ xpc' \in {"entry", "failed"} /\ at' \in {at, at + 1}
      /\ createdDirs' \subseteq createdDirs \cup {entry.name}
      /\ dest' = dest \/ (dest[entry.name] = Absent /\ dest' = [dest EXCEPT ![entry.name] = Dir(at)])
  BY DEF MakeDir, AtEntry, NextEntry, Fails, archive
<1>2. Dir(at) \in Things /\ at' \in 1..Len(layer) + 1 /\ entry.name \in Names
  BY <1>1, EntryHere, ThingsMade, MaxIntAssumption DEF ExtractPart, ExtractTypeOK
<1>3. dest \in [Names -> Things]
  BY DEF ExtractPart, ExtractTypeOK, Things
<1>4. dest' \in [Names -> Things] /\ Spares
  BY <1>1, <1>2, <1>3 DEF Spares, Absent
<1>5. ExtractTypeOK'
  BY <1>1, <1>2, <1>4 DEF ExtractPart, ExtractTypeOK, Things
<1>6. ExtractInOrder'
  BY <1>1 DEF ExtractInOrder
<1>7. QED
  BY <1>4, <1>5, <1>6 DEF ExtractPart

LEMMA CreateStep == ASSUME ExtractPart, CreateFile PROVE ExtractPart' /\ Spares
<1>1. /\ at <= Len(layer) /\ entry.type = "reg" /\ WithinLimits
      /\ UNCHANGED <<layer, intact, limits, createdDirs>> /\ at' = at
      /\ fileCount' = fileCount + 1 /\ totalSize' = Plus(totalSize, entry.size)
      /\ \/ (xpc' = "failed" /\ dest' = dest)
         \/ (xpc' = "copy" /\ dest[entry.name] = Absent
             /\ dest' = [dest EXCEPT ![entry.name] = File(0, at)])
  BY DEF CreateFile, AtEntry, Fails, archive
<1>2. /\ at \in 1..Len(layer) + 1 /\ entry.name \in Names /\ File(0, at) \in Things
      /\ entry.size \in 0..MaxInt64 /\ totalSize' \in 0..MaxInt64
  BY <1>1, EntryHere, ThingsMade, LimitsKept, MaxIntAssumption DEF ExtractPart, ExtractTypeOK
<1>3. dest \in [Names -> Things]
  BY DEF ExtractPart, ExtractTypeOK, Things
<1>4. dest' \in [Names -> Things] /\ Spares
  BY <1>1, <1>2, <1>3 DEF Spares, Absent
<1>5. fileCount' \in Nat
  BY <1>1 DEF ExtractPart, ExtractTypeOK
<1>6. ExtractTypeOK'
  BY <1>1, <1>2, <1>4, <1>5 DEF ExtractPart, ExtractTypeOK, Things
<1>7. ExtractInOrder'
  <2>1. entry' = entry
    BY <1>1 DEF entry
  <2>2. CASE xpc' = "copy"
    BY <1>1, <1>2, <1>3, <2>1, <2>2 DEF ExtractInOrder, File
  <2>3. QED
    BY <1>1, <2>2 DEF ExtractInOrder
<1>8. QED
  BY <1>4, <1>6, <1>7 DEF ExtractPart

LEMMA CopyStep == ASSUME ExtractPart, CopyChunk PROVE ExtractPart' /\ Spares
<1>1. /\ xpc = "copy" /\ dest[entry.name].size < entry.size
      /\ dest' = [dest EXCEPT ![entry.name].size = @ + 1]
      /\ UNCHANGED <<layer, intact, limits, xpc, at, fileCount, totalSize, createdDirs>>
  BY DEF CopyChunk, archive, extractState
<1>2. /\ at <= Len(layer) /\ entry.type = "reg" /\ entry.size \in 0..MaxInt64
      /\ dest[entry.name].type = "reg" /\ dest[entry.name].entry = at
  BY <1>1 DEF ExtractPart, ExtractInOrder
<1>3. entry.name \in Names /\ entry' = entry /\ dest \in [Names -> Things]
  BY <1>1, <1>2, EntryHere DEF ExtractPart, ExtractTypeOK, Things, entry
<1> DEFINE old == dest[entry.name]
           new == [old EXCEPT !.size = @ + 1]
<1>4. dest' = [dest EXCEPT ![entry.name] = new]
  BY <1>1
<1>5. old \in Things
  BY <1>3
<1>6. new \in Things /\ new.type = "reg" /\ new.entry = at /\ new.size <= entry.size
  BY <1>1, <1>2, <1>5, MaxIntAssumption DEF Things
<1>7. dest' \in [Names -> Things] /\ dest'[entry.name] = new
  BY <1>3, <1>4, <1>6
<1>8. ExtractTypeOK'
  BY <1>1, <1>7 DEF ExtractPart, ExtractTypeOK, Things
<1>9. ExtractInOrder'
  BY <1>1, <1>2, <1>3, <1>6, <1>7 DEF ExtractInOrder
<1>10. Spares
  BY <1>2, <1>3, <1>4 DEF Spares
<1>11. QED
  BY <1>8, <1>9, <1>10 DEF ExtractPart

LEMMA LinkStep == ASSUME ExtractPart, MakeLink PROVE ExtractPart' /\ Spares
<1> DEFINE tmpName == TmpLink[entry.name]
           cleared == IF tmpName = NoName THEN dest ELSE [dest EXCEPT ![tmpName] = Absent]
<1>1. /\ at <= Len(layer) /\ entry.type = "link"
      /\ UNCHANGED <<layer, intact, limits, fileCount, totalSize, createdDirs>>
      /\ xpc' \in {"entry", "failed"} /\ at' \in {at, at + 1}
      /\ dest' = cleared \/ dest' = [cleared EXCEPT ![entry.name] = Link(at)]
  BY DEF MakeLink, AtEntry, NextEntry, Fails, archive, extractState
<1>2. /\ Link(at) \in Things /\ at' \in 1..Len(layer) + 1 /\ entry.name \in Names
      /\ Absent \in Things /\ dest \in [Names -> Things]
  <2>1. at \in 1..Len(layer) /\ Len(layer) \in Nat /\ entry.name \in Names /\ at + 1 \in 1..Len(layer) + 1
    BY <1>1, EntryHere DEF ExtractPart, ExtractTypeOK
  <2>2. Link(at) \in Things /\ Absent \in Things
    BY <2>1, ThingsMade, AbsentIsThing, MaxIntAssumption
  <2>3. dest \in [Names -> Things]
    BY DEF ExtractPart, ExtractTypeOK, Things
  <2>4. QED
    BY <1>1, <2>1, <2>2, <2>3
<1>3. tmpName \in Names \cup {NoName}
  BY <1>2, TmpLinkAssumption
<1>4. /\ cleared \in [Names -> Things]
      /\ \A n \in Names : n # tmpName => cleared[n] = dest[n]
  BY <1>2, <1>3
<1>5. dest' \in [Names -> Things] /\ Spares
  <2> HIDE DEF cleared
  <2>1. dest' \in [Names -> Things]
    BY <1>1, <1>2, <1>4
  <2>2. \A n \in Names : n \notin {entry.name, tmpName} => dest'[n] = dest[n]
    BY <1>1, <1>2, <1>4
  <2>3. QED
    BY <1>1, <2>1, <2>2 DEF Spares
<1>6. ExtractTypeOK'
  BY <1>1, <1>2, <1>5 DEF ExtractPart, ExtractTypeOK, Things
<1>7. ExtractInOrder'
  BY <1>1 DEF ExtractInOrder
<1>8. QED
  BY <1>5, <1>6, <1>7 DEF ExtractPart

LEMMA ExtractReturned == ASSUME ExtractPart, ExtractReturns PROVE ExtractPart'
<1>1. /\ xpc' = "idle" /\ at' = 1 /\ layer' = <<>> /\ intact' = TRUE /\ limits' = NoLimits
      /\ fileCount' = 0 /\ totalSize' = 0 /\ createdDirs' = {}
      /\ dest' = [n \in Names |-> [dest[n] EXCEPT !.entry = 0]]
  BY DEF ExtractReturns
<1>2. ASSUME NEW n \in Names
      PROVE  [dest[n] EXCEPT !.entry = 0] \in
               [type : {"none", "reg", "dir", "link"}, size : 0..MaxInt64, entry : 0..0]
  BY DEF ExtractPart, ExtractTypeOK
<1>3. Len(layer') = 0 /\ layer' \in Seq(Entry) /\ 1 \in 1..Len(layer') + 1
  BY <1>1
<1>4. ExtractTypeOK'
  BY <1>1, <1>2, <1>3, MaxIntAssumption DEF ExtractTypeOK
<1>5. QED
  BY <1>1, <1>4 DEF ExtractPart, ExtractInOrder

LEMMA ExtractStarted ==
  ASSUME ExtractPart, NEW l \in Seq(Entry), StartExtract(l) PROVE ExtractPart' /\ UNCHANGED dest
<1>1. /\ xpc = "idle" /\ layer' = l /\ intact' \in BOOLEAN /\ limits' \in Limits
      /\ xpc' = "entry" /\ at' = 1 /\ UNCHANGED <<fileCount, totalSize, createdDirs, dest>>
  BY DEF StartExtract, extractState
<1>2. Len(layer) = 0 /\ Len(l) \in Nat
  BY <1>1 DEF ExtractPart, ExtractInOrder
<1>3. dest \in [Names -> [type : {"none", "reg", "dir", "link"}, size : 0..MaxInt64, entry : 0..Len(l)]]
  <2>1. 0..0 \subseteq 0..Len(l)
    BY <1>2
  <2>2. dest \in [Names -> [type : {"none", "reg", "dir", "link"}, size : 0..MaxInt64, entry : 0..0]]
    BY <1>2 DEF ExtractPart, ExtractTypeOK
  <2>3. QED
    BY <2>1, <2>2
<1>4. ExtractTypeOK'
  BY <1>1, <1>2, <1>3 DEF ExtractPart, ExtractTypeOK
<1>5. QED
  BY <1>1, <1>4 DEF ExtractPart, ExtractInOrder

LEMMA ExtractKept == ASSUME ExtractPart, UNCHANGED extractVars PROVE ExtractPart' /\ UNCHANGED dest
<1>1. UNCHANGED <<layer, intact, limits, xpc, at, fileCount, totalSize, createdDirs, dest>>
  BY DEF extractVars, archive, extractState
<1>2. entry' = entry
  BY <1>1 DEF entry
<1>3. QED
  BY <1>1, <1>2 DEF ExtractPart, ExtractTypeOK, ExtractInOrder

LEMMA ExtractBegins == ExtractInit => ExtractPart
<1> SUFFICES ASSUME ExtractInit PROVE ExtractPart
  OBVIOUS
<1>1. /\ layer = <<>> /\ intact = TRUE /\ limits = NoLimits /\ xpc = "idle" /\ at = 1
      /\ fileCount = 0 /\ totalSize = 0 /\ createdDirs = {} /\ dest = [n \in Names |-> Absent]
  BY DEF ExtractInit
<1>2. Len(layer) = 0 /\ layer \in Seq(Entry) /\ 1 \in 1..Len(layer) + 1
  BY <1>1
<1>3. Absent \in Things
  BY <1>2, AbsentIsThing
<1>4. ExtractTypeOK
  BY <1>1, <1>2, <1>3, MaxIntAssumption DEF ExtractTypeOK, Things
<1>5. QED
  BY <1>1, <1>4 DEF ExtractPart, ExtractInOrder
-------------------------------------------------------------------------------
(* The two together *)

LEMMA Parts ==
  /\ ArchiveInv <=> (BuildPart /\ ExtractPart)
  /\ ArchiveInv' <=> (BuildPart' /\ ExtractPart')
BY DEF ArchiveInv, ArchiveTypeOK, BuildPart, ExtractPart

LEMMA ArchiveBegins == ArchiveInit => ArchiveInv
BY BuildStarts, ExtractBegins, Parts DEF ArchiveInit

(* What is built and pulled is a sequence of entries. *)
LEMMA BuiltLayer == ASSUME BuildPart PROVE LayerOf(blob) \in Seq(Entry)
<1>1. blob \in Received /\ Len(blob) \in Nat
  BY DEF BuildPart, BuildTypeOK, Received
<1>2. ASSUME NEW k \in 1..Len(blob) PROVE blob[k].header \in Entry
  <2>1. blob[k] \in [header : Entry, got : Nat]
    BY <1>1, ElementOfSeq DEF Received
  <2>2. QED
    BY <2>1
<1>3. QED
  BY <1>1, <1>2 DEF LayerOf

(* One step: the invariant is kept, and files of the destination are spared. *)
LEMMA ArchiveStep ==
  ASSUME ArchiveInv, ArchiveNext
  PROVE  ArchiveInv' /\ (Spares \/ xpc' = "idle")
<1>1. BuildPart /\ ExtractPart
  BY Parts
<1>2. dest' = dest => Spares
  BY DEF Spares
<1>3. CASE BeginBuild
  <2>1. BuildPart'
    BY <1>1, <1>3, StartStep DEF BeginBuild
  <2>2. /\ xpc = "idle" /\ dest' = [n \in Names |-> Absent]
        /\ UNCHANGED <<layer, intact, limits, xpc, at, fileCount, totalSize, createdDirs>>
    BY <1>3 DEF BeginBuild, archive, extractState
  <2>3. Len(layer) \in Nat
    BY <1>1 DEF ExtractPart, ExtractTypeOK
  <2>4. dest' \in [Names -> Things]
    BY <2>2, <2>3, AbsentIsThing
  <2>5. ExtractTypeOK'
    BY <1>1, <2>2, <2>4 DEF ExtractPart, ExtractTypeOK, Things
  <2>6. ExtractPart'
    BY <1>1, <2>2, <2>5 DEF ExtractPart, ExtractInOrder
  <2>7. QED
    BY <2>1, <2>2, <2>6, Parts
<1>4. CASE Build
  <2>1. UNCHANGED extractVars /\ (EditSource \/ Writer \/ Compressor \/ BuildReturns)
    BY <1>4 DEF Build, Resting
  <2>2. BuildPart'
    BY <1>1, <2>1, EditStep, HeaderStep, ChunkStep, FileStep, TrailerStep, GiveUpStep, WriterEnds,
       AppendStep, CallStep, ReturnStep DEF Writer, Compressor
  <2>3. QED
    BY <1>1, <1>2, <2>1, <2>2, ExtractKept, Parts
<1>5. CASE PullBuilt \/ PullForeign
  <2>1. PICK l \in Seq(Entry) : StartExtract(l) /\ UNCHANGED buildVars
    BY <1>1, <1>5, BuiltLayer, ForeignAssumption DEF PullBuilt, PullForeign
  <2>2. QED
    BY <1>1, <1>2, <2>1, ExtractStarted, BuildKept, Parts
<1>6. CASE Extract
  <2>1. ExtractStep /\ BuildPart'
    BY <1>1, <1>6, BuildKept DEF Extract
  <2>2. ExtractPart' /\ (Spares \/ xpc' = "idle")
    <3>1. CASE ExtractReturns
      BY <1>1, <3>1, ExtractReturned DEF ExtractReturns
    <3>2. CASE MakeDir \/ CreateFile \/ CopyChunk \/ MakeLink
      BY <1>1, <3>2, DirStep, CreateStep, CopyStep, LinkStep
    <3>3. CASE \/ ExtractFails \/ SkipEntry \/ RefuseEntry \/ ExceedLimits
               \/ FileWritten \/ EndOfArchive \/ CompareDigest
      BY <1>1, <1>2, <3>3, QuietExtract
    <3>4. QED
      BY <2>1, <3>1, <3>2, <3>3 DEF ExtractStep
  <2>3. QED
    BY <2>1, <2>2, Parts
<1>7. QED
  BY <1>3, <1>4, <1>5, <1>6 DEF ArchiveNext

LEMMA ArchiveKept == ASSUME ArchiveInv, UNCHANGED archiveVars PROVE ArchiveInv'
BY BuildKept, ExtractKept, Parts DEF archiveVars

-------------------------------------------------------------------------------
(* What Extract is through with *)

LEMMA EntryAt ==
  ASSUME ExtractPart
  PROVE  /\ Len(layer) \in Nat /\ at \in Nat /\ at >= 1 /\ at - 1 <= Len(layer)
         /\ dest \in [Names -> Things]
         /\ \A k \in 1..Len(layer) : layer[k] \in Entry /\ layer[k].name \in Names
<1>1. layer \in Seq(Entry) /\ at \in 1..Len(layer) + 1 /\ Len(layer) \in Nat
  BY DEF ExtractPart, ExtractTypeOK
<1>2. \A k \in 1..Len(layer) : layer[k] \in Entry
  BY <1>1, ElementOfSeq
<1>3. dest \in [Names -> Things]
  BY DEF ExtractPart, ExtractTypeOK, Things
<1>4. QED
  BY <1>1, <1>2, <1>3 DEF Entry

LEMMA SameLayer ==
  ASSUME layer' = layer, NEW k, NEW m
  PROVE  (LinkTook(k, m)' <=> LinkTook(k, m)) /\ (Written(k)' <=> Written(k))
BY DEF LinkTook, Written

LEMMA TookMore ==
  ASSUME NEW m \in Nat, NEW n \in Nat, m <= n, NEW k, LinkTook(k, m)
  PROVE  LinkTook(k, n)
<1>1. 2..m \subseteq 2..n
  OBVIOUS
<1>2. QED
  BY <1>1 DEF LinkTook

LEMMA StillThere ==
  ASSUME layer' = layer, NEW k, dest'[layer[k].name] = dest[layer[k].name], IsThere(k)
  PROVE  IsThere(k)'
BY DEF IsThere, File, Link

(* A step that stays at its entry. *)
LEMMA WholeStays ==
  ASSUME ExtractPart, WholeSoFar,
         layer' = layer, at' = at, createdDirs' = createdDirs,
         xpc' # "idle",
         xpc' \in {"compare", "ok"} => at = Len(layer) + 1,
         xpc' = "ok" => intact',
         \A n \in Names : dest[n].type = "none" \/ dest'[n] = dest[n] \/ dest'[n].type # "none",
         \A n \in Names : dest'[n].type = "none" => dest'[n] = dest[n] \/ dest'[n] = Absent,
         xpc' \in {"entry", "copy", "compare", "ok"} =>
           /\ xpc \in {"entry", "copy", "compare", "ok"}
           /\ \A k \in 1..at - 1 : Written(k) /\ IsThere(k) => IsThere(k)'
  PROVE  WholeSoFar'
<1>1. \A n \in Names : dest'[n].type = "none" => dest'[n] = Absent
  BY DEF WholeSoFar
<1>2. ASSUME xpc' \in {"entry", "copy", "compare", "ok"}, NEW n \in createdDirs'
      PROVE  \E i \in 1..at' - 1 : layer'[i].type = "dir" /\ layer'[i].name = n
  BY <1>2 DEF WholeSoFar
<1>3. ASSUME xpc' \in {"entry", "copy", "compare", "ok"}, NEW k \in 1..at' - 1,
             Written(k)', ~LinkTook(k, at - 1)'
      PROVE  IsThere(k)'
  BY <1>3, SameLayer DEF WholeSoFar
<1>4. Absent' = Absent
  BY DEF Absent
<1>5. QED
  BY <1>1, <1>2, <1>3, <1>4 DEF WholeSoFar

(* A step that goes on to the next entry. *)
LEMMA WholeGoesOn ==
  ASSUME ExtractPart, WholeSoFar,
         xpc \in {"entry", "copy"}, at <= Len(layer),
         layer' = layer, at' = at + 1, xpc' = "entry",
         createdDirs' = createdDirs \/ (entry.type = "dir" /\ createdDirs' = createdDirs \cup {entry.name}),
         \A n \in Names : dest'[n].type = "none" => dest'[n] = dest[n] \/ dest'[n] = Absent,
         \A k \in 1..at : Written(k) /\ ~LinkTook(k, at) /\ (k = at \/ IsThere(k)) => IsThere(k)'
  PROVE  WholeSoFar'
<1>1. Absent' = Absent /\ \A n \in Names : dest'[n].type = "none" => dest'[n] = Absent
  BY DEF WholeSoFar, Absent
<1>2. at \in Nat /\ at >= 1 /\ at' - 1 = at
  BY EntryAt
<1>3. ASSUME NEW n \in createdDirs'
      PROVE  \E i \in 1..at' - 1 : layer'[i].type = "dir" /\ layer'[i].name = n
  <2>1. CASE n \in createdDirs
    <3>1. PICK i \in 1..at - 1 : layer[i].type = "dir" /\ layer[i].name = n
      BY <2>1 DEF WholeSoFar
    <3>2. i \in 1..at' - 1
      BY <1>2
    <3>3. QED
      BY <3>1, <3>2
  <2>2. CASE n \notin createdDirs
    <3>1. layer[at].type = "dir" /\ layer[at].name = n
      BY <1>3, <2>2 DEF entry
    <3>2. at \in 1..at' - 1
      BY <1>2
    <3>3. QED
      BY <3>1, <3>2
  <2>3. QED
    BY <2>1, <2>2
<1>4. ASSUME NEW k \in 1..at' - 1, Written(k)', ~LinkTook(k, at - 1)'
      PROVE  IsThere(k)'
  <2>1. Written(k) /\ ~LinkTook(k, at)
    BY <1>2, <1>4, SameLayer
  <2>2. CASE k = at
    BY <1>2, <2>1, <2>2
  <2>3. CASE k # at
    <3>1. k \in 1..at - 1
      BY <1>2, <2>3
    <3>2. ~LinkTook(k, at - 1)
      BY <1>2, <2>1, TookMore
    <3>3. IsThere(k)
      BY <2>1, <3>1, <3>2 DEF WholeSoFar
    <3>4. QED
      BY <1>2, <2>1, <3>1, <3>3
  <2>4. QED
    BY <2>2, <2>3
<1>5. QED
  BY <1>1, <1>3, <1>4 DEF WholeSoFar

LEMMA WholeQuiet ==
  ASSUME ExtractPart, WholeSoFar,
         ExtractFails \/ RefuseEntry \/ ExceedLimits \/ EndOfArchive \/ CompareDigest
  PROVE  WholeSoFar'
<1>1. /\ UNCHANGED <<layer, intact, at, createdDirs, dest>>
      /\ xpc' \in {"failed", "limits", "compare", "ok"}
      /\ xpc' = "compare" => xpc = "entry" /\ at > Len(layer)
      /\ xpc' = "ok" => xpc = "compare" /\ intact
  BY DEF ExtractFails, RefuseEntry, ExceedLimits, EndOfArchive, CompareDigest, Fails, archive,
         extractState
<1>2. xpc' \in {"compare", "ok"} => at = Len(layer) + 1
  BY <1>1, EntryAt DEF WholeSoFar
<1>3. \A k : IsThere(k) => IsThere(k)'
  BY <1>1, StillThere
<1>4. QED
  BY <1>1, <1>2, <1>3, WholeStays

LEMMA WholeSkips == ASSUME ExtractPart, WholeSoFar, SkipEntry PROVE WholeSoFar'
<1>1. /\ xpc = "entry" /\ at <= Len(layer) /\ entry.type = "skipped"
      /\ at' = at + 1 /\ xpc' = "entry" /\ UNCHANGED <<layer, createdDirs, dest>>
  BY DEF SkipEntry, AtEntry, NextEntry, archive, extractState
<1>2. ~Written(at)
  BY <1>1 DEF Written, entry
<1>3. \A k : Written(k) /\ (k = at \/ IsThere(k)) => IsThere(k)'
  BY <1>1, <1>2, StillThere
<1>4. QED
  BY <1>1, <1>3, WholeGoesOn

(* A file is whole when as much was copied as its header says. *)
LEMMA WholeFile == ASSUME ExtractPart, WholeSoFar, FileWritten PROVE WholeSoFar'
<1>1. /\ xpc = "copy" /\ dest[entry.name].size = entry.size
      /\ at' = at + 1 /\ xpc' = "entry" /\ UNCHANGED <<layer, createdDirs, dest>>
  BY DEF FileWritten, NextEntry, archive, extractState
<1>2. /\ at <= Len(layer) /\ entry.type = "reg"
      /\ dest[entry.name].type = "reg" /\ dest[entry.name].entry = at
  BY <1>1 DEF ExtractPart, ExtractInOrder
<1>3. dest[entry.name] \in Things
  BY <1>2, EntryAt DEF entry
<1>4. dest[entry.name] = File(entry.size, at)
  BY <1>1, <1>2, <1>3 DEF File, Things
<1>5. IsThere(at)
  BY <1>2, <1>4 DEF IsThere, entry
<1>6. \A k : k = at \/ IsThere(k) => IsThere(k)'
  BY <1>1, <1>5, StillThere
<1>7. QED
  BY <1>1, <1>2, <1>6, WholeGoesOn

(* A file takes a name that nothing has. *)
LEMMA WholeCreates == ASSUME ExtractPart, WholeSoFar, CreateFile PROVE WholeSoFar'
<1>1. /\ xpc = "entry" /\ at <= Len(layer) /\ entry.type = "reg"
      /\ UNCHANGED <<layer, createdDirs>> /\ at' = at
      /\ \/ (xpc' = "failed" /\ dest' = dest)
         \/ (xpc' = "copy" /\ dest[entry.name] = Absent
             /\ dest' = [dest EXCEPT ![entry.name] = File(0, at)])
  BY DEF CreateFile, AtEntry, Fails, archive
<1>2. CASE xpc' = "failed" /\ dest' = dest
  BY <1>1, <1>2, WholeStays
<1>3. CASE /\ xpc' = "copy" /\ dest[entry.name] = Absent
           /\ dest' = [dest EXCEPT ![entry.name] = File(0, at)]
  <2>1. dest \in [Names -> Things] /\ entry.name \in Names
    BY <1>1, EntryAt DEF entry
  <2>2. /\ \A n \in Names : n # entry.name => dest'[n] = dest[n]
        /\ dest'[entry.name] = File(0, at)
    BY <1>3, <2>1
  <2>3. File(0, at).type = "reg" /\ Absent.type = "none"
    BY DEF File, Absent
  <2>4. ASSUME NEW k \in 1..at - 1, Written(k), IsThere(k) PROVE IsThere(k)'
    <3>1. layer[k].name # entry.name
      BY <1>3, <2>4 DEF IsThere, Written, File, Link, Absent
    <3>2. layer[k].name \in Names
      BY EntryAt
    <3>3. QED
      BY <1>1, <2>2, <2>4, <3>1, <3>2, StillThere
  <2>5. QED
    BY <1>1, <1>3, <2>2, <2>3, <2>4, WholeStays
<1>4. QED
  BY <1>1, <1>2, <1>3

(* Bytes go to the file of the entry, which is no earlier entry's. *)
LEMMA WholeCopies == ASSUME ExtractPart, WholeSoFar, CopyChunk PROVE WholeSoFar'
<1>1. /\ xpc = "copy" /\ dest' = [dest EXCEPT ![entry.name].size = @ + 1]
      /\ UNCHANGED <<layer, xpc, at, createdDirs>>
  BY DEF CopyChunk, archive, extractState
<1>2. /\ at <= Len(layer) /\ entry.type = "reg"
      /\ dest[entry.name].type = "reg" /\ dest[entry.name].entry = at
  BY <1>1 DEF ExtractPart, ExtractInOrder
<1>3. dest \in [Names -> Things] /\ entry.name \in Names
  BY <1>2, EntryAt DEF entry
<1>4. dest[entry.name] \in Things
  BY <1>3
<1>5. /\ \A n \in Names : n # entry.name => dest'[n] = dest[n]
      /\ dest'[entry.name] = [dest[entry.name] EXCEPT !.size = @ + 1]
  BY <1>1, <1>3
<1>6. dest'[entry.name].type = "reg"
  BY <1>2, <1>4, <1>5 DEF Things
<1>7. ASSUME NEW k \in 1..at - 1, Written(k), IsThere(k) PROVE IsThere(k)'
  <2>1. k # at /\ k \in 1..Len(layer)
    BY EntryAt
  <2>2. layer[k].name # entry.name
    BY <1>2, <1>7, <2>1 DEF IsThere, Written, File, Link
  <2>3. layer[k].name \in Names
    BY <2>1, EntryAt
  <2>4. QED
    BY <1>1, <1>5, <1>7, <2>2, <2>3, StillThere
<1>8. QED
  BY <1>1, <1>2, <1>5, <1>6, <1>7, WholeStays

(* A directory that was made is there, or a link took its name: then it took that of this *)
(* entry as well.                                                                         *)
LEMMA WholeDirs == ASSUME ExtractPart, WholeSoFar, MakeDir PROVE WholeSoFar'
<1>1. /\ xpc = "entry" /\ at <= Len(layer) /\ entry.type = "dir" /\ layer' = layer
      /\ layer[at] = entry
  BY DEF MakeDir, AtEntry, archive, entry
<1>2. /\ dest \in [Names -> Things] /\ entry.name \in Names /\ at \in Nat /\ at >= 1
      /\ dest[entry.name] \in Things
  BY <1>1, EntryAt DEF entry
<1>3. CASE entry.name \in createdDirs /\ NextEntry /\ UNCHANGED <<createdDirs, dest>>
  <2>1. PICK i \in 1..at - 1 : layer[i].type = "dir" /\ layer[i].name = entry.name
    BY <1>1, <1>3 DEF WholeSoFar
  <2>2. ASSUME ~LinkTook(at, at) PROVE IsThere(at)
    <3>1. ~LinkTook(i, at - 1)
      <4> SUFFICES ASSUME LinkTook(i, at - 1) PROVE FALSE
        OBVIOUS
      <4>1. PICK h \in 1..i, j \in 2..at - 1 :
              /\ h = i \/ (layer[i].type = "dir" /\ layer[h].type = "dir" /\ layer[h].name = layer[i].name)
              /\ h < j /\ layer[j].type = "link"
              /\ layer[i].name \in {layer[j].name, TmpLink[layer[j].name]}
        BY DEF LinkTook
      <4>2. h \in 1..at /\ j \in 2..at
        BY <1>2
      <4>3. layer[at].type = "dir" /\ layer[h].type = "dir" /\ layer[h].name = layer[at].name
        BY <1>1, <2>1, <4>1
      <4>4. layer[at].name \in {layer[j].name, TmpLink[layer[j].name]}
        BY <1>1, <2>1, <4>1
      <4>5. LinkTook(at, at)
        BY <4>1, <4>2, <4>3, <4>4 DEF LinkTook
      <4>6. QED
        BY <2>2, <4>5
    <3>2. Written(i)
      BY <2>1 DEF Written
    <3>3. IsThere(i)
      BY <1>1, <3>1, <3>2 DEF WholeSoFar
    <3>4. QED
      BY <1>1, <2>1, <3>3 DEF IsThere
  <2>3. \A k : (k = at => ~LinkTook(k, at)) /\ (k = at \/ IsThere(k)) => IsThere(k)'
    BY <1>1, <1>3, <2>2, StillThere
  <2>4. QED
    BY <1>1, <1>3, <2>3, WholeGoesOn DEF NextEntry
<1>4. CASE /\ dest[entry.name].type # "reg" /\ NextEntry
           /\ createdDirs' = createdDirs \cup {entry.name}
           /\ dest' = IF dest[entry.name] = Absent
                      THEN [dest EXCEPT ![entry.name] = Dir(at)] ELSE dest
  <2>1. /\ \A n \in Names : n # entry.name => dest'[n] = dest[n]
        /\ dest'[entry.name].type \in {"dir", "link"}
    <3>1. CASE dest[entry.name] = Absent
      BY <1>2, <1>4, <3>1 DEF Dir
    <3>2. CASE dest[entry.name] # Absent
      <4>1. dest[entry.name].type # "none"
        BY <1>2, <3>2 DEF WholeSoFar
      <4>2. QED
        BY <1>2, <1>4, <3>2, <4>1 DEF Things
    <3>3. QED
      BY <3>1, <3>2
  <2>2. ASSUME NEW k, k = at PROVE IsThere(k)'
    BY <1>1, <2>1, <2>2 DEF IsThere
  <2>3. ASSUME NEW k \in 1..at, Written(k), IsThere(k) PROVE IsThere(k)'
    <3>1. layer[k].name \in Names
      BY <1>1, EntryAt
    <3>2. CASE layer[k].name # entry.name
      BY <1>1, <2>1, <2>3, <3>1, <3>2, StillThere
    <3>3. CASE layer[k].name = entry.name
      <4>1. dest[entry.name] # Absent
        BY <2>3, <3>3 DEF IsThere, Written, File, Link, Absent
      <4>2. QED
        BY <1>1, <1>4, <2>3, <4>1, StillThere
    <3>4. QED
      BY <3>2, <3>3
  <2>4. QED
    BY <1>1, <1>4, <2>1, <2>2, <2>3, WholeGoesOn DEF NextEntry
<1>5. CASE Fails /\ UNCHANGED <<createdDirs, dest>>
  BY <1>1, <1>5, WholeStays DEF Fails
<1>6. QED
  BY <1>3, <1>4, <1>5 DEF MakeDir

(* A link takes its name and the one it is made under from the entries before it. *)
LEMMA WholeLinks == ASSUME ExtractPart, WholeSoFar, MakeLink PROVE WholeSoFar'
<1> DEFINE tmpName == TmpLink[entry.name]
           cleared == IF tmpName = NoName THEN dest ELSE [dest EXCEPT ![tmpName] = Absent]
<1>1. /\ xpc = "entry" /\ at <= Len(layer) /\ entry.type = "link"
      /\ UNCHANGED <<layer, createdDirs>> /\ layer[at] = entry
      /\ \/ dest' = [cleared EXCEPT ![entry.name] = Link(at)] /\ xpc' = "entry" /\ at' = at + 1
         \/ dest' = cleared /\ xpc' = "failed" /\ at' = at
  BY DEF MakeLink, AtEntry, NextEntry, Fails, archive, extractState, entry
<1>2. dest \in [Names -> Things] /\ entry.name \in Names /\ at \in Nat /\ at >= 1
  BY <1>1, EntryAt
<1>3. tmpName \in Names \cup {NoName} /\ NoName \notin Names
  BY <1>2, TmpLinkAssumption
<1>4. /\ DOMAIN cleared = Names
      /\ \A n \in Names : n # tmpName => cleared[n] = dest[n]
      /\ tmpName \in Names => cleared[tmpName] = Absent
  BY <1>2, <1>3
<1> HIDE DEF cleared, tmpName
<1>5. Link(at).type = "link" /\ Absent.type = "none"
  BY DEF Link, Absent
<1>6. \A n \in Names : dest'[n].type = "none" => dest'[n] = dest[n] \/ dest'[n] = Absent
  BY <1>1, <1>2, <1>4, <1>5
<1>7. CASE dest' = [cleared EXCEPT ![entry.name] = Link(at)] /\ xpc' = "entry" /\ at' = at + 1
  <2>1. ASSUME NEW k, k = at PROVE IsThere(k)'
    <3>1. layer'[k] = entry /\ dest'[entry.name] = Link(k)
      BY <1>1, <1>2, <1>4, <1>7, <2>1
    <3>2. QED
      BY <1>1, <3>1 DEF IsThere, Link
  <2>2. ASSUME NEW k \in 1..at, k # at, ~LinkTook(k, at), IsThere(k) PROVE IsThere(k)'
    <3>1. layer[k].name \notin {entry.name, tmpName}
      <4>1. k \in 1..k /\ at \in 2..at /\ k < at
        BY <1>2, <2>2
      <4>2. layer[at].type = "link" /\ {layer[at].name, TmpLink[layer[at].name]} = {entry.name, tmpName}
        BY <1>1 DEF tmpName
      <4>3. QED
        BY <2>2, <4>1, <4>2 DEF LinkTook
    <3>2. layer[k].name \in Names
      BY <1>1, EntryAt
    <3>3. dest'[layer[k].name] = dest[layer[k].name]
      BY <1>2, <1>4, <1>7, <3>1, <3>2
    <3>4. QED
      BY <1>1, <2>2, <3>3, StillThere
  <2>3. QED
    BY <1>1, <1>6, <1>7, <2>1, <2>2, WholeGoesOn
<1>8. CASE dest' = cleared /\ xpc' = "failed" /\ at' = at
  <2>1. \A n \in Names : dest'[n].type = "none" => dest'[n] = Absent
    BY <1>6 DEF WholeSoFar
  <2>2. Absent' = Absent
    BY DEF Absent
  <2>3. QED
    BY <1>8, <2>1, <2>2 DEF WholeSoFar
<1>9. QED
  BY <1>1, <1>7, <1>8

LEMMA WholeReturned == ASSUME ExtractPart, WholeSoFar, ExtractReturns PROVE WholeSoFar'
<1>1. /\ xpc' = "idle" /\ createdDirs' = {}
      /\ dest' = [n \in Names |-> [dest[n] EXCEPT !.entry = 0]]
  BY DEF ExtractReturns
<1>2. ASSUME NEW n \in Names, dest'[n].type = "none" PROVE dest'[n] = Absent
  <2>1. dest[n] \in Things /\ dest'[n] = [dest[n] EXCEPT !.entry = 0]
    BY <1>1, EntryAt
  <2>2. dest[n].type = "none"
    BY <1>2, <2>1 DEF Things
  <2>3. dest[n] = Absent
    BY <2>2 DEF WholeSoFar
  <2>4. QED
    BY <2>1, <2>3 DEF Absent
<1>3. Absent' = Absent
  BY DEF Absent
<1>4. QED
  BY <1>1, <1>2, <1>3 DEF WholeSoFar

LEMMA WholeStarted ==
  ASSUME ExtractPart, WholeSoFar, NEW l \in Seq(Entry), StartExtract(l) PROVE WholeSoFar'
<1>1. /\ xpc = "idle" /\ xpc' = "entry" /\ at' = 1 /\ UNCHANGED <<createdDirs, dest>>
  BY DEF StartExtract, extractState
<1>2. createdDirs' = {} /\ Absent' = Absent /\ 1..at' - 1 = {}
  BY <1>1 DEF WholeSoFar, Absent
<1>3. QED
  BY <1>1, <1>2 DEF WholeSoFar

LEMMA WholeExtracts == ASSUME ExtractPart, WholeSoFar, ExtractStep PROVE WholeSoFar'
BY WholeQuiet, WholeSkips, WholeFile, WholeCreates, WholeCopies, WholeDirs, WholeLinks, WholeReturned
   DEF ExtractStep

LEMMA WholeKept == ASSUME WholeSoFar, UNCHANGED extractVars PROVE WholeSoFar'
<1>1. UNCHANGED <<layer, intact, xpc, at, createdDirs, dest>>
  BY DEF extractVars, archive, extractState
<1>2. QED
  BY <1>1 DEF WholeSoFar, Absent, Written, LinkTook, IsThere, File, Link

LEMMA WholeBegins == ExtractInit => WholeSoFar
BY DEF ExtractInit, WholeSoFar

LEMMA WholeStep == ASSUME ArchiveInv, WholeSoFar, ArchiveNext PROVE WholeSoFar'
<1>1. BuildPart /\ ExtractPart
  BY Parts
<1>2. CASE BeginBuild
  <2>1. /\ xpc = "idle" /\ dest' = [n \in Names |-> Absent]
        /\ UNCHANGED <<layer, intact, limits, xpc, at, fileCount, totalSize, createdDirs>>
    BY <1>2 DEF BeginBuild, archive, extractState
  <2>2. QED
    BY <2>1 DEF WholeSoFar, Absent
<1>3. CASE Build
  BY <1>3, WholeKept DEF Build, Resting
<1>4. CASE PullBuilt \/ PullForeign
  <2>1. PICK l \in Seq(Entry) : StartExtract(l)
    BY <1>1, <1>4, BuiltLayer, ForeignAssumption DEF PullBuilt, PullForeign
  <2>2. QED
    BY <1>1, <2>1, WholeStarted
<1>5. CASE Extract
  BY <1>1, <1>5, WholeExtracts DEF Extract
<1>6. QED
  BY <1>2, <1>3, <1>4, <1>5 DEF ArchiveNext

-------------------------------------------------------------------------------
(* The limits *)

Sizing(l) == [i \in 1..Len(l) |-> l[i].size]

LEMMA BytesAre ==
  ASSUME NEW l \in Seq(Entry), NEW S \in SUBSET (1..Len(l))
  PROVE  /\ IsFiniteSet(S) /\ Cardinality(S) \in Nat
         /\ Integral(Sizing(l), S) /\ Bytes(l, S) = SumOver(Sizing(l), S) /\ Bytes(l, S) \in Int
<1>1. IsFiniteSet(S) /\ Cardinality(S) \in Nat
  <2>1. IsFiniteSet(1..Len(l))
    BY FS_Interval
  <2>2. QED
    BY <2>1, FS_Subset, FS_CardinalityType
<1>2. ASSUME NEW i \in S PROVE Sizing(l)[i] = l[i].size /\ l[i].size \in Int
  <2>1. l[i] \in Entry
    BY ElementOfSeq
  <2>2. QED
    BY <2>1, MaxIntAssumption DEF Sizing, Entry, Sizes
<1>3. Integral(Sizing(l), S)
  BY <1>1, <1>2 DEF Integral
<1>4. PICK g : SumsUp(g, Sizing(l), S)
  BY <1>3, SumExists
<1>5. \A s \in SUBSET S : s # {} => Sizing(l)[Chosen(s)] = l[Chosen(s)].size
  BY <1>2 DEF Chosen
<1>6. g = [s \in SUBSET S |-> IF s = {} THEN 0 ELSE l[Chosen(s)].size + g[s \ {Chosen(s)}]]
  BY <1>4, <1>5 DEF SumsUp
<1>7. PICK f : /\ f = [s \in SUBSET S |-> IF s = {} THEN 0 ELSE l[Chosen(s)].size + f[s \ {Chosen(s)}]]
               /\ Bytes(l, S) = f[S]
  BY <1>6 DEF Bytes, MapThenSumSet, MapThenFoldSet, Chosen
<1>8. SumsUp(f, Sizing(l), S)
  BY <1>5, <1>7 DEF SumsUp
<1>9. QED
  BY <1>1, <1>3, <1>7, <1>8, SumIs, SumType

LEMMA BytesMore ==
  ASSUME NEW l \in Seq(Entry), NEW T \in SUBSET (1..Len(l)), \A k \in T : l[k].size \in Nat,
         NEW S \in SUBSET T
  PROVE  Bytes(l, S) <= Bytes(l, T) /\ Cardinality(S) <= Cardinality(T) /\ Bytes(l, S) \in Nat
<1>1. Bytes(l, S) = SumOver(Sizing(l), S) /\ Bytes(l, T) = SumOver(Sizing(l), T)
  BY BytesAre
<1>2. IsFiniteSet(T) /\ \A k \in T : Sizing(l)[k] \in Nat
  BY BytesAre DEF Sizing
<1>3. IsFiniteSet(S) /\ \A k \in S : Sizing(l)[k] \in Nat
  BY <1>2, FS_Subset
<1>4. SumOver(Sizing(l), S) \in Nat
  BY <1>3, SumNat
<1>5. SumOver(Sizing(l), S) <= SumOver(Sizing(l), T)
  BY <1>2, SumMonotone
<1>6. Cardinality(S) <= Cardinality(T)
  BY <1>2, FS_Subset
<1>7. QED
  BY <1>1, <1>4, <1>5, <1>6

LEMMA RegularNext ==
  ASSUME NEW l \in Seq(Entry), NEW k \in 1..Len(l)
  PROVE  /\ Regular(l, k - 1) \in SUBSET (1..Len(l)) /\ Regular(l, k) \in SUBSET (1..Len(l))
         /\ k \notin Regular(l, k - 1)
         /\ l[k].type # "reg" => Regular(l, k) = Regular(l, k - 1)
         /\ l[k].type = "reg" => Regular(l, k) = Regular(l, k - 1) \cup {k}
<1>1. 1..k = 1..k - 1 \cup {k} /\ k \notin 1..k - 1 /\ 1..k \subseteq 1..Len(l)
  OBVIOUS
<1>2. QED
  BY <1>1 DEF Regular

(* One more file. *)
LEMMA BytesNext ==
  ASSUME NEW l \in Seq(Entry), NEW k \in 1..Len(l), l[k].type = "reg"
  PROVE  /\ Bytes(l, Regular(l, k)) = Bytes(l, Regular(l, k - 1)) + l[k].size
         /\ Cardinality(Regular(l, k)) = Cardinality(Regular(l, k - 1)) + 1
<1> DEFINE S == Regular(l, k - 1)
           T == Regular(l, k)
<1>1. S \in SUBSET (1..Len(l)) /\ T \in SUBSET (1..Len(l)) /\ k \notin S /\ T = S \cup {k}
  BY RegularNext
<1> HIDE DEF S, T
<1>2. Sizing(l)[k] = l[k].size /\ l[k].size \in Int
  <2>1. l[k] \in Entry
    BY ElementOfSeq
  <2>2. QED
    BY <2>1, MaxIntAssumption DEF Sizing, Entry, Sizes
<1>3. /\ IsFiniteSet(S) /\ Integral(Sizing(l), S)
      /\ Bytes(l, S) = SumOver(Sizing(l), S) /\ Bytes(l, T) = SumOver(Sizing(l), T)
  BY <1>1, BytesAre
<1>4. SumOver(Sizing(l), S \cup {k}) = SumOver(Sizing(l), S) + Sizing(l)[k]
  <2> DEFINE w == Sizing(l)
  <2>1. k \notin S /\ Integral(w, S) /\ w[k] \in Int
    BY <1>1, <1>2, <1>3
  <2> HIDE DEF w
  <2>2. SumOver(w, S \cup {k}) = SumOver(w, S) + w[k]
    BY <2>1, SumAdd
  <2>3. QED
    BY <2>2 DEF w
<1>5. SumOver(Sizing(l), T) = SumOver(Sizing(l), S \cup {k})
  BY <1>1, Zenon
<1>6. Cardinality(S \cup {k}) = Cardinality(S) + 1
  BY <1>1, <1>3, FS_AddElement
<1>7. Cardinality(T) = Cardinality(S \cup {k})
  BY <1>1, Zenon
<1>8. QED
  BY <1>2, <1>3, <1>4, <1>5, <1>6, <1>7 DEF S, T

LimitPart == LimitsRespected /\ Counted

LEMMA NoBytes == ASSUME NEW l PROVE Bytes(l, {}) = 0
<1>1. \E g : g = [s \in SUBSET {} |-> IF s = {} THEN 0 ELSE l[Chosen(s)].size + g[s \ {Chosen(s)}]]
  <2>1. SUBSET {} = {{}}
    OBVIOUS
  <2>2. [s \in SUBSET {} |-> 0] =
          [s \in SUBSET {} |-> IF s = {} THEN 0
                               ELSE l[Chosen(s)].size + [t \in SUBSET {} |-> 0][s \ {Chosen(s)}]]
    BY <2>1
  <2>3. QED
    BY <2>2
<1>2. PICK f : /\ f = [s \in SUBSET {} |-> IF s = {} THEN 0 ELSE l[Chosen(s)].size + f[s \ {Chosen(s)}]]
               /\ Bytes(l, {}) = f[{}]
  BY <1>1 DEF Bytes, MapThenSumSet, MapThenFoldSet, Chosen
<1>3. QED
  BY <1>2

LEMMA NothingAllowed ==
  ASSUME limits \in Limits \cup {NoLimits}
  PROVE  FilesAllowed(0) /\ TotalAllowed(0)
<1>1. limits \in [MaxFiles : Nat, MaxFileSize : Nat, MaxTotalSize : Nat]
  BY LimitsAssumption DEF NoLimits
<1>2. QED
  BY <1>1 DEF FilesAllowed, TotalAllowed

(* Nothing is begun yet. *)
LEMMA NothingBegun ==
  ASSUME at = 1, xpc \in {"idle", "entry"}, fileCount = 0, totalSize = 0,
         limits \in Limits \cup {NoLimits}
  PROVE  LimitPart
<1>1. Begun = {}
  BY DEF Begun, Regular
<1>2. Cardinality(Begun) = 0 /\ Bytes(layer, Begun) = 0
  BY <1>1, NoBytes, FS_EmptySet, Zenon
<1>3. LimitsRespected
  BY <1>1, <1>2, NothingAllowed DEF LimitsRespected
<1>4. QED
  BY <1>2, <1>3 DEF LimitPart, Counted

LEMMA NothingBegunNext ==
  ASSUME at' = 1, xpc' \in {"idle", "entry"}, fileCount' = 0, totalSize' = 0,
         limits' \in Limits \cup {NoLimits}
  PROVE  LimitPart'
<1>1. Begun' = {}
  BY DEF Begun, Regular
<1>2. Bytes(layer', {}) = 0 /\ Cardinality({}) = 0
  BY NoBytes, FS_EmptySet
<1>3. Bytes(layer', Begun') = Bytes(layer', {}) /\ Cardinality(Begun') = Cardinality({})
  BY <1>1, Zenon
<1>4. Cardinality(Begun)' = 0 /\ Bytes(layer, Begun)' = 0
  BY <1>2, <1>3
<1>5. limits' \in [MaxFiles : Nat, MaxFileSize : Nat, MaxTotalSize : Nat]
  BY LimitsAssumption DEF NoLimits
<1>6. LimitsRespected'
  BY <1>1, <1>4, <1>5 DEF LimitsRespected, FilesAllowed, TotalAllowed
<1>7. QED
  BY <1>4, <1>6 DEF LimitPart, Counted

LEMMA BegunHere ==
  ASSUME ExtractPart
  PROVE  /\ layer \in Seq(Entry) /\ Begun \in SUBSET (1..Len(layer))
         /\ fileCount \in Nat /\ totalSize \in 0..MaxInt64 /\ limits \in Limits \cup {NoLimits}
         /\ limits.MaxFiles \in Nat /\ limits.MaxFileSize \in Nat /\ limits.MaxTotalSize \in Nat
<1>1. /\ layer \in Seq(Entry) /\ at \in 1..Len(layer) + 1 /\ Len(layer) \in Nat
      /\ xpc = "copy" => at <= Len(layer)
      /\ fileCount \in Nat /\ totalSize \in 0..MaxInt64 /\ limits \in Limits \cup {NoLimits}
  BY DEF ExtractPart, ExtractTypeOK, ExtractInOrder
<1>2. 1..(IF xpc = "copy" THEN at ELSE at - 1) \subseteq 1..Len(layer)
  BY <1>1
<1>3. limits \in [MaxFiles : Nat, MaxFileSize : Nat, MaxTotalSize : Nat]
  BY <1>1, LimitsAssumption DEF NoLimits
<1>4. QED
  BY <1>1, <1>2, <1>3 DEF Begun, Regular

(* A step that counts and begins nothing. *)
LEMMA LimitsStay ==
  ASSUME LimitPart, UNCHANGED <<layer, limits, fileCount, totalSize, Begun>>,
         xpc' # "idle", xpc = "failed" => xpc' = "failed",
         xpc' = "limits" => at <= Len(layer) /\ entry.type = "reg" /\ ~WithinLimits /\ at' = at
  PROVE  LimitPart'
<1>1. LimitsRespected'
  BY DEF LimitPart, LimitsRespected, FilesAllowed, SizeAllowed, TotalAllowed
<1>2. xpc' # "failed" => fileCount' = Cardinality(Begun)' /\ totalSize' = Bytes(layer, Begun)'
  BY DEF LimitPart, Counted
<1>3. xpc' = "limits" => (at <= Len(layer) /\ entry.type = "reg" /\ ~WithinLimits)'
  BY DEF entry, WithinLimits, FilesAllowed, SizeAllowed, TotalAllowed, Overflows, Plus
<1>4. QED
  BY <1>1, <1>2, <1>3 DEF LimitPart, Counted

(* A step that gives up, with what it had begun or without the file it was at. *)
LEMMA LimitsFail ==
  ASSUME ExtractPart, LimitPart, UNCHANGED <<layer, limits>>, xpc' = "failed", at' = at
  PROVE  LimitPart'
<1>1. Begun' \in SUBSET Begun
  BY EntryAt DEF Begun, Regular
<1>2. \A k \in Begun : layer[k].size \in Nat /\ SizeAllowed(layer[k].size)
  <2> SUFFICES ASSUME NEW k \in Begun PROVE layer[k].size \in Nat /\ SizeAllowed(layer[k].size)
    OBVIOUS
  <2>1. layer[k] \in Entry /\ SizeAllowed(layer[k].size)
    BY BegunHere, ElementOfSeq DEF LimitPart, LimitsRespected
  <2>2. QED
    BY <2>1, MaxIntAssumption DEF SizeAllowed, Entry, Sizes
<1> DEFINE S == Begun'
<1>3. S \in SUBSET (1..Len(layer)) /\ S \in SUBSET Begun
  BY <1>1, BegunHere
<1> HIDE DEF S
<1>4. /\ Bytes(layer, S) <= Bytes(layer, Begun) /\ Cardinality(S) <= Cardinality(Begun)
      /\ Bytes(layer, S) \in Int /\ Bytes(layer, Begun) \in Int
      /\ Cardinality(S) \in Nat /\ Cardinality(Begun) \in Nat
  BY <1>2, <1>3, BegunHere, BytesMore, BytesAre
<1>5. FilesAllowed(Cardinality(S)) /\ TotalAllowed(Bytes(layer, S))
  BY <1>4, BegunHere DEF LimitPart, LimitsRespected, FilesAllowed, TotalAllowed
<1>6. /\ FilesAllowed(Cardinality(Begun))' /\ TotalAllowed(Bytes(layer, Begun))'
      /\ \A k \in Begun' : SizeAllowed(layer[k].size)'
  BY <1>2, <1>3, <1>5 DEF FilesAllowed, TotalAllowed, SizeAllowed, S
<1>7. QED
  BY <1>6 DEF LimitPart, LimitsRespected, Counted

LEMMA LimitsCreate == ASSUME ExtractPart, LimitPart, CreateFile PROVE LimitPart'
<1>1. /\ xpc = "entry" /\ at <= Len(layer) /\ entry.type = "reg" /\ WithinLimits
      /\ UNCHANGED <<layer, limits>> /\ at' = at /\ xpc' \in {"failed", "copy"}
      /\ fileCount' = fileCount + 1 /\ totalSize' = Plus(totalSize, entry.size)
  BY DEF CreateFile, AtEntry, Fails, archive
<1>2. CASE xpc' = "failed"
  BY <1>1, <1>2, LimitsFail
<1>3. CASE xpc' = "copy"
  <2>1. /\ at \in 1..Len(layer) /\ layer \in Seq(Entry) /\ layer[at].type = "reg"
        /\ layer[at].size = entry.size
    BY <1>1, EntryHere, BegunHere DEF entry
  <2>2. Begun = Regular(layer, at - 1) /\ Begun' = Regular(layer, at)
    BY <1>1, <1>3 DEF Begun, Regular
  <2>3. /\ Bytes(layer, Regular(layer, at)) = Bytes(layer, Regular(layer, at - 1)) + entry.size
        /\ Cardinality(Regular(layer, at)) = Cardinality(Regular(layer, at - 1)) + 1
    BY <2>1, BytesNext
  <2>4. fileCount = Cardinality(Regular(layer, at - 1)) /\ totalSize = Bytes(layer, Regular(layer, at - 1))
    BY <1>1, <2>2 DEF LimitPart, Counted
  <2>5. entry.size \in 0..MaxInt64 /\ totalSize \in 0..MaxInt64 /\ totalSize + entry.size <= MaxInt64
    BY <1>1, LimitsKept, BegunHere, MaxIntAssumption DEF WithinLimits, Overflows
  <2>6. Plus(totalSize, entry.size) = totalSize + entry.size
    BY <2>5, PlusFits
  <2>7. /\ fileCount' = Cardinality(Regular(layer, at))
        /\ totalSize' = Bytes(layer, Regular(layer, at))
    BY <1>1, <2>3, <2>4, <2>6
  <2>8. FilesAllowed(fileCount') /\ TotalAllowed(totalSize')
    BY <1>1 DEF WithinLimits
  <2>9. ASSUME NEW k \in Regular(layer, at) PROVE SizeAllowed(layer[k].size)
    <3>1. CASE k = at
      BY <1>1, <2>1, <3>1 DEF WithinLimits
    <3>2. CASE k # at
      <4>1. k \in Regular(layer, at - 1)
        BY <2>1, <3>2, RegularNext
      <4>2. QED
        BY <2>2, <4>1 DEF LimitPart, LimitsRespected
    <3>3. QED
      BY <3>1, <3>2
  <2>10. /\ fileCount' = Cardinality(Begun)' /\ totalSize' = Bytes(layer, Begun)'
    BY <1>1, <2>2, <2>7
  <2>11. LimitsRespected'
    <3>1. FilesAllowed(Cardinality(Begun))' /\ TotalAllowed(Bytes(layer, Begun))'
      BY <1>1, <2>8, <2>10 DEF FilesAllowed, TotalAllowed
    <3>2. \A k \in Begun' : SizeAllowed(layer[k].size)'
      BY <1>1, <2>2, <2>9 DEF SizeAllowed
    <3>3. QED
      BY <3>1, <3>2 DEF LimitsRespected
  <2>12. QED
    BY <1>3, <2>10, <2>11 DEF LimitPart, Counted
<1>4. QED
  BY <1>1, <1>2, <1>3

(* A step to the next entry that is none of a file, or of one that is written. *)
LEMMA LimitsGoOn ==
  ASSUME ExtractPart, LimitPart, UNCHANGED <<layer, limits, fileCount, totalSize>>,
         at <= Len(layer), xpc' = "entry", at' = at + 1,
         xpc = "copy" \/ (xpc = "entry" /\ entry.type # "reg")
  PROVE  LimitPart'
<1>1. at \in 1..Len(layer) /\ layer \in Seq(Entry) /\ layer[at] = entry
  BY EntryHere, BegunHere DEF entry
<1>2. Begun' = Regular(layer, at)
  BY <1>1 DEF Begun, Regular
<1>3. Regular(layer, at) = Begun
  BY <1>1, RegularNext DEF Begun
<1>4. QED
  BY <1>2, <1>3, LimitsStay

LEMMA LimitsStep == ASSUME ExtractPart, LimitPart, ExtractStep PROVE LimitPart'
<1>1. CASE ExtractFails \/ RefuseEntry
  BY <1>1, LimitsFail DEF ExtractFails, RefuseEntry, Fails, archive
<1>2. CASE SkipEntry
  BY <1>2, LimitsGoOn DEF SkipEntry, AtEntry, NextEntry, archive, extractState
<1>3. CASE ExceedLimits
  <2>1. /\ xpc = "entry" /\ xpc' = "limits" /\ at' = at /\ at <= Len(layer) /\ entry.type = "reg"
        /\ ~WithinLimits /\ UNCHANGED <<layer, limits, fileCount, totalSize>>
    BY <1>3 DEF ExceedLimits, AtEntry, archive, extractState
  <2>2. Begun' = Begun
    BY <2>1 DEF Begun, Regular
  <2>3. QED
    BY <2>1, <2>2, LimitsStay
<1>4. CASE MakeDir
  <2>1. /\ at <= Len(layer) /\ xpc = "entry" /\ entry.type = "dir"
        /\ UNCHANGED <<layer, limits, fileCount, totalSize>>
        /\ NextEntry \/ Fails
    BY <1>4 DEF MakeDir, AtEntry, archive
  <2>2. QED
    BY <2>1, LimitsGoOn, LimitsFail DEF NextEntry, Fails
<1>5. CASE CreateFile
  BY <1>5, LimitsCreate
<1>6. CASE CopyChunk \/ EndOfArchive \/ CompareDigest
  <2>1. /\ UNCHANGED <<layer, limits, at, fileCount, totalSize>>
        /\ (xpc = "copy" /\ xpc' = "copy") \/ (xpc # "copy" /\ xpc # "failed" /\ xpc' \in {"compare", "ok", "failed"})
    BY <1>6 DEF CopyChunk, EndOfArchive, CompareDigest, archive, extractState
  <2>2. Begun' = Begun
    BY <2>1 DEF Begun, Regular
  <2>3. QED
    BY <2>1, <2>2, LimitsStay
<1>7. CASE FileWritten
  <2>1. at <= Len(layer)
    BY <1>7 DEF FileWritten, ExtractPart, ExtractInOrder
  <2>2. QED
    BY <1>7, <2>1, LimitsGoOn DEF FileWritten, NextEntry, archive, extractState
<1>8. CASE MakeLink
  <2>1. /\ at <= Len(layer) /\ xpc = "entry" /\ entry.type = "link"
        /\ UNCHANGED <<layer, limits, fileCount, totalSize>>
        /\ NextEntry \/ Fails
    BY <1>8 DEF MakeLink, AtEntry, archive, extractState
  <2>2. QED
    BY <2>1, LimitsGoOn, LimitsFail DEF NextEntry, Fails
<1>9. CASE ExtractReturns
  BY <1>9, NothingBegunNext DEF ExtractReturns
<1>10. QED
  BY <1>1, <1>2, <1>3, <1>4, <1>5, <1>6, <1>7, <1>8, <1>9 DEF ExtractStep

LEMMA LimitsUnchanged ==
  ASSUME LimitPart, UNCHANGED <<layer, limits, xpc, at, fileCount, totalSize, Begun>>
  PROVE  LimitPart'
<1>1. LimitsRespected'
  BY DEF LimitPart, LimitsRespected, FilesAllowed, SizeAllowed, TotalAllowed
<1>2. Counted'
  BY DEF LimitPart, Counted, entry, WithinLimits, FilesAllowed, SizeAllowed, TotalAllowed,
         Overflows, Plus
<1>3. QED
  BY <1>1, <1>2 DEF LimitPart

LEMMA LimitsBegin == ArchiveInit => LimitPart
  BY NothingBegun DEF ArchiveInit, ExtractInit

LEMMA LimitsHold == ASSUME ArchiveInv, LimitPart, [ArchiveNext]_archiveVars PROVE LimitPart'
<1>1. ExtractPart /\ BuildPart
  BY Parts
<1>2. CASE BeginBuild
  <2>1. /\ xpc = "idle" /\ xpc' = "idle" /\ UNCHANGED <<layer, limits, at, fileCount, totalSize>>
    BY <1>2 DEF BeginBuild, archive, extractState
  <2>2. Begun' = Begun
    BY <2>1 DEF Begun, Regular
  <2>3. QED
    BY <2>1, <2>2, LimitsUnchanged
<1>3. CASE Build \/ UNCHANGED archiveVars
  <2>1. UNCHANGED <<layer, limits, xpc, at, fileCount, totalSize>>
    BY <1>3 DEF Build, Resting, archiveVars, extractVars, archive, extractState
  <2>2. Begun' = Begun
    BY <2>1 DEF Begun, Regular
  <2>3. QED
    BY <2>1, <2>2, LimitsUnchanged
<1>4. CASE PullBuilt \/ PullForeign
  <2>1. PICK l : StartExtract(l)
    BY <1>4 DEF PullBuilt, PullForeign
  <2>2. /\ xpc = "idle" /\ xpc' = "entry" /\ at' = 1 /\ limits' \in Limits
        /\ UNCHANGED <<fileCount, totalSize>>
    BY <2>1 DEF StartExtract, extractState
  <2>3. QED
    BY <2>2, NothingBegunNext DEF LimitPart, Counted
<1>5. CASE Extract
  BY <1>1, <1>5, LimitsStep DEF Extract
<1>6. QED
  BY <1>2, <1>3, <1>4, <1>5 DEF ArchiveNext

(* Why ValidateExtraction refuses a table that Extract stopped at. *)
LEMMA StoppedInvalid == ASSUME ExtractPart, LimitPart, xpc = "limits", ValidLimits(layer) PROVE FALSE
<1> DEFINE files == Regular(layer, Len(layer))
           here  == Regular(layer, at)
           done  == Regular(layer, at - 1)
<1>1. /\ at \in 1..Len(layer) /\ layer \in Seq(Entry) /\ layer[at] = entry
      /\ layer[at].type = "reg" /\ ~WithinLimits
  BY EntryAt, BegunHere DEF LimitPart, Counted, entry
<1>2. /\ files \in SUBSET (1..Len(layer)) /\ here \in SUBSET files /\ at \in here
      /\ here \in SUBSET (1..Len(layer))
  BY <1>1 DEF Regular
<1>3. /\ Begun = done
      /\ fileCount = Cardinality(done) /\ totalSize = Bytes(layer, done)
  BY DEF LimitPart, Counted, Begun
<1>4. /\ Bytes(layer, here) = totalSize + entry.size
      /\ Cardinality(here) = fileCount + 1
  BY <1>1, <1>3, BytesNext
<1> HIDE DEF files, here, done
<1>5. /\ \A k \in files : SizeAllowed(layer[k].size) /\ Bytes(layer, Regular(layer, k)) <= MaxInt64
      /\ FilesAllowed(Cardinality(files)) /\ TotalAllowed(Bytes(layer, files))
  BY DEF ValidLimits, files
<1>6. \A k \in files : layer[k].size \in Nat
  <2> SUFFICES ASSUME NEW k \in files PROVE layer[k].size \in Nat
    OBVIOUS
  <2>1. layer[k] \in Entry /\ SizeAllowed(layer[k].size)
    BY <1>1, <1>2, <1>5, ElementOfSeq
  <2>2. QED
    BY <2>1, MaxIntAssumption DEF SizeAllowed, Entry, Sizes
<1>7. /\ Bytes(layer, here) <= Bytes(layer, files) /\ Cardinality(here) <= Cardinality(files)
      /\ Bytes(layer, here) \in Int /\ Bytes(layer, files) \in Int
      /\ Cardinality(here) \in Nat /\ Cardinality(files) \in Nat
  BY <1>1, <1>2, <1>6, BytesMore, BytesAre
<1>8. SizeAllowed(entry.size) /\ totalSize + entry.size <= MaxInt64 /\ entry.size \in Nat
  BY <1>1, <1>2, <1>4, <1>5, <1>6 DEF here
<1>9. /\ totalSize \in 0..MaxInt64 /\ fileCount \in Nat /\ MaxInt64 \in Nat
      /\ limits.MaxFiles \in Nat /\ limits.MaxTotalSize \in Nat
  BY BegunHere, MaxIntAssumption
<1>10. FilesAllowed(fileCount + 1)
  BY <1>4, <1>5, <1>7, <1>9 DEF FilesAllowed
<1>11. ~Overflows(totalSize, entry.size)
  BY <1>8, <1>9 DEF Overflows
<1>12. entry.size \in 0..MaxInt64
  BY <1>8, <1>9
<1>13. Plus(totalSize, entry.size) = totalSize + entry.size
  BY <1>8, <1>9, <1>12, PlusFits
<1>14. TotalAllowed(totalSize + entry.size)
  BY <1>4, <1>5, <1>7, <1>9 DEF TotalAllowed
<1>15. TotalAllowed(Plus(totalSize, entry.size))
  BY <1>13, <1>14
<1>16. QED
  BY <1>1, <1>8, <1>10, <1>11, <1>15 DEF WithinLimits

(* And why it takes one that Extract got through. *)
LEMMA PassedValid ==
  ASSUME ExtractPart, LimitPart, xpc = "ok", at = Len(layer) + 1
  PROVE  ValidLimits(layer)
<1> DEFINE files == Regular(layer, Len(layer))
<1>1. layer \in Seq(Entry) /\ Len(layer) \in Nat /\ files \in SUBSET (1..Len(layer))
  BY BegunHere DEF Regular
<1>2. Begun = files
  BY <1>1 DEF Begun
<1> HIDE DEF files
<1>3. totalSize = Bytes(layer, files) /\ totalSize \in 0..MaxInt64 /\ MaxInt64 \in Nat
  BY <1>2, BegunHere, MaxIntAssumption DEF LimitPart, Counted
<1>4. /\ \A k \in files : SizeAllowed(layer[k].size)
      /\ FilesAllowed(Cardinality(files)) /\ TotalAllowed(Bytes(layer, files))
  BY <1>2 DEF LimitPart, LimitsRespected
<1>5. \A k \in files : layer[k].size \in Nat
  <2> SUFFICES ASSUME NEW k \in files PROVE layer[k].size \in Nat
    OBVIOUS
  <2>1. layer[k] \in Entry /\ SizeAllowed(layer[k].size)
    BY <1>1, <1>4, ElementOfSeq
  <2>2. QED
    BY <2>1, MaxIntAssumption DEF SizeAllowed, Entry, Sizes
<1>6. ASSUME NEW k \in files PROVE Bytes(layer, Regular(layer, k)) <= MaxInt64
  <2> DEFINE S == Regular(layer, k)
  <2>1. S \in SUBSET files
    BY <1>1 DEF Regular, files
  <2> HIDE DEF S
  <2>2. Bytes(layer, S) <= Bytes(layer, files) /\ Bytes(layer, S) \in Nat
    BY <1>1, <1>5, <2>1, BytesMore
  <2>3. QED
    BY <1>3, <2>2 DEF S
<1>7. QED
  BY <1>4, <1>6 DEF ValidLimits, files

-------------------------------------------------------------------------------
(* What the model of archives keeps, whatever fails and however the tree changes: the   *)
(* stream that the writer has sent is a prefix of an archive of the tree, and Extract   *)
(* fills only a file that it made.                                                      *)
THEOREM ArchiveInvariant == ArchiveSpec => []ArchiveInv
<1>1. ArchiveInv /\ [ArchiveNext]_archiveVars => ArchiveInv'
  BY ArchiveStep, ArchiveKept
<1>2. QED
  BY <1>1, ArchiveBegins, PTL DEF ArchiveSpec

(* A blob that Build returns (build.go:135) has every entry of the tree with all the    *)
(* bytes its header says.                                                               *)
THEOREM AlwaysWhole == ArchiveSpec => []BuiltWhole
<1>1. ArchiveInv => BuiltWhole
  BY ReturnedIsWhole, Parts
<1>2. QED
  BY <1>1, ArchiveInvariant, PTL

(* Build removes its temporary file on every way out but the one that returns it. *)
THEOREM AlwaysRemoved == ArchiveSpec => []NoTempLeft
<1>1. ArchiveInv => NoTempLeft
  BY DEF ArchiveInv
<1>2. QED
  BY <1>1, ArchiveInvariant, PTL

(* Extract writes to no file that it did not make for the entry it is at (extract.go:201), *)
(* except that a link takes the place of what has its names.                               *)
THEOREM NothingOverwritten == ArchiveSpec => NoOverwrite
<1>1. ArchiveInv /\ [ArchiveNext]_archiveVars =>
        [\A n \in Names :
           (dest[n].type = "reg" /\ dest'[n] # dest[n] /\ xpc' # "idle") =>
             \/ dest[n].entry = at
             \/ entry.type = "link" /\ n \in {entry.name, TmpLink[entry.name]}]_archiveVars
  BY ArchiveStep DEF Spares
<1>2. QED
  BY <1>1, ArchiveInvariant, PTL DEF ArchiveSpec, NoOverwrite

(* A pull that succeeds (pull.go:110) has extracted the bytes of the descriptor, and has  *)
(* left every file whole and every directory and link in place, but for the names that a  *)
(* later link of the same archive took (extract.go:238): for every layer, with names that *)
(* repeat and with files that an earlier extraction left.                                 *)
THEOREM PulledWhole == ArchiveSpec => []ExtractedWhole
<1>1. ArchiveInit => WholeSoFar
  BY WholeBegins DEF ArchiveInit
<1>2. ArchiveInv /\ WholeSoFar /\ [ArchiveNext]_archiveVars => WholeSoFar'
  BY WholeStep, WholeKept DEF archiveVars
<1>3. ArchiveInv /\ WholeSoFar => ExtractedWhole
  <2> SUFFICES ASSUME ArchiveInv, WholeSoFar, xpc = "ok" PROVE ExtractedWhole
    BY DEF ExtractedWhole
  <2>1. intact /\ at - 1 = Len(layer)
    BY EntryAt, Parts DEF WholeSoFar
  <2>2. \A k \in 1..at - 1 : Written(k) /\ ~LinkTook(k, at - 1) => IsThere(k)
    BY DEF WholeSoFar
  <2>3. QED
    BY <2>1, <2>2 DEF ExtractedWhole, Displaced
<1>4. QED
  BY <1>1, <1>2, <1>3, ArchiveInvariant, PTL DEF ArchiveSpec

(* What Extract has begun to write stays within the limits of the call (extract.go:121),  *)
(* added up without a width: an int64 total never wraps, whatever sizes the headers say.  *)
THEOREM LimitsNeverExceeded == ArchiveSpec => []LimitsRespected
<1>1. ArchiveInv /\ LimitPart /\ [ArchiveNext]_archiveVars => LimitPart'
  BY LimitsHold
<1>2. LimitPart => LimitsRespected
  BY DEF LimitPart
<1>3. QED
  BY <1>1, <1>2, LimitsBegin, ArchiveInvariant, PTL DEF ArchiveSpec

(* Extract, which looks at one entry after the other, and ValidateExtraction, which adds  *)
(* up the table of contents first (safepath.go:46), agree on every layer: the one stops   *)
(* for the limits at no layer that the other takes, and gets through none it refuses.     *)
THEOREM LimitsOfTable == ArchiveSpec => []LimitsAgree
<1>1. ArchiveInv /\ LimitPart /\ [ArchiveNext]_archiveVars => LimitPart'
  BY LimitsHold
<1>2. ArchiveInit => WholeSoFar
  BY WholeBegins DEF ArchiveInit
<1>3. ArchiveInv /\ WholeSoFar /\ [ArchiveNext]_archiveVars => WholeSoFar'
  BY WholeStep, WholeKept DEF archiveVars
<1>4. ArchiveInv /\ WholeSoFar /\ LimitPart => LimitsAgree
  BY Parts, StoppedInvalid, PassedValid DEF LimitsAgree, WholeSoFar
<1>5. QED
  BY <1>1, <1>2, <1>3, <1>4, LimitsBegin, ArchiveInvariant, PTL DEF ArchiveSpec
===============================================================================
