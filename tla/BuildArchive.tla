------------------------------ MODULE BuildArchive ------------------------------
(***************************************************************************)
(* Builder.Build: one goroutine walks the source tree and writes tar       *)
(* entries into an unbuffered pipe, the caller's goroutine reads the pipe, *)
(* compresses into a temporary file and then waits for the other one's     *)
(* result.  The tree may change while it is walked.                        *)
(***************************************************************************)
EXTENDS Tar

CONSTANTS Tree,        \* a sequence: name and type of every entry, in the order of WalkDir
          Lengths,     \* the lengths a file may have, in chunks
          BuildFaults  \* what may fail: see BuildFaultKinds

BuildFaultKinds == {"read",     \* a directory or a file cannot be read, or the call is cancelled
                    "disk"}     \* the temporary file cannot be made, written or sought

ASSUME TreeAssumption == Tree \in Seq([name : Names, type : {"reg", "dir", "link"}])
ASSUME LengthsAssumption == 0 \in Lengths /\ Lengths \subseteq 0..MaxInt64
ASSUME BuildFaultsAssumption == BuildFaults \subseteq BuildFaultKinds

VARIABLES src,      \* src[k]: the length of entry k, 0 unless it is a regular file
          wpc,      \* writeTarToPipe
          next,     \* the entry it is at
          todo,     \* bytes its header announced that are not written yet
          read,     \* how far it has read the file
          pipe,     \* what a Write left for the reader: an item, or nothing
          ends,     \* which ends of the pipe are closed
          errCh,    \* the buffered result channel
          bpc,      \* Build
          tmp,      \* whether the temporary file exists
          blob      \* the entries in it

writerVars == <<wpc, next, todo, read, errCh>>
buildVars == <<src, writerVars, pipe, ends, bpc, tmp, blob>>

Nodes == 1..Len(Tree)
IsRegular(k) == Tree[k].type = "reg"
Lens(k) == IF IsRegular(k) THEN Lengths ELSE {0}

HeaderOf(k, n) == [name |-> Tree[k].name, type |-> Tree[k].type, size |-> n]

(* What one Write puts in the pipe. *)
Nothing == <<"nothing">>
Header(k, n) == <<"header", HeaderOf(k, n)>>
Chunk == <<"chunk">>
Trailer == <<"trailer">>

BuildTypeOK ==
  /\ src \in [Nodes -> Lengths] /\ \A k \in Nodes : src[k] \in Lens(k)
  /\ wpc \in {"none", "walk", "copy", "close", "fail", "ended"}
  /\ next \in 1..Len(Tree) + 1
  /\ todo \in Nat /\ read \in Nat
  /\ pipe \in {Nothing, Chunk, Trailer} \cup UNION {{Header(k, n) : n \in Lens(k)} : k \in Nodes}
  /\ ends \subseteq {"eof", "error", "reader"}
  /\ errCh \in {"empty", "ok", "error"}
  /\ bpc \in {"idle", "append", "abort", "wait", "built", "failed", "closed"}
  /\ tmp \in BOOLEAN
  /\ blob \in Seq([header : Entry, got : Nat])

BuildInit ==
  /\ src = [k \in Nodes |-> 0]
  /\ wpc = "none" /\ next = 1 /\ todo = 0 /\ read = 0 /\ errCh = "empty"
  /\ pipe = Nothing /\ ends = {}
  /\ bpc = "idle" /\ tmp = FALSE /\ blob = <<>>

(* Somebody writes to the tree. *)
EditSource ==
  /\ bpc # "idle"
  /\ \E k \in Nodes : \E n \in Lens(k) \ {src[k]} : src' = [src EXCEPT ![k] = n]
  /\ UNCHANGED <<writerVars, pipe, ends, bpc, tmp, blob>>

-------------------------------------------------------------------------------
(* Build, up to the pipe. *)

StartBuild ==
  /\ bpc = "idle"
  /\ src' \in {lens \in [Nodes -> Lengths] : \A k \in Nodes : lens[k] \in Lens(k)}
  /\ \/ /\ tmp' = TRUE
        /\ wpc' = "walk"
        /\ bpc' = "append"
     \/ /\ BuildFaults # {}      \* cancelled, or no temporary file
        /\ bpc' = "failed"
        /\ UNCHANGED <<tmp, wpc>>
  /\ UNCHANGED <<next, todo, read, errCh, pipe, ends, blob>>

-------------------------------------------------------------------------------
(* writeTarToPipe.  A Write puts its item in the pipe and returns when the reader took *)
(* it: the next step of the goroutine waits for that, or fails when the reader closed. *)

CanWrite == pipe = Nothing /\ "reader" \notin ends
Writes(item) == CanWrite /\ pipe' = item

(* A bug: what cannot be read is left out. *)
SkipUnreadable ==
  /\ wpc = "walk" /\ next <= Len(Tree) /\ "read" \in BuildFaults
  /\ next' = next + 1
  /\ UNCHANGED <<src, wpc, todo, read, errCh, pipe, ends, bpc, tmp, blob>>

(* The walk, the open and the copy of a file may fail, or the call is cancelled. *)
ReadFails ==
  /\ wpc \in {"walk", "copy"} /\ pipe = Nothing /\ "read" \in BuildFaults
  /\ wpc' = "fail"
  /\ UNCHANGED <<src, next, todo, read, errCh, pipe, ends, bpc, tmp, blob>>

(* Lstat, then the header with the length the file has now; the tar writer refuses a *)
(* header while the entry before it is short. *)
AddHeader ==
  /\ wpc = "walk" /\ next <= Len(Tree) /\ todo = 0
  /\ Writes(Header(next, src[next]))
  /\ todo' = src[next] /\ read' = 0
  /\ wpc' = "copy"
  /\ UNCHANGED <<src, next, errCh, ends, bpc, tmp, blob>>

(* copyFileToTar: to the end the file has when it is reached. *)
CopyFile ==
  /\ wpc = "copy" /\ read < src[next] /\ todo > 0
  /\ Writes(Chunk)
  /\ read' = read + 1 /\ todo' = todo - 1
  /\ UNCHANGED <<src, wpc, next, errCh, ends, bpc, tmp, blob>>

FileCopied ==
  /\ wpc = "copy" /\ read >= src[next] /\ pipe = Nothing
  /\ next' = next + 1
  /\ wpc' = "walk"
  /\ UNCHANGED <<src, todo, read, errCh, pipe, ends, bpc, tmp, blob>>

(* The tar writer refuses bytes past the announced length, and a header or a trailer *)
(* before it is reached. *)
LengthChanged ==
  /\ pipe = Nothing
  /\ \/ wpc = "copy" /\ read < src[next] /\ todo = 0
     \/ wpc = "walk" /\ todo > 0
  /\ wpc' = "fail"
  /\ UNCHANGED <<src, next, todo, read, errCh, pipe, ends, bpc, tmp, blob>>

(* tw.Close *)
CloseTar ==
  /\ wpc = "walk" /\ next > Len(Tree) /\ todo = 0
  /\ Writes(Trailer)
  /\ wpc' = "close"
  /\ UNCHANGED <<src, next, todo, read, errCh, ends, bpc, tmp, blob>>

(* A Write into a pipe whose reader is gone returns an error. *)
WriteRefused ==
  /\ wpc \in {"walk", "copy", "close"} /\ "reader" \in ends
  /\ wpc' = "fail"
  /\ pipe' = Nothing
  /\ UNCHANGED <<src, next, todo, read, errCh, ends, bpc, tmp, blob>>

(* The deferred close of the pipe, then the result. *)
EndWriter ==
  /\ \/ /\ wpc = "close" /\ pipe = Nothing
        /\ ends' = ends \cup {"eof"}
        /\ errCh' = "ok"
     \/ /\ wpc = "fail"
        /\ ends' = ends \cup {"error"}
        /\ errCh' = "error"
  /\ wpc' = "ended"
  /\ UNCHANGED <<src, next, todo, read, pipe, bpc, tmp, blob>>

Writer ==
  \/ ReadFails \/ AddHeader \/ CopyFile \/ FileCopied \/ LengthChanged
  \/ CloseTar \/ WriteRefused \/ EndWriter

-------------------------------------------------------------------------------
(* AppendTarLossLess: what is taken from the pipe goes to the temporary file. *)

Put(item) ==
  CASE item[1] = "header" -> Append(blob, [header |-> item[2], got |-> 0])
    [] item[1] = "chunk"  -> [blob EXCEPT ![Len(blob)].got = @ + 1]
    [] OTHER              -> blob

AppendItem ==
  /\ bpc = "append" /\ pipe # Nothing
  /\ blob' = Put(pipe)
  /\ pipe' = Nothing
  /\ UNCHANGED <<src, writerVars, ends, bpc, tmp>>

AppendEnds ==
  /\ bpc = "append" /\ pipe = Nothing /\ "eof" \in ends
  /\ bpc' = "wait"
  /\ UNCHANGED <<src, writerVars, pipe, ends, tmp, blob>>

(* The pipe reports the writer's error, or the disk is full; writer.Close may fail too. *)
AppendFails ==
  /\ bpc \in {"append", "wait"}
  /\ \/ bpc = "append" /\ pipe = Nothing /\ "error" \in ends
     \/ "disk" \in BuildFaults
  /\ bpc' = "abort"
  /\ UNCHANGED <<src, writerVars, pipe, ends, tmp, blob>>

(* A bug: the result is awaited without closing the reader's end. *)
AwaitWithoutClosing ==
  /\ bpc = "abort" /\ errCh # "empty"
  /\ tmp' = FALSE
  /\ bpc' = "failed"
  /\ UNCHANGED <<src, writerVars, pipe, ends, blob>>

(* pr.Close releases the writer, whose result is awaited before the file is removed. *)
CloseReader ==
  /\ bpc = "abort" /\ "reader" \notin ends
  /\ ends' = ends \cup {"reader"}
  /\ UNCHANGED <<src, writerVars, pipe, bpc, tmp, blob>>

(* A bug: the call returns the error and the file stays. *)
AbortAndKeep ==
  /\ bpc = "abort" /\ "reader" \in ends /\ errCh # "empty"
  /\ bpc' = "failed"
  /\ UNCHANGED <<src, writerVars, pipe, ends, tmp, blob>>

Abort ==
  /\ bpc = "abort" /\ "reader" \in ends /\ errCh # "empty"
  /\ tmp' = FALSE
  /\ bpc' = "failed"
  /\ UNCHANGED <<src, writerVars, pipe, ends, blob>>

(* The archive is closed: the writer's result decides, then the file is sought. *)
AwaitWriter ==
  /\ bpc = "wait" /\ errCh # "empty"
  /\ \/ /\ errCh = "ok"
        /\ bpc' = "built"
        /\ UNCHANGED tmp
     \/ /\ errCh = "error" \/ "disk" \in BuildFaults
        /\ bpc' = "failed"
        /\ tmp' = FALSE
  /\ UNCHANGED <<src, writerVars, pipe, ends, blob>>

(* Push closes the blob on every path, which removes the file. *)
CloseBlob ==
  /\ bpc = "built"
  /\ tmp' = FALSE
  /\ bpc' = "closed"
  /\ UNCHANGED <<src, writerVars, pipe, ends, blob>>

(* The caller has its answer; it may build again. *)
BuildReturns ==
  /\ bpc \in {"failed", "closed"}
  /\ wpc \in {"none", "ended"}
  /\ src' = [k \in Nodes |-> 0]
  /\ wpc' = "none" /\ next' = 1 /\ todo' = 0 /\ read' = 0 /\ errCh' = "empty"
  /\ pipe' = Nothing /\ ends' = {}
  /\ bpc' = "idle" /\ blob' = <<>>
  /\ UNCHANGED tmp

Compressor ==
  \/ AppendItem \/ AppendEnds \/ AppendFails
  \/ CloseReader \/ Abort \/ AwaitWriter \/ CloseBlob
===============================================================================
