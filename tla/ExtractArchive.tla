----------------------------- MODULE ExtractArchive -----------------------------
(***************************************************************************)
(* extractWithDigest of a pull: Extract reads the entries of a layer one   *)
(* by one, checks the limits and writes files, directories and symbolic    *)
(* links into the destination; when it is through, the digest of what was  *)
(* read is compared.  What a failed call wrote stays in the destination.   *)
(***************************************************************************)
EXTENDS Tar, FiniteSets, FiniteSetsExt

CONSTANTS Limits,           \* the core.ExtractLimits that calls are made with, 0 for none
          ExtractFaults    \* what may fail: see ExtractFaultKinds

ExtractFaultKinds == {"read",     \* the stream breaks, is malformed, or the call is cancelled
                      "disk",     \* the destination cannot be written
                      "wrong"}    \* the bytes are not those of the digest, yet a tar archive

ASSUME LimitsAssumption == Limits \subseteq [MaxFiles : Nat, MaxFileSize : Nat, MaxTotalSize : Nat]
ASSUME ExtractFaultsAssumption == ExtractFaults \subseteq ExtractFaultKinds

VARIABLES layer,      \* the entries of the archive
          intact,     \* whether its bytes have the digest of the descriptor
          limits,
          xpc,
          at,         \* the entry Extract is at
          fileCount, totalSize,    \* extractState
          createdDirs,
          dest        \* the destination directory

extractState == <<fileCount, totalSize, createdDirs>>
archive == <<layer, intact, limits>>
extractVars == <<archive, xpc, at, extractState, dest>>

(* A name of the destination; entry is the one it was made from, 0 for an earlier call's. *)
Absent == [type |-> "none", size |-> 0, entry |-> 0]
File(n, k) == [type |-> "reg", size |-> n, entry |-> k]
Dir(k) == [type |-> "dir", size |-> 0, entry |-> k]
Link(k) == [type |-> "link", size |-> 0, entry |-> k]

NoLimits == [MaxFiles |-> 0, MaxFileSize |-> 0, MaxTotalSize |-> 0]

ExtractTypeOK ==
  /\ layer \in Seq(Entry) /\ intact \in BOOLEAN /\ limits \in Limits \cup {NoLimits}
  /\ xpc \in {"idle", "entry", "copy", "compare", "ok", "limits", "failed"}
  /\ at \in 1..Len(layer) + 1
  /\ fileCount \in Nat /\ totalSize \in 0..MaxInt64
  /\ createdDirs \subseteq Names
  /\ dest \in [Names -> [type : {"none", "reg", "dir", "link"}, size : 0..MaxInt64, entry : 0..Len(layer)]]

ExtractInit ==
  /\ layer = <<>> /\ intact = TRUE /\ limits = NoLimits
  /\ xpc = "idle" /\ at = 1
  /\ fileCount = 0 /\ totalSize = 0 /\ createdDirs = {}
  /\ dest = [n \in Names |-> Absent]

entry == layer[at]
AtEntry(types) == xpc = "entry" /\ at <= Len(layer) /\ entry.type \in types

NextEntry == at' = at + 1 /\ xpc' = "entry"
Fails == xpc' = "failed" /\ at' = at

StartExtract(l) ==
  /\ xpc = "idle"
  /\ layer' = l
  /\ intact' \in {TRUE} \cup {b \in {FALSE} : "wrong" \in ExtractFaults}
  /\ limits' \in Limits
  /\ xpc' = "entry" /\ at' = 1
  /\ UNCHANGED <<extractState, dest>>

(* A bug: a stream that ends early is taken for the end of the archive. *)
StreamEnds ==
  /\ xpc \in {"entry", "copy"} /\ "read" \in ExtractFaults
  /\ xpc' = "compare"
  /\ UNCHANGED <<archive, at, extractState, dest>>

(* The next header or chunk cannot be had, or nothing can be written. *)
ExtractFails ==
  /\ xpc \in {"entry", "copy"} /\ ExtractFaults \cap {"read", "disk"} # {}
  /\ Fails
  /\ UNCHANGED <<archive, extractState, dest>>

SkipEntry ==
  /\ AtEntry({"skipped"})
  /\ NextEntry
  /\ UNCHANGED <<archive, extractState, dest>>

RefuseEntry ==
  /\ AtEntry({"refused"})
  /\ Fails
  /\ UNCHANGED <<archive, extractState, dest>>

-------------------------------------------------------------------------------
(* checkLimits *)

(* The sum of two int64. *)
Plus(x, y) == ((x + y + MaxInt64 + 1) % (2 * (MaxInt64 + 1))) - (MaxInt64 + 1)

(* A bug: the sum is not looked at before it is made. *)
AnySum(total, size) == FALSE

Overflows(total, size) == total > MaxInt64 - size

SizeAllowed(size) == size >= 0 /\ (limits.MaxFileSize > 0 => size <= limits.MaxFileSize)
TotalAllowed(total) == limits.MaxTotalSize > 0 => total <= limits.MaxTotalSize
FilesAllowed(count) == limits.MaxFiles > 0 => count <= limits.MaxFiles

(* A bug: the file is counted after it is looked at. *)
CountsLate ==
  /\ FilesAllowed(fileCount)
  /\ SizeAllowed(entry.size)
  /\ ~Overflows(totalSize, entry.size)
  /\ TotalAllowed(Plus(totalSize, entry.size))

WithinLimits ==
  /\ FilesAllowed(fileCount + 1)
  /\ SizeAllowed(entry.size)
  /\ ~Overflows(totalSize, entry.size)
  /\ TotalAllowed(Plus(totalSize, entry.size))

ExceedLimits ==
  /\ AtEntry({"reg"}) /\ ~WithinLimits
  /\ xpc' = "limits" /\ at' = at
  /\ UNCHANGED <<archive, extractState, dest>>

-------------------------------------------------------------------------------
(* MkdirAll, unless this extraction made the directory.  What it finds under a link *)
(* may be a directory or not. *)
MakeDir ==
  /\ AtEntry({"dir"})
  /\ \/ /\ entry.name \in createdDirs
        /\ NextEntry
        /\ UNCHANGED <<createdDirs, dest>>
     \/ /\ entry.name \notin createdDirs
        /\ \/ /\ dest[entry.name].type # "reg"
              /\ NextEntry
              /\ createdDirs' = createdDirs \cup {entry.name}
              /\ dest' = IF dest[entry.name] = Absent
                         THEN [dest EXCEPT ![entry.name] = Dir(at)] ELSE dest
           \/ /\ dest[entry.name].type \in {"reg", "link"}
              /\ Fails
              /\ UNCHANGED <<createdDirs, dest>>
  /\ UNCHANGED <<archive, fileCount, totalSize>>

(* A bug: the file that is there is truncated and written. *)
TruncateFile ==
  /\ AtEntry({"reg"}) /\ WithinLimits
  /\ fileCount' = fileCount + 1 /\ totalSize' = Plus(totalSize, entry.size)
  /\ dest' = [dest EXCEPT ![entry.name] = File(0, at)]
  /\ xpc' = "copy" /\ at' = at
  /\ UNCHANGED <<archive, createdDirs>>

(* O_CREATE|O_EXCL *)
CreateFile ==
  /\ AtEntry({"reg"}) /\ WithinLimits
  /\ fileCount' = fileCount + 1 /\ totalSize' = Plus(totalSize, entry.size)
  /\ \/ /\ dest[entry.name] = Absent
        /\ dest' = [dest EXCEPT ![entry.name] = File(0, at)]
        /\ xpc' = "copy" /\ at' = at
     \/ /\ dest[entry.name] # Absent
        /\ Fails
        /\ UNCHANGED dest
  /\ UNCHANGED <<archive, createdDirs>>

CopyChunk ==
  /\ xpc = "copy" /\ dest[entry.name].size < entry.size
  /\ dest' = [dest EXCEPT ![entry.name].size = @ + 1]
  /\ UNCHANGED <<archive, xpc, at, extractState>>

FileWritten ==
  /\ xpc = "copy" /\ dest[entry.name].size = entry.size
  /\ NextEntry
  /\ UNCHANGED <<archive, extractState, dest>>

(* The link is made under a temporary name, from which everything is removed first, *)
(* and renamed over what has its own name unless that is a directory. *)
MakeLink ==
  /\ AtEntry({"link"})
  /\ LET tmp == TmpLink[entry.name]
         cleared == IF tmp = NoName THEN dest ELSE [dest EXCEPT ![tmp] = Absent]
     IN \/ /\ dest[entry.name].type # "dir"
           /\ dest' = [cleared EXCEPT ![entry.name] = Link(at)]
           /\ NextEntry
        \/ /\ dest[entry.name].type = "dir" \/ "disk" \in ExtractFaults
           /\ dest' = cleared
           /\ Fails
  /\ UNCHANGED <<archive, extractState>>

EndOfArchive ==
  /\ xpc = "entry" /\ at > Len(layer)
  /\ xpc' = "compare"
  /\ UNCHANGED <<archive, at, extractState, dest>>

-------------------------------------------------------------------------------
(* The digest is the one of what Extract read: nothing reads on to the end of the blob, *)
(* and what the decompressor read ahead may stop before it. *)
CompareDigest ==
  /\ xpc = "compare"
  /\ \/ intact /\ xpc' = "ok"
     \/ xpc' = "failed"
  /\ UNCHANGED <<archive, at, extractState, dest>>

(* The call returns; a later one finds what this one wrote. *)
ExtractReturns ==
  /\ xpc \in {"ok", "limits", "failed"}
  /\ xpc' = "idle" /\ at' = 1 /\ layer' = <<>> /\ intact' = TRUE /\ limits' = NoLimits
  /\ fileCount' = 0 /\ totalSize' = 0 /\ createdDirs' = {}
  /\ dest' = [n \in Names |-> [dest[n] EXCEPT !.entry = 0]]

ExtractStep ==
  \/ ExtractFails \/ SkipEntry \/ RefuseEntry \/ ExceedLimits
  \/ MakeDir \/ CreateFile \/ CopyChunk \/ FileWritten \/ MakeLink \/ EndOfArchive
  \/ CompareDigest \/ ExtractReturns

-------------------------------------------------------------------------------
(* Validator.ValidateExtraction: the limits of the same archive, from its table of contents. *)
Regular(l, k) == {i \in 1..k : l[i].type = "reg"}
Bytes(l, files) == MapThenSumSet(LAMBDA i : l[i].size, files)

ValidLimits(l) ==
  LET files == Regular(l, Len(l))
  IN /\ \A k \in files : SizeAllowed(l[k].size) /\ Bytes(l, Regular(l, k)) <= MaxInt64
     /\ FilesAllowed(Cardinality(files))
     /\ TotalAllowed(Bytes(l, files))
===============================================================================
