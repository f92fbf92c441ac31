-------------------------------- MODULE Archive --------------------------------
(***************************************************************************)
(* The way of a directory through an archive: Build makes a layer of it,   *)
(* which a pull somewhere else extracts, or a pull extracts a layer that   *)
(* another program made.  The two calls share nothing but the layer, so    *)
(* one runs while the other rests.                                         *)
(***************************************************************************)
EXTENDS BuildArchive, ExtractArchive

CONSTANT Foreign    \* layers of other programs

ASSUME ForeignAssumption == Foreign \subseteq Seq(Entry)

archiveVars == <<buildVars, extractVars>>

ArchiveTypeOK == BuildTypeOK /\ ExtractTypeOK
ArchiveInit == BuildInit /\ ExtractInit

(* What a pull gets when the blob was pushed. *)
LayerOf(b) == [k \in 1..Len(b) |-> b[k].header]

(* What is built is pulled into a new directory. *)
BeginBuild ==
  /\ xpc = "idle" /\ StartBuild
  /\ dest' = [n \in Names |-> Absent]
  /\ UNCHANGED <<archive, xpc, at, extractState>>

Resting == xpc = "idle" /\ UNCHANGED extractVars
Build == Resting /\ (EditSource \/ Writer \/ Compressor \/ BuildReturns)

PullBuilt == bpc = "built" /\ StartExtract(LayerOf(blob)) /\ UNCHANGED buildVars
PullForeign == bpc = "idle" /\ (\E l \in Foreign : StartExtract(l)) /\ UNCHANGED buildVars
Extract == ExtractStep /\ UNCHANGED buildVars

ArchiveNext == BeginBuild \/ Build \/ PullBuilt \/ PullForeign \/ Extract

ArchiveSpec == ArchiveInit /\ [][ArchiveNext]_archiveVars

(* The two goroutines of Build are scheduled. *)
FairArchiveSpec ==
  /\ ArchiveSpec
  /\ WF_archiveVars(Resting /\ Writer)
  /\ WF_archiveVars(Resting /\ Compressor)

-------------------------------------------------------------------------------
(* No build leaves its temporary file behind: it is there only while Build runs or    *)
(* its caller has the blob.                                                           *)
NoTempLeft == tmp => bpc \in {"append", "abort", "wait", "built"}

(* A blob that Build returned has every entry of the tree, in order, and every file   *)
(* as long as its header says, whatever happened to the tree meanwhile.               *)
BuiltWhole ==
  bpc \in {"built", "closed"} =>
    /\ Len(blob) = Len(Tree)
    /\ \A k \in Nodes :
         /\ blob[k].header.name = Tree[k].name /\ blob[k].header.type = Tree[k].type
         /\ blob[k].got = blob[k].header.size

(* What an earlier call, another entry or another program put in the destination is   *)
(* not written to: only a link takes its place.                                       *)
NoOverwrite ==
  [][\A n \in Names :
       (dest[n].type = "reg" /\ dest'[n] # dest[n] /\ xpc' # "idle") =>
         \/ dest[n].entry = at
         \/ entry.type = "link" /\ n \in {entry.name, TmpLink[entry.name]}]_archiveVars

(* The files Extract has begun. *)
Begun == Regular(layer, IF xpc = "copy" THEN at ELSE at - 1)

(* What an extraction writes stays within the limits, added up without a width.       *)
LimitsRespected ==
  /\ FilesAllowed(Cardinality(Begun))
  /\ \A k \in Begun : SizeAllowed(layer[k].size)
  /\ TotalAllowed(Bytes(layer, Begun))

(* Extract, which finds the limits exceeded on the way, and ValidateExtraction, which *)
(* looks at the whole table, agree.                                                   *)
LimitsAgree ==
  /\ xpc = "limits" => ~ValidLimits(layer)
  /\ xpc = "ok" => ValidLimits(layer)

(* A link among the entries 2..m took the name of entry k after it was written, or has  *)
(* it for its temporary name.  A directory that the archive names twice is made once, so *)
(* the first time counts.                                                                *)
LinkTook(k, m) ==
  \E i \in 1..k, j \in 2..m :
    /\ \/ i = k
       \/ layer[k].type = "dir" /\ layer[i].type = "dir" /\ layer[i].name = layer[k].name
    /\ i < j /\ layer[j].type = "link" /\ layer[k].name \in {layer[j].name, TmpLink[layer[j].name]}

Displaced(k) == LinkTook(k, Len(layer))

IsThere(k) ==
  LET e == layer[k]
      there == dest[e.name]
  IN CASE e.type = "reg"  -> there = File(e.size, k)
       [] e.type = "link" -> there = Link(k)
       [] OTHER           -> there.type \in {"dir", "link"}

Written(k) == layer[k].type \in {"reg", "dir", "link"}

(* A pull that succeeds has the right bytes, and every entry is there and whole       *)
(* unless a later link of the archive took its name.                                  *)
ExtractedWhole ==
  xpc = "ok" =>
    /\ intact
    /\ \A k \in 1..Len(layer) : Written(k) /\ ~Displaced(k) => IsThere(k)

(* What makes them inductive. *)

(* The blob as it is when what is in the pipe has reached it, and its last entry. *)
Came == IF pipe = Nothing THEN blob ELSE Put(pipe)
HeadersOut == IF wpc = "copy" THEN next ELSE next - 1

(* What left the writer: a header for every entry walked, and behind it the bytes it *)
(* announced, but for those of the last one that are still to do. *)
SentWhole ==
  /\ Came \in Seq([header : Entry, got : Nat]) /\ Len(Came) = HeadersOut
  /\ \A k \in 1..HeadersOut :
       /\ Came[k].header.name = Tree[k].name /\ Came[k].header.type = Tree[k].type
       /\ Came[k].got + (IF k = HeadersOut THEN todo ELSE 0) = Came[k].header.size

AllSent == next = Len(Tree) + 1 /\ todo = 0

BuildInOrder ==
  /\ bpc = "idle" => wpc = "none"
  /\ wpc = "none" => /\ bpc \in {"idle", "failed"} /\ blob = <<>>
                     /\ next = 1 /\ todo = 0 /\ pipe = Nothing /\ ends = {}
  /\ errCh # "empty" <=> wpc = "ended"
  /\ wpc \in {"fail", "ended"} => pipe = Nothing
  /\ wpc = "copy" => next <= Len(Tree)
  /\ wpc = "close" \/ errCh = "ok" => AllSent
  /\ "reader" \in ends => bpc \in {"abort", "failed"}
  /\ bpc \in {"built", "closed"} => errCh = "ok"
  /\ /\ bpc \in {"append", "wait", "built", "closed"}
     /\ wpc \in {"walk", "copy", "close"} \/ errCh = "ok"
     => SentWhole

(* Extract is at a file that it made itself. *)
ExtractInOrder ==
  /\ xpc = "idle" => layer = <<>>
  /\ xpc = "copy" =>
       /\ at <= Len(layer) /\ entry.type = "reg" /\ entry.size \in 0..MaxInt64
       /\ dest[entry.name].type = "reg" /\ dest[entry.name].entry = at
       /\ dest[entry.name].size <= entry.size

(* What Extract is through with is there, unless a link that it is through with took the *)
(* name; a directory that it takes for made was an entry.                                *)
WholeSoFar ==
  /\ xpc = "idle" => createdDirs = {}
  /\ \A n \in Names : dest[n].type = "none" => dest[n] = Absent
  /\ xpc \in {"compare", "ok"} => at = Len(layer) + 1
  /\ xpc = "ok" => intact
  /\ xpc \in {"entry", "copy", "compare", "ok"} =>
       /\ \A n \in createdDirs : \E i \in 1..at - 1 : layer[i].type = "dir" /\ layer[i].name = n
       /\ \A k \in 1..at - 1 : Written(k) /\ ~LinkTook(k, at - 1) => IsThere(k)

(* As long as it goes on, Extract has counted what it has begun; it stops for the limits *)
(* at a file that exceeds them.                                                          *)
Counted ==
  /\ xpc = "idle" => fileCount = 0 /\ totalSize = 0
  /\ xpc # "failed" => fileCount = Cardinality(Begun) /\ totalSize = Bytes(layer, Begun)
  /\ xpc = "limits" => at <= Len(layer) /\ entry.type = "reg" /\ ~WithinLimits

ArchiveInv == ArchiveTypeOK /\ NoTempLeft /\ BuildInOrder /\ ExtractInOrder
===============================================================================
