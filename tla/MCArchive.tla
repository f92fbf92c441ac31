------------------------------ MODULE MCArchive ------------------------------
(***************************************************************************)
(* Instances of Archive for TLC, and the properties of builds and          *)
(* extractions.                                                            *)
(***************************************************************************)
EXTENDS Archive

MCNames == {"f", "f.tmp", "d"}
MCTmpLink == [n \in MCNames |-> IF n = "f" THEN "f.tmp" ELSE "none"]

MCTree == <<[name |-> "d", type |-> "dir"], [name |-> "f", type |-> "reg"],
            [name |-> "f.tmp", type |-> "reg"]>>
MCLengths == 0..2
MCEntries ==
  {e \in [name : {"f", "f.tmp"}, type : Types, size : Sizes] :
     /\ e.type # "reg" => e.size = 0
     /\ e.type \in {"skipped", "refused"} => e.name = "f"}
(* An entry before and one after a link that takes their name. *)
MCTaken == {e \in MCEntries : e.name = "f.tmp" /\ e.type \in {"reg", "dir", "link"} /\ e.size \in 0..1}
MCLink == [name |-> "f", type |-> "link", size |-> 0]
MCForeign == UNION {[1..n -> MCEntries] : n \in 0..2} \cup {<<e, MCLink, g>> : e, g \in MCTaken}
MCLimits == {[MaxFiles |-> 1, MaxFileSize |-> 0, MaxTotalSize |-> 0],
             [MaxFiles |-> 0, MaxFileSize |-> 0, MaxTotalSize |-> 1],
             [MaxFiles |-> 0, MaxFileSize |-> 1, MaxTotalSize |-> 2]}
MCFaults == BuildFaultKinds
MCExtractFaults == ExtractFaultKinds

(* Whatever fails and whenever, Build returns and the goroutine that writes the tar   *)
(* stream ends: neither waits for the other on the pipe for ever.                     *)
BuildEnds == bpc # "idle" ~> bpc \in {"built", "failed", "closed"} /\ wpc \in {"none", "ended"}
===============================================================================
