------------------------------- MODULE MCShared -------------------------------
(***************************************************************************)
(* Instances of SharedCache: a few goroutines o1, s1, ... of the processes *)
(* here and there.                                                         *)
(***************************************************************************)
EXTENDS SharedCache, TLC

CONSTANTS o1, o2, s1, s2, l1, l2, e1, here, there

OneProcess == [a \in Actors |-> here]
TwoProcesses == [a \in Actors |-> IF a \in {o2, s2, l2, e1} THEN there ELSE here]

(* See MCEager: what is set again before it is read is left out of a state. *)
MCView ==
  <<name, [f \in Live |-> data[f]], entry, mu, pc, fd, pos, sound, calm,
    [a \in Openers |-> IF pc[a] = "gap" THEN have[a] ELSE {}],
    [a \in Openers |-> IF pc[a] \in {"idle", "failed", "broken"} THEN "" ELSE op[a]],
    [a \in Lazies |-> IF pc[a] \in {"resize", "announce", "lazy", "lfetch", "lsave"}
                      THEN mem[a] ELSE NoEntry],
    [a \in Lazies |-> pc[a] \in {"lazy", "lsave"} /\ refused[a]],
    [a \in Lazies |-> IF pc[a] = "lfetch" THEN want[a] ELSE {}]>>

MCSymmetry == Permutations(Inodes)

(* Calls one after the other: nobody starts before everybody else has returned. *)
OneAtATime ==
  \A a \in Actors : pc[a] = "idle" /\ pc'[a] # "idle" => \A b \in Actors : pc[b] = "idle"

-------------------------------------------------------------------------------
(* entry.go:35: the entry of a blob says verified when its digest was verified after *)
(* the download, so once nobody is at work the file under that entry is the blob. *)
VerifiedBlobIntact ==
  AllIdle /\ entry.state = "complete" /\ Has("blob") => Intact(name["blob"])
===============================================================================
