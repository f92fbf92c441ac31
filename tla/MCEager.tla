-------------------------------- MODULE MCEager --------------------------------
(***************************************************************************)
(* Instances of EagerCache: two goroutines of one process and a command in *)
(* another process that evicts and clears.                                 *)
(***************************************************************************)
EXTENDS EagerCache, TLC

CONSTANTS o1, o2, e1, here, there

MCProc == [a \in Actors |-> IF a \in Openers THEN here ELSE there]

(* What an inode holds once no name and no descriptor refers to it, and the locals *)
(* an actor sets again before it reads them, cannot matter. *)
MCView ==
  <<name, [f \in Live |-> data[f]], entry, mu, pc, fd, pos, sound,
    [a \in Openers |-> IF pc[a] = "gap" THEN have[a] ELSE {}],
    [a \in Openers |-> IF pc[a] \in {"idle", "open", "failed", "broken"} THEN "" ELSE op[a]]>>

MCSymmetry == Permutations(Inodes) \cup Permutations(Openers)

-------------------------------------------------------------------------------
(* Calls, handles and the installed file behave as the abstract source of blobs, and *)
(* every call is answered: it opens, fails or, for a prefetch, ends. *)
ImplementsBlobSource == Source!FairSpec
===============================================================================
