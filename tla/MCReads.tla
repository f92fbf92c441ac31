-------------------------------- MODULE MCReads --------------------------------
(***************************************************************************)
(* Instances of RangeFetch, one read after another from an entry file that *)
(* may hold anything, and of ImageReads, goroutines that open, walk, read  *)
(* and close an image with a tidy one.  A behaviour is of one of the two.  *)
(***************************************************************************)
EXTENDS ImageReads

VARIABLE part    \* the one that runs

MCInit ==
  /\ ImageInit
  /\ \/ part = "fetch" /\ kind = "lazy"
     \/ part = "image" /\ Len(ranges) <= 1

MCNext ==
  \/ part = "fetch" /\ FetchNext /\ UNCHANGED <<part, fileVars, userVars>>
  \/ part = "image" /\ ImageNext /\ UNCHANGED part

MCSpec == MCInit /\ [][MCNext]_<<part, imageVars>> /\ ImageFairness

(* image.go:25: every read, Walk and Close returns, whoever reads, walks and closes   *)
(* meanwhile, with one exception: fn of a Walk wants the read lock that the Walk has, *)
(* and a Close waits for that Walk.  The two wait for each other for ever.            *)
Entangled == \E u, v \in Users : upc[u] = "inside" /\ upc[v] = "close"

UsersAnswered == \A u \in Users : upc[u] # "idle" ~> (upc[u] = "idle" \/ Entangled)
===============================================================================
