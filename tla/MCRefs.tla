-------------------------------- MODULE MCRefs --------------------------------
(***************************************************************************)
(* Instance of RefCache, calls and a Prune in another process, and of      *)
(* TagLists, two processes that list tags.  The two are in one cache       *)
(* directory and share no file of it, so a behaviour is of one of them.    *)
(***************************************************************************)
EXTENDS RefCache, TagLists

CONSTANTS d1, d2, d3

VARIABLE part    \* the one that runs

(* A mapping of an earlier session was answered by the registry, at time 0 as until says. *)
MCInit ==
  /\ RefInit /\ TagInit /\ part \in {"refs", "tags"}
  /\ \A r \in DOMAIN refs : ~refs[r].recalled

MCNext ==
  \/ part = "refs" /\ RefNext /\ UNCHANGED <<part, tagVars>>
  \/ part = "tags" /\ TagNext /\ UNCHANGED <<part, refVars>>

MCSpec == MCInit /\ [][MCNext]_<<part, refVars, tagVars>>

MCSizeOf == [d \in Digests |-> IF d = d1 THEN 2 ELSE 1]
MCProc == [a \in Actors |-> IF a \in Callers THEN 1 ELSE 2]

(* Locals that are set again before they are read are left out of a state; of a Prune *)
(* under way what it keeps and what is left count, of pruned only which references are *)
(* older, since a reference that is stored later never is. *)
RefView ==
  <<dirVars, tag, clock, memo, mu, pc, until,
    {r \in DOMAIN refs : refs[r].validated < pruned},
    [p \in Pruners |->
       IF Fresh(p) THEN <<job[p]>> ELSE <<Kept(p), job[p].left, job[p].failed, job[p].since>>],
    [a \in Actors |-> IF pc[a] \in {"idle", "resolve", "ask", "prune"} THEN d1 ELSE at[a]],
    [c \in Callers |-> IF pc[c] \in {"has", "resolve", "ask", "remember", "recall", "update"} THEN <<ref[c]>> ELSE <<>>],
    [c \in Callers |-> IF pc[c] \in {"remember", "update"} THEN asked[c] ELSE 0]>>

TagView ==
  <<file, lpc, open, current, had, now,
    [a \in Listers |-> IF lpc[a] \in {"create", "write"} THEN list[a] ELSE NoPiece]>>

MCView == IF part = "refs" THEN RefView ELSE TagView
===============================================================================
