------------------------------- MODULE RefProofs -------------------------------
(***************************************************************************)
(* Proofs about RefCache for any digests, references, callers and prunes,  *)
(* any TTL and any limits.                                                 *)
(***************************************************************************)
EXTENDS RefCache, FoldProofs

LEMMA Limits == TTL \in Nat /\ Latency \in Nat /\ MaxClock \in Nat
BY LimitAssumption

LEMMA RefBegins == RefInit => RefTimes
<1> SUFFICES ASSUME RefInit PROVE RefTimes
  OBVIOUS
<1>1. (CHOOSE d \in Digests : TRUE) \in Digests /\ (CHOOSE r \in Refs : TRUE) \in Refs
  BY SomeAssumption
<1>2. at \in [Actors -> Digests] /\ ref \in [Callers -> Refs]
  BY <1>1 DEF RefInit
<1>3. clock \in Time /\ tag \in [Refs -> Digests] /\ asked \in [Callers -> Nat]
  BY Limits DEF RefInit, Time
<1>4. /\ until \in [Refs -> [Digests -> 0..clock]]
      /\ \A r \in Refs : \A d \in Digests : until[r][d] = 0
  BY DEF RefInit
<1>5. PICK D \in SUBSET Refs : refs \in [D -> [digest : Digests, validated : {0}, recalled : BOOLEAN]]
  BY DEF RefInit, PartialFcn
<1>6. \A r \in DOMAIN refs : r \in Refs /\ refs[r].digest \in Digests /\ refs[r].validated = 0
  BY <1>5
<1>7. \A c \in Callers : pc[c] \notin {"remember", "update"}
  BY DEF RefInit, Actors
<1>8. \A p \in DOMAIN memo : DOMAIN memo[p] = {}
  BY DEF RefInit
<1>9. QED
  BY <1>2, <1>3, <1>4, <1>6, <1>7, <1>8, Limits DEF RefInit, RefTimes, Actors

(* The times of the index, which is all that a step may spoil when no time passes, no *)
(* tag moves and no call is answered.                                                  *)
LEMMA SameTimes ==
  ASSUME RefTimes, UNCHANGED <<tag, clock, memo, ref, until, asked>>,
         DOMAIN pc' = Actors, DOMAIN at' = Actors,
         \A c \in Callers : at'[c] \in Digests /\ 
           (pc'[c] \in {"remember", "update"} => pc[c] \in {"remember", "update"} /\ at'[c] = at[c]),
         DOMAIN refs' \subseteq Refs,
         \A r \in DOMAIN refs' :
           \/ r \in DOMAIN refs /\ refs'[r] = refs[r]
           \/ \E c \in Callers : /\ pc[c] \in {"update", "recall"} /\ r = ref[c]
                                /\ refs'[r] = [digest |-> at[c], validated |-> clock,
                                               recalled |-> pc[c] = "recall"]
  PROVE  RefTimes'
<1>1. clock \in Nat
  BY Limits DEF RefTimes, Time
<1>2. ASSUME NEW r \in DOMAIN refs'
      PROVE  /\ refs'[r].digest \in Digests /\ refs'[r].validated \in Nat
             /\ ~refs'[r].recalled => refs'[r].validated <= until[r][refs'[r].digest] + Latency
  <2>1. CASE r \in DOMAIN refs /\ refs'[r] = refs[r]
    BY <2>1 DEF RefTimes
  <2>2. ASSUME NEW c \in Callers, pc[c] \in {"update", "recall"}, r = ref[c],
               refs'[r] = [digest |-> at[c], validated |-> clock, recalled |-> pc[c] = "recall"]
        PROVE  <1>2!2
    <3>1. at[c] \in Digests /\ asked[c] \in Nat /\ r \in Refs
      BY <2>2 DEF RefTimes
    <3>2. until[r][at[c]] \in Nat
      BY <3>1, <1>1 DEF RefTimes
    <3>3. pc[c] # "recall" => asked[c] <= until[r][at[c]] /\ clock - asked[c] <= Latency
      BY <2>2 DEF RefTimes
    <3>4. /\ refs'[r].digest = at[c] /\ refs'[r].validated = clock
          /\ refs'[r].recalled = (pc[c] = "recall")
      BY <2>2
    <3>5. ~refs'[r].recalled => pc[c] # "recall"
      BY <3>4
    <3>6. pc[c] # "recall" => clock <= until[r][at[c]] + Latency
      BY <3>1, <3>2, <3>3, <1>1, Limits
    <3>7. QED
      BY <3>1, <3>4, <3>5, <3>6, <1>1
  <2>3. QED
    BY <1>2, <2>1, <2>2
<1>3. QED
  BY <1>2 DEF RefTimes

(* References leave the index, and none comes or changes. *)
RefsDropped == DOMAIN refs' \subseteq DOMAIN refs /\ \A r \in DOMAIN refs' : refs'[r] = refs[r]

(* A step of an eviction. *)
LEMMA EvictStep ==
  ASSUME RefTimes, NEW a \in Actors, removeRefsByDigest(a)
  PROVE  RefsDropped
<1>1. refs' = RestrictValues(refs, LAMBDA entry : entry.digest # at[a])
  BY DEF removeRefsByDigest
<1>2. QED
  BY <1>1 DEF RefsDropped, RestrictValues, Restrict

LEMMA LookupStep ==
  ASSUME RefTimes, NEW c \in Callers, LookupByRef(c)
  PROVE  /\ RefTimes'
         /\ pc'[c] = "has" => refs[ref'[c]].recalled \/ until[ref'[c]][at'[c]] + TTL + Latency >= clock
<1>1. PICK r \in Refs :
        /\ ref' = [ref EXCEPT ![c] = r]
        /\ IF TTL > 0 /\ r \in DOMAIN refs /\ ~Expired(r)
           THEN at' = [at EXCEPT ![c] = refs[r].digest] /\ pc' = [pc EXCEPT ![c] = "has"]
           ELSE pc' = [pc EXCEPT ![c] = "resolve"] /\ UNCHANGED at
  BY DEF LookupByRef, Goto
<1>2. UNCHANGED <<refs, tag, clock, memo, until, asked>>
  BY DEF LookupByRef, dirVars, history
<1>3. /\ ref' \in [Callers -> Refs] /\ DOMAIN pc' = Actors /\ DOMAIN at' = Actors
      /\ \A b \in Callers : b # c => ref'[b] = ref[b]
      /\ \A b \in Actors : b # c => pc'[b] = pc[b] /\ at'[b] = at[b]
      /\ c \in Actors /\ pc'[c] \in {"has", "resolve"} /\ at'[c] \in Digests
  BY <1>1 DEF RefTimes, Actors
<1>4. RefTimes'
  BY <1>2, <1>3 DEF RefTimes, Actors
<1>5. ASSUME pc'[c] = "has", ~refs[ref'[c]].recalled PROVE until[ref'[c]][at'[c]] + TTL + Latency >= clock
  <2>1. r \in DOMAIN refs /\ ~Expired(r) /\ at' = [at EXCEPT ![c] = refs[r].digest]
    BY <1>1, <1>3, <1>5 DEF RefTimes
  <2>2. ref'[c] = r /\ at'[c] = refs[r].digest
    BY <1>1, <1>3, <2>1 DEF RefTimes
  <2>3. /\ refs[r].digest \in Digests /\ refs[r].validated \in Nat
        /\ refs[r].validated <= until[r][refs[r].digest] + Latency
    BY <1>5, <2>1, <2>2 DEF RefTimes
  <2>4. clock \in Nat /\ until[r][refs[r].digest] \in Nat
    BY <2>3, Limits DEF RefTimes, Time
  <2>5. clock - refs[r].validated <= TTL
    BY <2>1, <2>3, <2>4, Limits DEF Expired
  <2>6. QED
    BY <2>2, <2>3, <2>4, <2>5, Limits
<1>6. QED
  BY <1>4, <1>5

LEMMA ResolveStep ==
  ASSUME RefTimes, NEW c \in Callers, ResolveLayer(c)
  PROVE  RefTimes' /\ pc'[c] \in {"recall", "ask", "idle"}
<1>1. UNCHANGED <<refs, tag, clock, memo, until, asked, ref>>
  BY DEF ResolveLayer, dirVars, history
<1>2. c \in Actors /\ DOMAIN pc = Actors /\ DOMAIN at = Actors /\ DOMAIN refs \subseteq Refs
  BY DEF RefTimes, Actors
<1>3. PICK l \in {"recall", "ask", "idle"} : pc' = [pc EXCEPT ![c] = l]
  BY DEF ResolveLayer, Goto
<1>4. \/ UNCHANGED at
      \/ at' = [at EXCEPT ![c] = memo[Proc[c]][ref[c]]] /\ Recalls(c)
  BY DEF ResolveLayer
<1>5. Recalls(c) => memo[Proc[c]][ref[c]] \in Digests
  BY DEF Recalls, Remembers, RefTimes
<1>6. /\ DOMAIN pc' = Actors /\ DOMAIN at' = Actors /\ pc'[c] = l
      /\ \A b \in Callers : at'[b] \in Digests /\ (b # c => pc'[b] = pc[b] /\ at'[b] = at[b])
  <2>1. DOMAIN pc' = Actors /\ pc'[c] = l /\ \A b \in Callers : b # c => pc'[b] = pc[b]
    BY <1>2, <1>3 DEF Actors
  <2>2. DOMAIN at' = Actors /\ at'[c] \in Digests /\ \A b \in Callers : b # c => at'[b] = at[b]
    <3>1. CASE UNCHANGED at
      BY <1>2, <3>1 DEF RefTimes
    <3>2. CASE at' = [at EXCEPT ![c] = memo[Proc[c]][ref[c]]] /\ Recalls(c)
      BY <1>2, <1>5, <3>2 DEF Actors
    <3>3. QED
      BY <1>4, <3>1, <3>2
  <2>3. QED
    BY <2>1, <2>2 DEF RefTimes
<1>7. RefTimes'
  BY <1>1, <1>2, <1>6, SameTimes
<1>8. QED
  BY <1>6, <1>7

LEMMA AskStep ==
  ASSUME RefTimes, NEW c \in Callers, resolveLayerDescriptor(c)
  PROVE  RefTimes' /\ pc'[c] \in {"remember", "update", "idle"}
<1>1. UNCHANGED <<refs, tag, clock, memo, until, ref>>
  BY DEF resolveLayerDescriptor, dirVars
<1>2. clock \in Nat /\ c \in Actors /\ ref[c] \in Refs /\ tag[ref[c]] \in Digests
  BY Limits DEF RefTimes, Time, Actors
<1>3. ASSUME NEW l \in {"remember", "update"},
             at' = [at EXCEPT ![c] = tag[ref[c]]], asked' = [asked EXCEPT ![c] = clock],
             pc' = [pc EXCEPT ![c] = l]
      PROVE  RefTimes' /\ pc'[c] = l
  <2>1. /\ DOMAIN pc' = Actors /\ DOMAIN at' = Actors /\ asked' \in [Callers -> Nat]
        /\ \A b \in Callers : b # c => pc'[b] = pc[b] /\ at'[b] = at[b] /\ asked'[b] = asked[b]
        /\ pc'[c] = l /\ at'[c] = tag[ref[c]] /\ asked'[c] = clock
    BY <1>2, <1>3 DEF RefTimes, Actors
  <2>2. asked'[c] <= until[ref[c]][at'[c]] /\ clock - asked'[c] <= Latency
    BY <1>2, <2>1, Limits DEF RefTimes
  <2>3. QED
    BY <1>1, <1>2, <2>1, <2>2 DEF RefTimes
<1>4. CASE pc' = [pc EXCEPT ![c] = "idle"] /\ UNCHANGED <<at, asked>>
  BY <1>1, <1>2, <1>4 DEF RefTimes, Actors
<1>5. QED
  BY <1>3, <1>4 DEF resolveLayerDescriptor, Goto

LEMMA RememberStep ==
  ASSUME RefTimes, NEW c \in Callers, Remember(c)
  PROVE  RefTimes' /\ pc'[c] = "update"
<1>1. UNCHANGED <<refs, tag, clock, until, asked, ref, at>>
  BY DEF Remember, dirVars, history
<1>2. pc[c] = "remember" /\ pc' = [pc EXCEPT ![c] = "update"]
  BY DEF Remember, Goto
<1>3. /\ DOMAIN pc' = Actors /\ pc'[c] = "update" /\ \A b \in Callers : b # c => pc'[b] = pc[b]
  BY <1>2 DEF RefTimes, Actors
<1>4. memo' = [memo EXCEPT ![Proc[c]] = Stored(memo[Proc[c]], ref[c], at[c])] /\ at[c] \in Digests
  BY DEF Remember, RefTimes
<1>5. ASSUME NEW p \in DOMAIN memo', NEW r \in DOMAIN memo'[p] PROVE memo'[p][r] \in Digests
  <2>1. CASE p = Proc[c]
    <3>1. memo'[p] = Stored(memo[p], ref[c], at[c]) /\ p \in DOMAIN memo
      BY <1>4, <2>1
    <3>2. QED
      BY <1>4, <3>1 DEF Stored, RefTimes
  <2>2. CASE p # Proc[c]
    BY <1>4, <2>2 DEF RefTimes
  <2>3. QED
    BY <2>1, <2>2
<1>6. QED
  BY <1>1, <1>2, <1>3, <1>5 DEF RefTimes

(* Only LookupByRef takes a call to a hit of the index. *)
NoHit == \A c \in Callers : pc'[c] = "has" => pc[c] = "has"

LEMMA MoveStep ==
  ASSUME RefTimes, NEW a \in Actors, NEW l, pc' = [pc EXCEPT ![a] = l],
         l \notin {"has", "remember", "update"}, UNCHANGED <<refs, tag, clock, memo, at, ref, until, asked>>
  PROVE  RefTimes' /\ NoHit
<1>1. /\ DOMAIN pc' = Actors /\ pc'[a] = l
      /\ \A c \in Callers : c # a => pc'[c] = pc[c]
  BY DEF RefTimes, Actors
<1>2. \A c \in Callers : at[c] \in Digests
  BY DEF RefTimes
<1>3. DOMAIN at = Actors /\ DOMAIN refs \subseteq Refs
  BY DEF RefTimes
<1>4. RefTimes'
  BY <1>1, <1>2, <1>3, SameTimes
<1>5. QED
  BY <1>1, <1>4 DEF NoHit

LEMMA DropStep ==
  ASSUME RefTimes, NEW a \in Actors, NEW l, pc' = [pc EXCEPT ![a] = l],
         l \notin {"has", "remember", "update"}, UNCHANGED <<tag, clock, memo, at, ref, until, asked>>,
         RefsDropped
  PROVE  RefTimes' /\ NoHit
<1>1. /\ DOMAIN pc' = Actors /\ pc'[a] = l
      /\ \A c \in Callers : c # a => pc'[c] = pc[c]
  BY DEF RefTimes, Actors
<1>2. \A c \in Callers : at[c] \in Digests
  BY DEF RefTimes
<1>3. DOMAIN at = Actors /\ DOMAIN refs' \subseteq Refs
  BY DEF RefTimes, RefsDropped
<1>4. RefTimes'
  BY <1>1, <1>2, <1>3, SameTimes DEF RefsDropped
<1>5. QED
  BY <1>1, <1>4 DEF NoHit

LEMMA UpdateStep ==
  ASSUME RefTimes, NEW c \in Callers, UpdateRefIndex(c)
  PROVE  RefTimes' /\ NoHit
<1>1. /\ pc[c] \in {"update", "recall"} /\ pc' = [pc EXCEPT ![c] = "load"]
      /\ UNCHANGED <<tag, clock, memo, at, ref, until, asked>>
  BY DEF UpdateRefIndex, Goto, history
<1>2. /\ c \in Actors /\ DOMAIN pc' = Actors /\ pc'[c] = "load"
      /\ \A b \in Callers : b # c => pc'[b] = pc[b]
  BY <1>1 DEF RefTimes, Actors
<1>3. /\ DOMAIN at = Actors /\ DOMAIN refs \subseteq Refs /\ ref[c] \in Refs
      /\ \A b \in Callers : at[b] \in Digests
  BY DEF RefTimes
<1>4. CASE refs' = Stored(refs, ref[c], [digest |-> at[c], validated |-> clock,
                                         recalled |-> pc[c] = "recall"])
  <2>1. /\ DOMAIN refs' \subseteq Refs
        /\ \A r \in DOMAIN refs' :
             \/ r \in DOMAIN refs /\ refs'[r] = refs[r]
             \/ r = ref[c] /\ refs'[r] = [digest |-> at[c], validated |-> clock,
                                          recalled |-> pc[c] = "recall"]
    BY <1>3, <1>4 DEF Stored
  <2>2. RefTimes'
    BY <1>1, <1>2, <1>3, <2>1, SameTimes
  <2>3. QED
    BY <1>2, <2>2 DEF NoHit
<1>5. CASE UNCHANGED refs
  BY <1>1, <1>2, <1>5, MoveStep
<1>6. QED
  BY <1>4, <1>5 DEF UpdateRefIndex

LEMMA HealStep ==
  ASSUME RefTimes, NEW c \in Callers, SelfHeal(c)
  PROVE  RefTimes' /\ NoHit
<1>1. c \in Actors
  BY DEF Actors
<1>2. CASE EvictBlob(c, "heal")
  BY <1>1, <1>2, MoveStep DEF EvictBlob, Goto, history
<1>3. CASE EvictEntry(c)
  BY <1>1, <1>3, MoveStep DEF EvictEntry, Goto, history
<1>4. CASE /\ removeRefsByDigest(c) /\ Goto(c, "lock")
           /\ UNCHANGED <<entries, blobs, tag, clock, memo, at, ref, job, history>>
  <2>1. /\ pc' = [pc EXCEPT ![c] = "lock"]
        /\ UNCHANGED <<tag, clock, memo, at, ref, until, asked>>
    BY <1>4 DEF Goto, history
  <2>2. RefsDropped
    BY <1>1, <1>4, EvictStep
  <2>3. QED
    BY <1>1, <2>1, <2>2, DropStep
<1>5. CASE EvictFails(c) /\ Goto(c, "lock")
  BY <1>1, <1>5, MoveStep DEF EvictFails, Goto, history, dirVars
<1>6. QED
  BY <1>2, <1>3, <1>4, <1>5 DEF SelfHeal

LEMMA CallerStep ==
  ASSUME RefTimes, NEW c \in Callers, Caller(c)
  PROVE  RefTimes' /\ (LookupByRef(c) \/ NoHit)
<1>1. c \in Actors
  BY DEF Actors
<1>2. CASE LookupByRef(c)
  BY <1>2, LookupStep
<1>3. CASE hasCachedBlob(c)
  <2>1. /\ pc' = [pc EXCEPT ![c] = "load"] \/ pc' = [pc EXCEPT ![c] = "resolve"]
        /\ UNCHANGED <<refs, tag, clock, memo, at, ref, until, asked>>
    BY <1>3 DEF hasCachedBlob, Goto, history, dirVars
  <2>2. QED
    BY <1>1, <2>1, MoveStep
<1>4. CASE ResolveLayer(c)
  <2>1. \A b \in Callers : b # c => pc'[b] = pc[b]
    BY <1>4 DEF ResolveLayer, Goto, RefTimes, Actors
  <2>2. QED
    BY <1>4, <2>1, ResolveStep DEF NoHit
<1>5. CASE resolveLayerDescriptor(c)
  <2>1. \A b \in Callers : b # c => pc'[b] = pc[b]
    BY <1>5 DEF resolveLayerDescriptor, Goto, RefTimes, Actors
  <2>2. QED
    BY <1>5, <2>1, AskStep DEF NoHit
<1>6. CASE Remember(c)
  <2>1. \A b \in Callers : b # c => pc'[b] = pc[b]
    BY <1>6 DEF Remember, Goto, RefTimes, Actors
  <2>2. QED
    BY <1>6, <2>1, RememberStep DEF NoHit
<1>7. CASE UpdateRefIndex(c)
  BY <1>7, UpdateStep
<1>8. CASE Load(c)
  <2>1. /\ pc' = [pc EXCEPT ![c] = "hit"] \/ pc' = [pc EXCEPT ![c] = "lock"]
        /\ UNCHANGED <<refs, tag, clock, memo, at, ref, until, asked>>
    BY <1>8 DEF Load, Goto, history, dirVars
  <2>2. QED
    BY <1>1, <2>1, MoveStep
<1>9. CASE Hit(c)
  <2>1. /\ pc' = [pc EXCEPT ![c] = "touch"] \/ pc' = [pc EXCEPT ![c] = "heal"]
        /\ UNCHANGED <<refs, tag, clock, memo, at, ref, until, asked>>
    BY <1>9 DEF Hit, Goto, history, dirVars
  <2>2. QED
    BY <1>1, <2>1, MoveStep
<1>10. CASE Touch(c)
  BY <1>1, <1>10, MoveStep DEF Touch, Goto, history
<1>11. CASE SelfHeal(c)
  BY <1>11, HealStep
<1>12. CASE Lock(c)
  BY <1>1, <1>12, MoveStep DEF Lock, Goto, history, dirVars
<1>13. CASE Download(c)
  BY <1>1, <1>13, MoveStep DEF Download, Goto, history
<1>14. CASE SaveComplete(c)
  BY <1>1, <1>14, MoveStep DEF SaveComplete, Goto, history
<1>15. QED
  BY <1>2, <1>3, <1>4, <1>5, <1>6, <1>7, <1>8, <1>9, <1>10, <1>11, <1>12, <1>13, <1>14 DEF Caller

LEMMA RemoveStep ==
  ASSUME RefTimes, NEW p \in Pruners, RemoveEntry(p)
  PROVE  RefTimes' /\ NoHit
<1>1. p \in Actors /\ p \notin Callers
  BY PrunersAssumption DEF Actors
<1>2. CASE /\ \E d \in job[p].left \cap job[p].remove : at' = [at EXCEPT ![p] = d]
           /\ Goto(p, "evictentry")
           /\ UNCHANGED <<entries, refs, tag, clock, memo, mu, ref, history>>
  <2>1. /\ DOMAIN pc' = Actors /\ DOMAIN at' = Actors /\ DOMAIN refs \subseteq Refs
        /\ \A c \in Callers : pc'[c] = pc[c] /\ at'[c] = at[c] /\ at[c] \in Digests
    BY <1>1, <1>2 DEF Goto, RefTimes, Actors
  <2>2. UNCHANGED <<refs, tag, clock, memo, ref, until, asked>>
    BY <1>2 DEF history
  <2>3. RefTimes'
    BY <2>1, <2>2, SameTimes
  <2>4. QED
    BY <2>1, <2>3 DEF NoHit
<1>3. CASE EvictEntry(p)
  BY <1>1, <1>3, MoveStep DEF EvictEntry, Goto, history
<1>4. CASE /\ removeRefsByDigest(p) /\ Goto(p, "prune")
           /\ UNCHANGED <<entries, blobs, tag, clock, memo, mu, at, ref, job, history>>
  <2>1. /\ pc' = [pc EXCEPT ![p] = "prune"]
        /\ UNCHANGED <<tag, clock, memo, at, ref, until, asked>>
    BY <1>4 DEF Goto, history
  <2>2. RefsDropped
    BY <1>1, <1>4, EvictStep
  <2>3. QED
    BY <1>1, <2>1, <2>2, DropStep
<1>5. CASE EvictFails(p) /\ Goto(p, "prune")
  BY <1>1, <1>5, MoveStep DEF EvictFails, Goto, history, dirVars
<1>6. QED
  BY <1>2, <1>3, <1>4, <1>5 DEF RemoveEntry

LEMMA PrunerStep ==
  ASSUME RefTimes, NEW p \in Pruners, Pruner(p)
  PROVE  RefTimes' /\ NoHit
<1>1. p \in Actors
  BY DEF Actors
<1>2. CASE PruneBegin(p)
  <2>1. /\ pc' = [pc EXCEPT ![p] = "prune"]
        /\ UNCHANGED <<refs, tag, clock, memo, at, ref, until, asked>>
    BY <1>2 DEF PruneBegin, Goto, history, dirVars
  <2>2. QED
    BY <1>1, <2>1, MoveStep
<1>3. CASE KeepEntry(p)
  <2>1. UNCHANGED <<refs, tag, clock, memo, pc, at, ref, until, asked>>
    BY <1>3 DEF KeepEntry, dirVars, history
  <2>2. QED
    BY <2>1 DEF RefTimes, NoHit
<1>4. CASE RemoveEntry(p)
  BY <1>4, RemoveStep
<1>5. CASE PruneCancelled(p)
  BY <1>1, <1>5, MoveStep DEF PruneCancelled, Goto, history, dirVars
<1>6. CASE cleanupOrphanedRefs(p)
  <2>1. refs' = RestrictValues(refs, LAMBDA entry : entry.digest \in Kept(p))
    BY <1>6 DEF cleanupOrphanedRefs
  <2>2. RefsDropped
    BY <2>1 DEF RefsDropped, RestrictValues, Restrict
  <2>3. /\ pc' = [pc EXCEPT ![p] = "idle"]
        /\ UNCHANGED <<tag, clock, memo, at, ref, until, asked>>
    BY <1>6 DEF cleanupOrphanedRefs, Goto
  <2>4. QED
    BY <1>1, <2>2, <2>3, DropStep
<1>7. QED
  BY <1>2, <1>3, <1>4, <1>5, <1>6 DEF Pruner

LEMMA MoveTagStep ==
  ASSUME RefTimes, MoveTag
  PROVE  RefTimes' /\ NoHit
<1>1. PICK r \in Refs, d \in Digests :
        tag' = [tag EXCEPT ![r] = d] /\ until' = [until EXCEPT ![r][d] = clock]
  BY DEF MoveTag
<1>2. UNCHANGED <<refs, clock, memo, pc, at, ref, asked>>
  BY DEF MoveTag, dirVars, callVars
<1>3. clock \in Nat
  BY Limits DEF RefTimes, Time
<1>4. /\ tag' \in [Refs -> Digests]
      /\ until' \in [Refs -> [Digests -> 0..clock]]
      /\ \A s \in Refs : until'[s][tag'[s]] = clock
      /\ \A s \in Refs, e \in Digests : until[s][e] <= until'[s][e]
  <2>1. until \in [Refs -> [Digests -> 0..clock]] /\ tag \in [Refs -> Digests] /\ clock \in 0..clock
    BY <1>3 DEF RefTimes
  <2>2. tag' \in [Refs -> Digests] /\ until' \in [Refs -> [Digests -> 0..clock]]
    BY <1>1, <2>1
  <2>3. \A s \in Refs, e \in Digests :
          until'[s][e] = IF s = r /\ e = d THEN clock ELSE until[s][e]
    BY <1>1, <2>1
  <2>4. \A s \in Refs : tag'[s] = IF s = r THEN d ELSE tag[s]
    BY <1>1, <2>1
  <2>5. \A s \in Refs : until[s][tag[s]] = clock
    BY DEF RefTimes
  <2>6. \A s \in Refs, e \in Digests : until[s][e] \in 0..clock
    BY <2>1
  <2>7. QED
    BY <1>3, <2>1, <2>2, <2>3, <2>4, <2>5, <2>6
<1>5. \A c \in Callers :
        pc[c] \in {"remember", "update"} => asked[c] <= until'[ref[c]][at[c]]
  <2>1. ASSUME NEW c \in Callers, pc[c] \in {"remember", "update"}
        PROVE  asked[c] <= until'[ref[c]][at[c]]
    <3>1. /\ asked[c] \in Nat /\ ref[c] \in Refs /\ at[c] \in Digests
          /\ asked[c] <= until[ref[c]][at[c]]
      BY <2>1 DEF RefTimes
    <3>2. until[ref[c]][at[c]] \in Nat /\ until'[ref[c]][at[c]] \in Nat
      BY <3>1, <1>3, <1>4 DEF RefTimes
    <3>3. QED
      BY <3>1, <3>2, <1>4
  <2>2. QED
    BY <2>1
<1>6. \A s \in DOMAIN refs : ~refs[s].recalled => refs[s].validated <= until'[s][refs[s].digest] + Latency
  <2>1. ASSUME NEW s \in DOMAIN refs, ~refs[s].recalled
        PROVE  refs[s].validated <= until'[s][refs[s].digest] + Latency
    <3>1. /\ s \in Refs /\ refs[s].digest \in Digests /\ refs[s].validated \in Nat
          /\ refs[s].validated <= until[s][refs[s].digest] + Latency
      BY <2>1 DEF RefTimes
    <3>2. until[s][refs[s].digest] \in Nat /\ until'[s][refs[s].digest] \in Nat
      BY <3>1, <1>3, <1>4 DEF RefTimes
    <3>3. QED
      BY <3>1, <3>2, <1>4, Limits
  <2>2. QED
    BY <2>1
<1>7. QED
  BY <1>2, <1>4, <1>5, <1>6 DEF RefTimes, NoHit

LEMMA TickStep ==
  ASSUME RefTimes, Tick
  PROVE  RefTimes' /\ NoHit
<1>1. /\ clock < MaxClock /\ clock' = clock + 1
      /\ \A c \in Callers : pc[c] \in {"remember", "update"} => clock - asked[c] < Latency
      /\ until' = [r \in Refs |-> [until[r] EXCEPT ![tag[r]] = clock + 1]]
  BY DEF Tick
<1>2. UNCHANGED <<refs, tag, memo, pc, at, ref, asked>>
  BY DEF Tick, dirVars, callVars
<1>3. clock \in Nat /\ clock' \in Time
  BY <1>1, Limits DEF RefTimes, Time
<1>4. until \in [Refs -> [Digests -> 0..clock]] /\ tag \in [Refs -> Digests]
  BY DEF RefTimes
<1>5. \A s \in Refs, e \in Digests : until[s][e] \in 0..clock
  BY <1>4
<1>6. \A s \in Refs, e \in Digests :
        until'[s][e] = IF e = tag[s] THEN clock' ELSE until[s][e]
  BY <1>1, <1>4
<1>7. until' \in [Refs -> [Digests -> 0..clock']]
  <2>1. 0..clock \subseteq 0..clock' /\ clock' \in 0..clock'
    BY <1>1, <1>3
  <2>2. ASSUME NEW s \in Refs
        PROVE  [until[s] EXCEPT ![tag[s]] = clock + 1] \in [Digests -> 0..clock']
    <3>1. until[s] \in [Digests -> 0..clock'] /\ clock + 1 \in 0..clock'
      BY <1>1, <1>4, <2>1
    <3>2. QED
      BY <3>1
  <2>3. QED
    BY <1>1, <2>2
<1>8. \A s \in Refs : until'[s][tag[s]] = clock'
  BY <1>4, <1>6
<1>9. \A s \in Refs, e \in Digests : until[s][e] <= until'[s][e] /\ until'[s][e] \in Nat /\ until[s][e] \in Nat
  BY <1>1, <1>3, <1>5, <1>6
<1>10. \A c \in Callers :
         pc[c] \in {"remember", "update"} => asked[c] <= until'[ref[c]][at[c]] /\ clock' - asked[c] <= Latency
  <2>1. ASSUME NEW c \in Callers, pc[c] \in {"remember", "update"}
        PROVE  asked[c] <= until'[ref[c]][at[c]] /\ clock' - asked[c] <= Latency
    <3>1. /\ asked[c] \in Nat /\ ref[c] \in Refs /\ at[c] \in Digests
          /\ asked[c] <= until[ref[c]][at[c]]
      BY <2>1 DEF RefTimes
    <3>2. clock - asked[c] < Latency
      BY <1>1, <2>1
    <3>3. until[ref[c]][at[c]] <= until'[ref[c]][at[c]] /\ until'[ref[c]][at[c]] \in Nat
          /\ until[ref[c]][at[c]] \in Nat
      BY <3>1, <1>9
    <3>4. QED
      BY <1>1, <1>3, <3>1, <3>2, <3>3, Limits
  <2>2. QED
    BY <2>1
<1>11. \A s \in DOMAIN refs : ~refs[s].recalled => refs[s].validated <= until'[s][refs[s].digest] + Latency
  <2>1. ASSUME NEW s \in DOMAIN refs, ~refs[s].recalled
        PROVE  refs[s].validated <= until'[s][refs[s].digest] + Latency
    <3>1. /\ s \in Refs /\ refs[s].digest \in Digests /\ refs[s].validated \in Nat
          /\ refs[s].validated <= until[s][refs[s].digest] + Latency
      BY <2>1 DEF RefTimes
    <3>2. QED
      BY <3>1, <1>9, Limits
  <2>2. QED
    BY <2>1
<1>12. QED
  BY <1>2, <1>3, <1>4, <1>7, <1>8, <1>10, <1>11 DEF RefTimes, NoHit

LEMMA RefStep ==
  ASSUME RefTimes, [RefNext]_refVars
  PROVE  RefTimes' /\ \A c \in Callers :
           pc[c] = "idle" /\ pc'[c] = "has" =>
             \/ refs[ref'[c]].recalled
             \/ until[ref'[c]][at'[c]] + TTL + Latency >= clock
<1>1. ASSUME NEW c \in Callers, LookupByRef(c)
      PROVE  \A b \in Callers : b # c => pc'[b] = pc[b]
  BY <1>1 DEF LookupByRef, Goto, RefTimes, Actors
<1>2. CASE \E c \in Callers : Caller(c)
  BY <1>1, <1>2, CallerStep, LookupStep DEF NoHit
<1>3. CASE \E p \in Pruners : Pruner(p)
  BY <1>3, PrunerStep DEF NoHit
<1>4. CASE MoveTag
  BY <1>4, MoveTagStep DEF NoHit
<1>5. CASE Tick
  BY <1>5, TickStep DEF NoHit
<1>6. CASE UNCHANGED refVars
  BY <1>6 DEF RefTimes, refVars, dirVars, callVars, history
<1>7. QED
  BY <1>2, <1>3, <1>4, <1>5, <1>6 DEF RefNext

(* The index says of no reference that the registry gave it later than it did, but for   *)
(* the time an answer takes (refindex.go UpdateRefIndex, client.go resolve and update),  *)
(* unless a client WithDescriptorCache stored it from memory (registry.go:551-554).      *)
THEOREM TimesInvariant == RefSpec => []RefTimes
<1>1. RefTimes /\ [RefNext]_refVars => RefTimes'
  BY RefStep
<1>2. QED
  BY RefBegins, <1>1, PTL DEF RefSpec

(* For any TTL, digests, references and any number of calls and prunes, with and without *)
(* descriptor caches: a call that does not ask the registry uses a digest the registry   *)
(* gave within the TTL, and the time an answer takes (options.go:191-193), unless the    *)
(* mapping was last stored by a client that answered from its descriptor cache; such a   *)
(* mapping is stamped as new whenever it is remembered, and then nothing bounds its age. *)
THEOREM TTLRespected == RefSpec => TTLBound
<1>1. RefTimes /\ [RefNext]_refVars =>
        [\A c \in Callers :
           pc[c] = "idle" /\ pc'[c] = "has" =>
             \/ refs[ref'[c]].recalled
             \/ until[ref'[c]][at'[c]] + TTL + Latency >= clock]_refVars
  BY RefStep
<1>2. QED
  BY TimesInvariant, <1>1, PTL DEF RefSpec, TTLBound

-------------------------------------------------------------------------------
(* References and evictions. *)

LEMMA BackedBegins == RefInit => RefsBacked
<1> SUFFICES ASSUME RefInit PROVE RefsBacked
  OBVIOUS
<1>1. pruned \in 0..clock /\ DOMAIN job = Pruners /\ \A p \in Pruners : ~Pruning(p)
  BY DEF RefInit, Pruning, Actors
<1>2. PICK D \in SUBSET Refs : refs \in [D -> [digest : Digests, validated : {0}, recalled : BOOLEAN]]
  BY DEF RefInit, PartialFcn
<1>3. \A r \in DOMAIN refs : refs[r].validated = 0
  BY <1>2
<1>4. \A d \in Digests : Backed(d, pruned)
  BY <1>3 DEF RefInit, Backed
<1>5. QED
  BY <1>1, <1>4 DEF RefsBacked

(* What a step may do to entries, evictions and references: an entry goes only into the  *)
(* hands of an eviction that removes its references next, and a reference comes with     *)
(* the time of now.                                                                      *)
EntriesEvicted ==
  \A d \in DOMAIN entries : d \in DOMAIN entries' \/ \E a \in Actors : pc'[a] = "evictrefs" /\ at'[a] = d
EvictionsGoOn ==
  \A a \in Actors : pc[a] = "evictrefs" =>
    \/ pc'[a] = "evictrefs" /\ at'[a] = at[a]
    \/ \A r \in DOMAIN refs' : refs'[r].digest # at[a]
RefsStamped ==
  \A r \in DOMAIN refs' : (r \in DOMAIN refs /\ refs'[r] = refs[r]) \/ refs'[r].validated = clock

StaysBacked == \A d : \A t \in 0..clock : Backed(d, t) => Backed(d, t)'

LEMMA StepKeeps ==
  ASSUME RefTimes, EntriesEvicted, EvictionsGoOn, RefsStamped
  PROVE  StaysBacked
<1> SUFFICES ASSUME NEW d, NEW t \in 0..clock, Backed(d, t) PROVE Backed(d, t)'
  BY DEF StaysBacked
<1>1. clock \in Nat
  BY Limits DEF RefTimes, Time
<1>2. CASE d \in DOMAIN entries
  BY <1>2 DEF EntriesEvicted, Backed
<1>3. ASSUME NEW a \in Actors, pc[a] = "evictrefs", at[a] = d PROVE Backed(d, t)'
  BY <1>3 DEF EvictionsGoOn, Backed
<1>4. ASSUME \A r \in DOMAIN refs : refs[r].digest = d => refs[r].validated >= t PROVE Backed(d, t)'
  <2>1. ASSUME NEW r \in DOMAIN refs', refs'[r].digest = d PROVE refs'[r].validated >= t
    BY <1>1, <1>4, <2>1 DEF RefsStamped
  <2>2. QED
    BY <2>1 DEF Backed
<1>5. QED
  BY <1>2, <1>3, <1>4 DEF Backed

(* The prunes that go on keep what they keep. *)
PrunesGoOn ==
  /\ DOMAIN job' = Pruners
  /\ \A p \in Pruners : Pruning(p)' =>
       Pruning(p) /\ DOMAIN job'[p] = DOMAIN NoJob /\ job'[p].since = job[p].since /\ Kept(p)' = Kept(p)

LEMMA JobKept ==
  ASSUME RefTimes, RefsBacked, StaysBacked, clock \in 0..clock', clock' \in Nat,
         NEW p \in Pruners, Pruning(p), job'[p].since = job[p].since, Kept(p)' = Kept(p)
  PROVE  job'[p].since \in 0..clock' /\ \A d \in Kept(p)' : Backed(d, job[p].since)'
<1>1. clock \in Nat
  BY Limits DEF RefTimes, Time
<1>2. job[p].since \in 0..clock /\ \A d \in Kept(p) : Backed(d, job[p].since)
  BY DEF RefsBacked
<1>3. \A d \in Kept(p)' : Backed(d, job[p].since)'
  BY <1>2 DEF StaysBacked, Backed
<1>4. QED
  BY <1>1, <1>2, <1>3

LEMMA BackedKept ==
  ASSUME RefTimes, RefsBacked, StaysBacked, PrunesGoOn, clock \in 0..clock', clock' \in Nat, UNCHANGED pruned
  PROVE  RefsBacked'
<1>1. clock \in Nat /\ pruned' \in 0..clock' /\ DOMAIN job' = Pruners
  BY Limits DEF RefTimes, Time, RefsBacked, PrunesGoOn
<1>2. \A d \in Digests : Backed(d, pruned)'
  BY DEF RefsBacked, StaysBacked, Backed
<1>3. ASSUME NEW p \in Pruners, Pruning(p)'
      PROVE  /\ DOMAIN job'[p] = DOMAIN NoJob /\ job'[p].since \in 0..clock'
             /\ \A d \in Kept(p)' : Backed(d, job[p].since)'
  <2>1. /\ Pruning(p) /\ DOMAIN job'[p] = DOMAIN NoJob /\ job'[p].since = job[p].since
        /\ Kept(p)' = Kept(p)
    BY <1>3 DEF PrunesGoOn
  <2>2. QED
    BY <2>1, JobKept
<1>4. QED
  BY <1>1, <1>2, <1>3 DEF RefsBacked, NoJob

(* A step of an actor that is not about to remove references, and evicts nothing. *)
LEMMA MoveKeeps ==
  ASSUME RefTimes, NEW a \in Actors, pc[a] # "evictrefs",
         \A b \in Actors : b # a => pc'[b] = pc[b] /\ at'[b] = at[b],
         DOMAIN entries \subseteq DOMAIN entries', RefsStamped
  PROVE  StaysBacked
<1>1. EntriesEvicted /\ EvictionsGoOn
  BY DEF EntriesEvicted, EvictionsGoOn
<1>2. QED
  BY <1>1, StepKeeps

LEMMA GotoOthers ==
  ASSUME RefTimes, NEW a \in Actors, NEW l, Goto(a, l)
  PROVE  pc'[a] = l /\ \A b \in Actors : b # a => pc'[b] = pc[b]
BY DEF Goto, RefTimes

LEMMA EvictEntryKeeps ==
  ASSUME RefTimes, NEW a \in Actors, EvictEntry(a)
  PROVE  StaysBacked /\ pc'[a] = "evictrefs" /\ \A b \in Actors : b # a => pc'[b] = pc[b]
<1>1. /\ pc[a] = "evictentry" /\ pc'[a] = "evictrefs" /\ UNCHANGED <<refs, at>>
      /\ \A b \in Actors : b # a => pc'[b] = pc[b]
  BY GotoOthers DEF EvictEntry
<1>2. entries' = Without(entries, {at[a]})
  BY DEF EvictEntry
<1>3. DOMAIN entries' = DOMAIN entries \ {at[a]}
  BY <1>2 DEF Without, Restrict
<1>4. EntriesEvicted /\ EvictionsGoOn /\ RefsStamped
  BY <1>1, <1>3 DEF EntriesEvicted, EvictionsGoOn, RefsStamped
<1>5. QED
  BY <1>1, <1>4, StepKeeps

LEMMA RemoveRefsKeeps ==
  ASSUME RefTimes, NEW a \in Actors, removeRefsByDigest(a), UNCHANGED <<entries, at>>,
         \A b \in Actors : b # a => pc'[b] = pc[b]
  PROVE  StaysBacked
<1>1. pc[a] = "evictrefs" /\ refs' = RestrictValues(refs, LAMBDA entry : entry.digest # at[a])
  BY DEF removeRefsByDigest
<1>2. \A r \in DOMAIN refs' : r \in DOMAIN refs /\ refs'[r] = refs[r] /\ refs[r].digest # at[a]
  BY <1>1 DEF RestrictValues, Restrict
<1>3. EntriesEvicted /\ EvictionsGoOn /\ RefsStamped
  BY <1>2 DEF EntriesEvicted, EvictionsGoOn, RefsStamped
<1>4. QED
  BY <1>3, StepKeeps

LEMMA EvictFailsKeeps ==
  ASSUME RefTimes, NEW a \in Actors, NEW l, EvictFails(a), Goto(a, l)
  PROVE  StaysBacked /\ \A b \in Actors : b # a => pc'[b] = pc[b]
<1>1. pc[a] = "evictentry" /\ UNCHANGED <<entries, refs, at>>
  BY DEF EvictFails, dirVars
<1>2. QED
  BY <1>1, GotoOthers, MoveKeeps DEF RefsStamped

-------------------------------------------------------------------------------
LEMMA CallerQuiet ==
  ASSUME RefTimes, NEW c \in Callers, Caller(c)
  PROVE  /\ UNCHANGED <<clock, job, pruned>>
         /\ \A b \in Actors : b # c => pc'[b] = pc[b]
<1>1. c \in Actors
  BY DEF Actors
<1>2. UNCHANGED <<clock, job, pruned>>
  BY DEF Caller, LookupByRef, hasCachedBlob, ResolveLayer, resolveLayerDescriptor, Remember,
         UpdateRefIndex, Load, Hit, Touch, SelfHeal,
         EvictBlob, EvictEntry, EvictFails, Lock, Download, SaveComplete, history
<1>3. \E l : Goto(c, l)
  BY DEF Caller, LookupByRef, hasCachedBlob, ResolveLayer, resolveLayerDescriptor, Remember,
         UpdateRefIndex, Load, Hit, Touch, SelfHeal,
         EvictBlob, EvictEntry, Lock, Download, SaveComplete
<1>4. QED
  BY <1>1, <1>2, <1>3, GotoOthers

LEMMA HealKeeps ==
  ASSUME RefTimes, NEW c \in Callers, SelfHeal(c), \A b \in Actors : b # c => pc'[b] = pc[b]
  PROVE  StaysBacked
<1>1. c \in Actors
  BY DEF Actors
<1>2. CASE EvictBlob(c, "heal")
  <2>1. pc[c] = "heal" /\ UNCHANGED <<entries, refs, at>>
    BY <1>2 DEF EvictBlob
  <2>2. QED
    BY <1>1, <2>1, MoveKeeps DEF RefsStamped
<1>3. CASE EvictEntry(c)
  BY <1>1, <1>3, EvictEntryKeeps
<1>4. CASE removeRefsByDigest(c) /\ UNCHANGED <<entries, at>>
  BY <1>1, <1>4, RemoveRefsKeeps
<1>5. CASE EvictFails(c) /\ Goto(c, "lock")
  BY <1>1, <1>5, EvictFailsKeeps
<1>6. QED
  BY <1>2, <1>3, <1>4, <1>5 DEF SelfHeal

LEMMA CallerKeeps ==
  ASSUME RefTimes, RefsBacked, NEW c \in Callers, Caller(c)
  PROVE  RefsBacked'
<1>1. /\ c \in Actors /\ UNCHANGED <<clock, job, pruned>>
      /\ \A b \in Actors : b # c => pc'[b] = pc[b]
  BY CallerQuiet DEF Actors
<1>2. StaysBacked
  <2>1. CASE SelfHeal(c)
    BY <1>1, <2>1, HealKeeps
  <2>2. CASE LookupByRef(c) \/ hasCachedBlob(c) \/ ResolveLayer(c) \/ resolveLayerDescriptor(c)
          \/ Remember(c) \/ Load(c) \/ Hit(c) \/ Lock(c)
    <3>1. pc[c] # "evictrefs" /\ UNCHANGED <<entries, refs>>
      BY <2>2 DEF LookupByRef, hasCachedBlob, ResolveLayer, resolveLayerDescriptor, Remember, Load, Hit, Lock, dirVars
    <3>2. \A b \in Actors : b # c => at'[b] = at[b]
      BY <2>2 DEF LookupByRef, hasCachedBlob, ResolveLayer, resolveLayerDescriptor, Remember, Load, Hit, Lock, RefTimes
    <3>3. QED
      BY <1>1, <3>1, <3>2, MoveKeeps DEF RefsStamped
  <2>3. CASE UpdateRefIndex(c)
    <3>1. pc[c] # "evictrefs" /\ UNCHANGED <<entries, at>>
      BY <2>3 DEF UpdateRefIndex
    <3>2. RefsStamped
      BY <2>3 DEF UpdateRefIndex, RefsStamped, Stored
    <3>3. QED
      BY <1>1, <3>1, <3>2, MoveKeeps
  <2>4. CASE Touch(c) \/ Download(c) \/ SaveComplete(c)
    <3>1. pc[c] # "evictrefs" /\ UNCHANGED <<refs, at>>
      BY <2>4 DEF Touch, Download, SaveComplete
    <3>2. DOMAIN entries \subseteq DOMAIN entries'
      BY <2>4 DEF Touch, Download, SaveComplete, SaveEntry
    <3>3. QED
      BY <1>1, <3>1, <3>2, MoveKeeps DEF RefsStamped
  <2>5. QED
    BY <2>1, <2>2, <2>3, <2>4 DEF Caller
<1>3. PrunesGoOn
  <2>1. \A p \in Pruners : p \in Actors /\ p # c
    BY PrunersAssumption DEF Actors
  <2>2. \A p \in Pruners : Pruning(p)' => Pruning(p)
    BY <1>1, <2>1 DEF Pruning
  <2>3. QED
    BY <1>1, <2>2 DEF PrunesGoOn, RefsBacked, Kept
<1>4. clock \in 0..clock' /\ clock' \in Nat
  BY <1>1, Limits DEF RefTimes, Time
<1>5. QED
  BY <1>1, <1>2, <1>3, <1>4, BackedKept

(* A step of a Prune under way, which leaves alone what it keeps. *)
LEMMA PruneGoesOn ==
  ASSUME RefTimes, RefsBacked, NEW p \in Pruners, Pruning(p), StaysBacked, UNCHANGED <<clock, pruned>>,
         \A b \in Actors : b # p => pc'[b] = pc[b],
         \/ UNCHANGED job
         \/ \E S : job' = [job EXCEPT ![p].left = S]
         \/ \E S : job' = [job EXCEPT ![p].failed = S]
         \/ pc'[p] = "idle" /\ \E j : job' = [job EXCEPT ![p] = j]
  PROVE  RefsBacked'
<1>1. clock \in 0..clock' /\ clock' \in Nat
  BY Limits DEF RefTimes, Time
<1>2. DOMAIN job' = Pruners /\ \A q \in Pruners : q # p => job'[q] = job[q]
  BY DEF RefsBacked
<1>3. \A q \in Pruners : q \in Actors
  BY DEF Actors
<1>4. DOMAIN job[p] = {"seen", "remove", "failed", "left", "since"} /\ DOMAIN job = Pruners
  BY DEF RefsBacked, NoJob
<1>5. ASSUME pc'[p] # "idle"
      PROVE  /\ job'[p].since = job[p].since /\ DOMAIN job'[p] = DOMAIN NoJob
             /\ job'[p].seen = job[p].seen /\ job'[p].remove = job[p].remove
  BY <1>4, <1>5 DEF NoJob
<1>6. ASSUME NEW q \in Pruners, Pruning(q)'
      PROVE  /\ Pruning(q) /\ DOMAIN job'[q] = DOMAIN NoJob /\ job'[q].since = job[q].since
             /\ Kept(q)' = Kept(q)
  <2>1. CASE q = p
    BY <1>5, <1>6, <2>1 DEF Pruning, Kept
  <2>2. CASE q # p
    <3>1. pc'[q] = pc[q] /\ job'[q] = job[q]
      BY <1>2, <1>3, <2>2
    <3>2. QED
      BY <1>6, <3>1 DEF Pruning, Kept, RefsBacked
  <2>3. QED
    BY <2>1, <2>2
<1>7. PrunesGoOn
  BY <1>2, <1>6 DEF PrunesGoOn
<1>8. QED
  BY <1>1, <1>7, BackedKept

LEMMA BeginKeeps ==
  ASSUME RefTimes, RefsBacked, NEW p \in Pruners, PruneBegin(p)
  PROVE  RefsBacked'
<1>1. p \in Actors /\ p \notin Callers
  BY PrunersAssumption DEF Actors
<1>2. /\ UNCHANGED <<entries, refs, clock, at, pruned>> /\ pc[p] = "idle" /\ pc'[p] = "prune"
      /\ \A b \in Actors : b # p => pc'[b] = pc[b]
  BY <1>1, GotoOthers DEF PruneBegin, dirVars, history
<1>3. clock \in Nat /\ clock \in 0..clock' /\ clock' \in Nat
  BY <1>2, Limits DEF RefTimes, Time
<1>4. StaysBacked
  BY <1>1, <1>2, MoveKeeps DEF RefsStamped
<1>5. PICK remove : job' = [job EXCEPT ![p] = [seen |-> entries, remove |-> remove, failed |-> {},
                                               left |-> DOMAIN entries, since |-> clock]]
  BY DEF PruneBegin
<1>6. /\ DOMAIN job' = Pruners /\ \A q \in Pruners : q # p => job'[q] = job[q]
      /\ job'[p] = [seen |-> entries, remove |-> remove, failed |-> {}, left |-> DOMAIN entries, since |-> clock]
  BY <1>5 DEF RefsBacked
<1>7. \A d \in Digests : Backed(d, pruned)'
  BY <1>2, <1>4 DEF RefsBacked, StaysBacked, Backed
<1>8. \A d \in Kept(p)' : Backed(d, job[p].since)'
  BY <1>2, <1>6 DEF Kept, Backed
<1>9. ASSUME NEW q \in Pruners, q # p, Pruning(q)'
      PROVE  /\ DOMAIN job'[q] = DOMAIN NoJob /\ job'[q].since \in 0..clock'
             /\ \A d \in Kept(q)' : Backed(d, job[q].since)'
  <2>1. q \in Actors /\ job'[q] = job[q]
    BY <1>6, <1>9 DEF Actors
  <2>2. Pruning(q) /\ Kept(q)' = Kept(q)
    BY <1>2, <1>9, <2>1 DEF Pruning, Kept
  <2>3. DOMAIN job'[q] = DOMAIN NoJob
    BY <2>1, <2>2 DEF RefsBacked
  <2>4. job'[q].since = job[q].since
    BY <2>1
  <2>5. QED
    BY <1>3, <1>4, <2>2, <2>3, <2>4, JobKept
<1>10. DOMAIN job'[p] = DOMAIN NoJob /\ job'[p].since \in 0..clock'
  BY <1>2, <1>3, <1>6 DEF NoJob
<1>11. pruned' \in 0..clock'
  BY <1>2 DEF RefsBacked
<1>12. QED
  BY <1>6, <1>7, <1>8, <1>9, <1>10, <1>11 DEF RefsBacked, NoJob

LEMMA RemoveKeeps ==
  ASSUME RefTimes, RefsBacked, NEW p \in Pruners, RemoveEntry(p), Pruning(p)
  PROVE  RefsBacked'
<1>1. p \in Actors
  BY DEF Actors
<1>2. CASE /\ \E d \in job[p].left \cap job[p].remove :
                /\ pc[p] = "prune"
                /\ at' = [at EXCEPT ![p] = d]
                /\ job' = [job EXCEPT ![p].left = @ \ {d}]
           /\ Goto(p, "evictentry")
           /\ UNCHANGED <<entries, refs, tag, clock, memo, mu, ref, history>>
  <2>1. \A b \in Actors : b # p => pc'[b] = pc[b] /\ at'[b] = at[b]
    BY <1>1, <1>2, GotoOthers DEF RefTimes
  <2>2. StaysBacked
    BY <1>1, <1>2, <2>1, MoveKeeps DEF RefsStamped
  <2>3. UNCHANGED <<clock, pruned>> /\ \E S : job' = [job EXCEPT ![p].left = S]
    BY <1>2 DEF history
  <2>4. QED
    BY <2>1, <2>2, <2>3, PruneGoesOn
<1>3. CASE EvictEntry(p)
  <2>1. StaysBacked /\ \A b \in Actors : b # p => pc'[b] = pc[b]
    BY <1>1, <1>3, EvictEntryKeeps
  <2>2. UNCHANGED <<clock, job, pruned>>
    BY <1>3 DEF EvictEntry, history
  <2>3. QED
    BY <2>1, <2>2, PruneGoesOn
<1>4. CASE /\ removeRefsByDigest(p) /\ Goto(p, "prune")
           /\ UNCHANGED <<entries, blobs, tag, clock, memo, mu, at, ref, job, history>>
  <2>1. \A b \in Actors : b # p => pc'[b] = pc[b]
    BY <1>1, <1>4, GotoOthers
  <2>2. StaysBacked
    BY <1>1, <1>4, <2>1, RemoveRefsKeeps
  <2>3. UNCHANGED <<clock, job, pruned>>
    BY <1>4 DEF history
  <2>4. QED
    BY <2>1, <2>2, <2>3, PruneGoesOn
<1>5. CASE /\ EvictFails(p) /\ Goto(p, "prune")
           /\ job' = [job EXCEPT ![p].failed = @ \cup {at[p]}]
  <2>1. StaysBacked /\ \A b \in Actors : b # p => pc'[b] = pc[b]
    BY <1>1, <1>5, EvictFailsKeeps
  <2>2. UNCHANGED <<clock, pruned>> /\ \E S : job' = [job EXCEPT ![p].failed = S]
    BY <1>5 DEF EvictFails, history
  <2>3. QED
    BY <2>1, <2>2, PruneGoesOn
<1>6. QED
  BY <1>2, <1>3, <1>4, <1>5 DEF RemoveEntry

(* References to what was not kept go; what was kept is backed since the Prune began. *)
LEMMA CleanupKeeps ==
  ASSUME RefTimes, RefsBacked, NEW p \in Pruners, cleanupOrphanedRefs(p)
  PROVE  RefsBacked'
<1>1. p \in Actors
  BY DEF Actors
<1>2. /\ pc[p] = "prune" /\ pc'[p] = "idle" /\ \A b \in Actors : b # p => pc'[b] = pc[b]
      /\ refs' = RestrictValues(refs, LAMBDA entry : entry.digest \in Kept(p))
      /\ pruned' = job[p].since /\ job' = [job EXCEPT ![p] = NoJob]
      /\ UNCHANGED <<entries, clock, at>>
  BY <1>1, GotoOthers DEF cleanupOrphanedRefs
<1>3. \A r \in DOMAIN refs' : r \in DOMAIN refs /\ refs'[r] = refs[r] /\ refs[r].digest \in Kept(p)
  BY <1>2 DEF RestrictValues, Restrict
<1>4. StaysBacked
  BY <1>1, <1>2, <1>3, MoveKeeps DEF RefsStamped
<1>5. clock \in Nat /\ clock \in 0..clock' /\ clock' \in Nat
  BY <1>2, Limits DEF RefTimes, Time
<1>6. Pruning(p) /\ job[p].since \in 0..clock /\ \A d \in Kept(p) : Backed(d, job[p].since)
  BY <1>2 DEF RefsBacked, Pruning
<1>7. pruned' \in 0..clock'
  BY <1>2, <1>6
<1>8. \A d \in Digests : Backed(d, pruned)'
  <2>1. ASSUME NEW d \in Kept(p) PROVE Backed(d, pruned)'
    BY <1>2, <1>4, <1>6 DEF StaysBacked, Backed
  <2>2. ASSUME NEW d, d \notin Kept(p) PROVE Backed(d, pruned)'
    BY <1>3, <2>2 DEF Backed
  <2>3. QED
    BY <2>1, <2>2
<1>9. DOMAIN job' = Pruners /\ \A q \in Pruners : q # p => job'[q] = job[q]
  BY <1>2 DEF RefsBacked
<1>10. ASSUME NEW q \in Pruners, Pruning(q)'
       PROVE  /\ DOMAIN job'[q] = DOMAIN NoJob /\ job'[q].since \in 0..clock'
              /\ \A d \in Kept(q)' : Backed(d, job[q].since)'
  <2>1. q # p /\ q \in Actors
    BY <1>2, <1>10 DEF Pruning, Actors
  <2>2. job'[q] = job[q] /\ Pruning(q) /\ Kept(q)' = Kept(q)
    BY <1>2, <1>9, <1>10, <2>1 DEF Pruning, Kept
  <2>3. DOMAIN job'[q] = DOMAIN NoJob
    BY <2>2 DEF RefsBacked
  <2>4. job'[q].since = job[q].since
    BY <2>2
  <2>5. QED
    BY <1>4, <1>5, <2>2, <2>3, <2>4, JobKept
<1>11. QED
  BY <1>7, <1>8, <1>9, <1>10 DEF RefsBacked, NoJob

LEMMA PrunerKeeps ==
  ASSUME RefTimes, RefsBacked, NEW p \in Pruners, Pruner(p)
  PROVE  RefsBacked'
<1>1. p \in Actors
  BY DEF Actors
<1>2. CASE PruneBegin(p)
  BY <1>2, BeginKeeps
<1>3. CASE KeepEntry(p)
  <2>1. /\ Pruning(p) /\ UNCHANGED <<entries, refs, clock, pc, at, pruned>>
        /\ \E S : job' = [job EXCEPT ![p].left = S]
    BY <1>3 DEF KeepEntry, Pruning, dirVars, history
  <2>2. StaysBacked
    BY <1>1, <2>1 DEF StaysBacked, Backed
  <2>3. QED
    BY <2>1, <2>2, PruneGoesOn
<1>4. CASE RemoveEntry(p)
  <2>1. Pruning(p)
    BY <1>4 DEF RemoveEntry, EvictEntry, removeRefsByDigest, EvictFails, Pruning
  <2>2. QED
    BY <1>4, <2>1, RemoveKeeps
<1>5. CASE PruneCancelled(p)
  <2>1. /\ pc[p] = "prune" /\ pc'[p] = "idle" /\ \A b \in Actors : b # p => pc'[b] = pc[b]
        /\ UNCHANGED <<entries, refs, clock, at, pruned>> /\ job' = [job EXCEPT ![p] = NoJob]
    BY <1>1, <1>5, GotoOthers DEF PruneCancelled, dirVars, history
  <2>2. StaysBacked
    BY <1>1, <2>1, MoveKeeps DEF RefsStamped
  <2>3. Pruning(p) /\ \E j : job' = [job EXCEPT ![p] = j]
    BY <2>1 DEF Pruning
  <2>4. QED
    BY <2>1, <2>2, <2>3, PruneGoesOn
<1>6. CASE cleanupOrphanedRefs(p)
  BY <1>6, CleanupKeeps
<1>7. QED
  BY <1>2, <1>3, <1>4, <1>5, <1>6 DEF Pruner

LEMMA RefKeeps ==
  ASSUME RefTimes, RefsBacked, [RefNext]_refVars
  PROVE  RefsBacked'
<1>1. ASSUME UNCHANGED <<entries, refs, pc, at, job, pruned>>, clock' \in {clock, clock + 1}
      PROVE  RefsBacked'
  <2>1. clock \in Nat /\ clock \in 0..clock' /\ clock' \in Nat
    BY <1>1, Limits DEF RefTimes, Time
  <2>2. StaysBacked
    BY <1>1 DEF StaysBacked, Backed
  <2>3. PrunesGoOn
    BY <1>1 DEF PrunesGoOn, RefsBacked, Pruning, Kept
  <2>4. QED
    BY <1>1, <2>1, <2>2, <2>3, BackedKept
<1>2. CASE MoveTag \/ Tick \/ UNCHANGED refVars
  BY <1>1, <1>2 DEF MoveTag, Tick, refVars, dirVars, callVars, history
<1>3. QED
  BY <1>2, CallerKeeps, PrunerKeeps DEF RefNext

(* For any number of calls and prunes, in any processes, that fail or are cancelled: a  *)
(* reference from before the last complete Prune points to a digest with an entry       *)
(* (cleanupOrphanedRefs, removeRefsByDigest).                                            *)
THEOREM AlwaysBacked == RefSpec => []OldRefsBacked
<1>1. RefTimes /\ RefsBacked /\ [RefNext]_refVars => RefsBacked'
  BY RefKeeps
<1>2. RefTimes /\ RefsBacked => OldRefsBacked
  <2> SUFFICES ASSUME RefTimes, RefsBacked, NEW r \in DOMAIN refs, refs[r].validated < pruned
               PROVE  \/ refs[r].digest \in DOMAIN entries
                      \/ \E a \in Actors : pc[a] = "evictrefs" /\ at[a] = refs[r].digest
    BY DEF OldRefsBacked
  <2>1. refs[r].digest \in Digests /\ refs[r].validated \in Nat /\ clock \in Nat /\ pruned \in 0..clock
    BY Limits DEF RefTimes, RefsBacked, Time
  <2>2. Backed(refs[r].digest, pruned)
    BY <2>1 DEF RefsBacked
  <2>3. QED
    BY <2>1, <2>2 DEF Backed
<1>3. QED
  BY TimesInvariant, BackedBegins, <1>1, <1>2, PTL DEF RefSpec

-------------------------------------------------------------------------------
(* Types *)

LEMMA PartialIs ==
  ASSUME NEW S, NEW T, NEW f \in PartialFcn(S, T)
  PROVE  DOMAIN f \in SUBSET S /\ f \in [DOMAIN f -> T]
<1>1. PICK D \in SUBSET S : f \in [D -> T]
  BY DEF PartialFcn
<1>2. QED
  BY <1>1

LEMMA PartialFrom ==
  ASSUME NEW S, NEW T, NEW D \in SUBSET S, NEW f \in [D -> T]
  PROVE  f \in PartialFcn(S, T)
BY DEF PartialFcn

-------------------------------------------------------------------------------
(* The selection *)

LEMMA Sized ==
  ASSUME NEW S \in SUBSET Digests
  PROVE  /\ IsFiniteSet(S) /\ TotalSize(S) \in Nat
         /\ \A T \in SUBSET S : TotalSize(T) <= TotalSize(S)
         /\ \A d \in S : TotalSize(S \ {d}) = TotalSize(S) - SizeOf[d]
<1>1. \A T : TotalSize(T) = SumOver(SizeOf, T)
  BY DEF TotalSize, SumOver
<1>2. ASSUME NEW T \in SUBSET Digests
      PROVE  /\ IsFiniteSet(T) /\ Integral(SizeOf, T) /\ \A d \in T : SizeOf[d] \in Nat
             /\ SumOver(SizeOf, T) \in Nat
  <2>1. IsFiniteSet(T) /\ \A d \in T : SizeOf[d] \in Nat
    BY DigestsAssumption, SizeOfAssumption, FS_Subset
  <2>2. QED
    BY <2>1, SumNat
<1>3. ASSUME NEW T \in SUBSET S PROVE SumOver(SizeOf, T) <= SumOver(SizeOf, S)
  BY <1>2, SumMonotone
<1>4. ASSUME NEW d \in S PROVE SumOver(SizeOf, S \ {d}) = SumOver(SizeOf, S) - SizeOf[d]
  <2>1. SumOver(SizeOf, S) = SizeOf[d] + SumOver(SizeOf, S \ {d})
    BY <1>2, SumTake
  <2>2. SizeOf[d] \in Nat /\ SumOver(SizeOf, S) \in Nat /\ SumOver(SizeOf, S \ {d}) \in Nat
    BY <1>2
  <2>3. QED
    BY <2>1, <2>2
<1>5. QED
  BY <1>1, <1>2, <1>3, <1>4

First(order, k) == {order[i] : i \in 1..k}

(* What markLRUEntries has after k entries of the order: the first m are marked, where it *)
(* stops as soon as the rest is within the limit.                                         *)
Walked(order, S, k, walk) ==
  \E m \in 0..k :
    /\ walk.marked = First(order, m)
    /\ walk.total = TotalSize(S \ First(order, m))
    /\ m < k => walk.total <= MaxSize
    /\ m > 0 => TotalSize(S \ First(order, m - 1)) > MaxSize

LEMMA WalkOne ==
  ASSUME NEW S \in SUBSET Digests, NEW order \in SetToSeqs(S), NEW k \in 1..Cardinality(S),
         NEW walk, NEW next, Walked(order, S, k - 1, walk),
         next = IF walk.total <= MaxSize THEN walk
                ELSE [marked |-> walk.marked \cup {order[k]}, total |-> walk.total - SizeOf[order[k]]]
  PROVE  Walked(order, S, k, next)
<1>1. PICK m \in 0..k - 1 : /\ walk.marked = First(order, m)
                            /\ walk.total = TotalSize(S \ First(order, m))
                            /\ m < k - 1 => walk.total <= MaxSize
                            /\ m > 0 => TotalSize(S \ First(order, m - 1)) > MaxSize
  BY DEF Walked
<1>2. m \in 0..k /\ k \in Nat /\ m \in Nat /\ MaxSize \in Nat
  BY LimitAssumption, Sized, OrderOf
<1>3. CASE walk.total <= MaxSize
  BY <1>1, <1>2, <1>3 DEF Walked
<1>4. CASE ~(walk.total <= MaxSize)
  <2>1. m = k - 1 /\ k - 1 \in Nat
    BY <1>1, <1>2, <1>4
  <2>2. /\ Cardinality(S) \in Nat /\ order[k] \in S /\ IsFiniteSet(S)
        /\ \A i \in 1..k - 1 : order[i] # order[k]
    BY Sized, OrderOf
  <2>3. order[k] \in S \ First(order, k - 1)
    BY <2>2 DEF First
  <2>4. 1..k = 1..k - 1 \cup {k}
    BY <1>2
  <2>5. First(order, k) = First(order, k - 1) \cup {order[k]}
    BY <2>4 DEF First
  <2>6. S \ First(order, k) = (S \ First(order, k - 1)) \ {order[k]}
    BY <2>5
  <2>7. TotalSize((S \ First(order, k - 1)) \ {order[k]}) = TotalSize(S \ First(order, k - 1)) - SizeOf[order[k]]
    BY <2>3, Sized
  <2>8. TotalSize(S \ First(order, k)) = TotalSize(S \ First(order, k - 1)) - SizeOf[order[k]]
    BY <2>6, <2>7, Zenon
  <2>9. TotalSize(S \ First(order, k - 1)) \in Nat
    BY Sized
  <2>10. /\ next.marked = First(order, k) /\ next.total = TotalSize(S \ First(order, k))
    BY <1>1, <1>4, <2>1, <2>5, <2>8
  <2>11. TotalSize(S \ First(order, k - 1)) > MaxSize
    BY <1>1, <1>2, <1>4, <2>1, <2>9
  <2>12. k \in 0..k
    BY <1>2
  <2>13. ~(k < k)
    BY <1>2
  <2>14. QED
    BY <2>10, <2>11, <2>12, <2>13, Zenon DEF Walked
<1>5. QED
  BY <1>3, <1>4

LEMMA MarkedPrefix ==
  ASSUME NEW S \in SUBSET Digests, NEW order \in SetToSeqs(S)
  PROVE  \E m \in 0..Cardinality(S) :
           /\ markLRUEntries(order) = First(order, m)
           /\ TotalSize(S \ First(order, m)) <= MaxSize
           /\ m > 0 => TotalSize(S \ First(order, m - 1)) > MaxSize
<1> DEFINE n == Cardinality(S)
           base == [marked |-> {}, total |-> TotalSize(ToSet(order))]
           mark(walk, d) == IF walk.total <= MaxSize THEN walk
                            ELSE [marked |-> walk.marked \cup {d}, total |-> walk.total - SizeOf[d]]
           V == [marked : SUBSET S, total : Int]
           step == [p \in (1..n) \X V |-> mark(p[2], order[p[1]])]
<1>1. /\ n \in Nat /\ DOMAIN order = 1..n /\ \A i \in 1..n : order[i] \in S
      /\ ToSet(order) = S
  <2>1. IsFiniteSet(S)
    BY Sized
  <2>2. /\ n \in Nat /\ order \in [1..n -> S] /\ \A x \in S : \E i \in 1..n : order[i] = x
    BY <2>1, OrderOf
  <2> HIDE DEF n
  <2>3. ToSet(order) = S
    BY <2>2 DEF ToSet
  <2>4. QED
    BY <2>2, <2>3
<1>2. base \in V
  BY <1>1, Sized
<1>3. step \in [(1..n) \X V -> V]
  <2>1. ASSUME NEW walk \in V, NEW d \in S PROVE mark(walk, d) \in V
    <3>1. SizeOf[d] \in Int
      BY SizeOfAssumption
    <3>2. QED
      BY <3>1
  <2> HIDE DEF mark, V
  <2>2. QED
    BY <1>1, <2>1
<1>4. PICK f : FoldsLeft(f, n, V, step, base)
  <2>1. Steps(step, n, V)
    BY <1>3 DEF Steps
  <2> HIDE DEF n, V, base, step
  <2>2. QED
    BY <1>1, <1>2, <2>1, FoldExists
<1>5. f = [s \in SUBSET (1..n) |-> IF s = {} THEN base ELSE mark(f[s \ {Max(s)}], order[Max(s)])]
  <2>1. ASSUME NEW s \in SUBSET (1..n), s # {}
        PROVE  step[<<Max(s), f[s \ {Max(s)}]>>] = mark(f[s \ {Max(s)}], order[Max(s)])
    <3>1. Max(s) \in s
      <4>1. IsFiniteSet(1..n) /\ 1..n \in SUBSET Int
        BY <1>1, FS_Interval
      <4>2. IsFiniteSet(s) /\ s \in SUBSET Int
        BY <4>1, FS_Subset
      <4>3. QED
        BY <2>1, <4>2, HasMax
    <3>2. f[s \ {Max(s)}] \in V
      <4> HIDE DEF V
      <4>1. QED
        BY <1>4 DEF FoldsLeft
    <3> HIDE DEF mark, V, n
    <3>3. QED
      BY <3>1, <3>2
  <2> HIDE DEF step, base, mark, n
  <2>2. QED
    BY <1>4, <2>1 DEF FoldsLeft
<1>6. PICK g : /\ g = [s \in SUBSET (1..n) |-> IF s = {} THEN base ELSE mark(g[s \ {Max(s)}], order[Max(s)])]
               /\ markLRUEntries(order) = g[1..n].marked
  <2> HIDE DEF n
  <2>1. QED
    BY <1>1, <1>5 DEF markLRUEntries, FoldLeft, MapThenFoldSet
<1>7. ASSUME NEW k \in 0..n PROVE Walked(order, S, k, g[1..k])
  <2> DEFINE X == {j \in 0..n : ~Walked(order, S, j, g[1..j])}
  <2>1. SUFFICES ASSUME X # {} PROVE FALSE
    OBVIOUS
  <2>2. PICK j \in X : \A i \in X : j <= i
    <3>1. X \in SUBSET Nat
      BY <1>1
    <3> HIDE DEF X
    <3>2. QED
      BY <2>1, <3>1, LeastNumber
  <2>3. j # 0
    <3>1. SUFFICES Walked(order, S, 0, g[1..0])
      BY <2>2
    <3>2. 1..0 = {} /\ {} \in SUBSET (1..n)
      OBVIOUS
    <3>3. g[1..0] = base
      <4> HIDE DEF base, mark, n
      <4>1. QED
        BY <1>6, <3>2
    <3>4. First(order, 0) = {} /\ S \ {} = S
      BY <3>2 DEF First
    <3>5. TotalSize(S \ First(order, 0)) = TotalSize(ToSet(order))
      BY <1>1, <3>4, Zenon
    <3>6. base.marked = First(order, 0) /\ base.total = TotalSize(S \ First(order, 0))
      BY <3>4, <3>5
    <3>7. 0 \in 0..0
      OBVIOUS
    <3>8. QED
      BY <3>3, <3>6, <3>7 DEF Walked
  <2>4. j \in 1..n /\ j \in Nat /\ j - 1 \in 0..n
    BY <1>1, <2>2, <2>3
  <2>5. Walked(order, S, j - 1, g[1..j - 1])
    <3>1. j - 1 \notin X
      <4>1. ~(j <= j - 1)
        BY <2>4
      <4> HIDE DEF X
      <4>2. QED
        BY <2>2, <4>1
    <3>2. QED
      BY <2>4, <3>1
  <2>6. g[1..j] = mark(g[1..j - 1], order[j])
    <3>1. Max(1..j) = j /\ (1..j) \ {j} = 1..j - 1
      BY <2>3, <2>4, MaxOfPrefix
    <3>2. 1..j \in SUBSET (1..n) /\ 1..j # {}
      <4>1. 1..j \subseteq 1..n /\ j \in 1..j
        BY <1>1, <2>4
      <4>2. QED
        BY <4>1
    <3> HIDE DEF base, mark, n
    <3>3. g[1..j] = mark(g[(1..j) \ {Max(1..j)}], order[Max(1..j)])
      BY <1>6, <3>2
    <3>4. QED
      BY <3>1, <3>3
  <2>7. Walked(order, S, j, g[1..j])
    <3> DEFINE walk == g[1..j - 1]
               next == g[1..j]
    <3>1. next = IF walk.total <= MaxSize THEN walk
                 ELSE [marked |-> walk.marked \cup {order[j]}, total |-> walk.total - SizeOf[order[j]]]
      BY <2>6
    <3>2. Walked(order, S, j - 1, walk)
      BY <2>5
    <3> HIDE DEF walk, next
    <3>3. Walked(order, S, j, next)
      BY <2>4, <3>1, <3>2, WalkOne
    <3>4. QED
      BY <3>3 DEF next
  <2>8. QED
    BY <2>2, <2>7
<1>8. Walked(order, S, n, g[1..n])
  BY <1>1, <1>7
<1>9. PICK m \in 0..n : /\ g[1..n].marked = First(order, m)
                        /\ g[1..n].total = TotalSize(S \ First(order, m))
                        /\ m < n => g[1..n].total <= MaxSize
                        /\ m > 0 => TotalSize(S \ First(order, m - 1)) > MaxSize
  BY <1>8 DEF Walked
<1>10. ASSUME m = n PROVE TotalSize(S \ First(order, m)) <= MaxSize
  <2>1. S \ First(order, m) = {}
    BY <1>1, <1>10 DEF First, ToSet
  <2>2. TotalSize({}) = 0
    <3>1. SumOver(SizeOf, {}) = 0
      BY SumNone
    <3>2. QED
      BY <3>1 DEF TotalSize, SumOver
  <2>3. TotalSize(S \ First(order, m)) = TotalSize({})
    BY <2>1, Zenon
  <2>4. QED
    BY <2>2, <2>3, LimitAssumption
<1>11. QED
  <2> HIDE DEF n
  <2>1. m < n \/ m = n
    BY <1>1
  <2>2. QED
    BY <1>6, <1>9, <1>10, <2>1 DEF n

(* What selectEntriesToRemove selects: what is too old, and of the rest the least recently *)
(* used as far as the size limit needs it.                                                 *)
LEMMA SelectionIs ==
  ASSUME NEW seen \in PartialFcn(Digests, Time), NEW now,
         NEW remove \in selectEntriesToRemove(seen, now)
  PROVE  LET forSize == remove \ TooOld(seen, now)
             kept == DOMAIN seen \ remove
         IN /\ remove \in SUBSET Digests /\ kept \in SUBSET Digests
            /\ TooOld(seen, now) \subseteq remove
            /\ MaxSize > 0 => TotalSize(kept) <= MaxSize
            /\ \A d \in forSize, k \in kept : seen[d] <= seen[k]
            /\ forSize # {} =>
                 \E d \in forSize : /\ \A e \in forSize : seen[e] <= seen[d]
                                    /\ TotalSize(kept \cup {d}) > MaxSize
<1> DEFINE old == TooOld(seen, now)
           S == DOMAIN seen \ old
           forSize == remove \ old
           kept == DOMAIN seen \ remove
<1> SUFFICES /\ remove \in SUBSET Digests /\ kept \in SUBSET Digests
             /\ old \subseteq remove
             /\ MaxSize > 0 => TotalSize(kept) <= MaxSize
             /\ \A d \in forSize, k \in kept : seen[d] <= seen[k]
             /\ forSize # {} =>
                  \E d \in forSize : /\ \A e \in forSize : seen[e] <= seen[d]
                                     /\ TotalSize(kept \cup {d}) > MaxSize
  OBVIOUS
<1>1. S \in SUBSET Digests /\ old \in SUBSET Digests /\ old \subseteq DOMAIN seen /\ seen \in [DOMAIN seen -> Time]
  BY PartialIs DEF TooOld
<1>2. PICK order \in LeastRecentFirst(seen, S) :
        remove = old \cup (IF MaxSize > 0 THEN markLRUEntries(order) ELSE {})
  BY DEF selectEntriesToRemove
<1> HIDE DEF old
<1>3. order \in SetToSeqs(S)
  BY <1>2 DEF LeastRecentFirst
<1>4. /\ Cardinality(S) \in Nat /\ DOMAIN order = 1..Cardinality(S)
      /\ \A i \in 1..Cardinality(S) : order[i] \in S
      /\ \A i, j \in 1..Cardinality(S) : order[i] = order[j] => i = j
      /\ \A x \in S : \E i \in 1..Cardinality(S) : order[i] = x
  <2>1. IsFiniteSet(S)
    BY <1>1, Sized
  <2> HIDE DEF S
  <2>2. QED
    BY <1>3, <2>1, OrderOf
<1>5. \A i, j \in 1..Cardinality(S) : i < j => seen[order[i]] <= seen[order[j]]
  BY <1>2, <1>4 DEF LeastRecentFirst
<1>6. \A i \in 1..Cardinality(S) : seen[order[i]] <= seen[order[i]]
  <2> SUFFICES ASSUME NEW i \in 1..Cardinality(S) PROVE seen[order[i]] <= seen[order[i]]
    OBVIOUS
  <2>1. order[i] \in DOMAIN seen
    BY <1>4
  <2>2. seen[order[i]] \in Time
    BY <1>1, <2>1
  <2>3. QED
    BY <2>2 DEF Time
<1>7. CASE ~(MaxSize > 0)
  <2>1. remove = old
    BY <1>2, <1>7
  <2>2. forSize = {} /\ kept = S /\ remove \in SUBSET Digests
    BY <1>1, <2>1
  <2>3. kept \in SUBSET Digests /\ old \subseteq remove
    BY <1>1, <2>1, <2>2
  <2> HIDE DEF forSize, kept, S
  <2>4. QED
    BY <1>7, <2>2, <2>3
<1>8. CASE MaxSize > 0
  <2> DEFINE n == Cardinality(S)
  <2>1. PICK m \in 0..n : /\ markLRUEntries(order) = First(order, m)
                          /\ TotalSize(S \ First(order, m)) <= MaxSize
                          /\ m > 0 => TotalSize(S \ First(order, m - 1)) > MaxSize
    BY <1>1, <1>3, MarkedPrefix
  <2>2. First(order, m) \subseteq S
    <3>1. \A i \in 1..m : i \in 1..Cardinality(S)
      BY <1>4
    <3> HIDE DEF S
    <3>2. QED
      BY <1>4, <3>1 DEF First
  <2>3. forSize = First(order, m) /\ kept = S \ First(order, m) /\ remove = old \cup First(order, m)
    <3>1. remove = old \cup First(order, m)
      BY <1>2, <1>8, <2>1
    <3> HIDE DEF n
    <3>2. QED
      BY <2>2, <3>1
  <2>4. remove \in SUBSET Digests /\ kept \in SUBSET Digests /\ old \subseteq remove
    BY <1>1, <2>2, <2>3
  <2>5. TotalSize(kept) <= MaxSize
    BY <2>1, <2>3
  <2>6. ASSUME NEW d \in forSize, NEW k \in kept PROVE seen[d] <= seen[k]
    <3>1. PICK i \in 1..m : order[i] = d
      BY <2>3 DEF First
    <3>2. PICK j \in 1..n : order[j] = k
      BY <1>4, <2>3
    <3>3. j \notin 1..m
      BY <2>3, <3>2 DEF First
    <3>4. i \in 1..n /\ i < j
      BY <1>4, <3>3
    <3>5. QED
      BY <1>5, <3>1, <3>2, <3>4
  <2>7. ASSUME forSize # {}
        PROVE  \E d \in forSize : /\ \A e \in forSize : seen[e] <= seen[d]
                                  /\ TotalSize(kept \cup {d}) > MaxSize
    <3>1. m > 0 /\ m \in 1..n /\ m \in 1..m /\ m - 1 \in Nat
      BY <1>4, <2>3, <2>7 DEF First
    <3>2. order[m] \in forSize
      BY <2>3, <3>1 DEF First
    <3>3. ASSUME NEW e \in forSize PROVE seen[e] <= seen[order[m]]
      <4>1. PICK i \in 1..m : order[i] = e
        BY <2>3 DEF First
      <4>2. i \in 1..n /\ (i < m \/ i = m)
        BY <1>4, <3>1
      <4>3. QED
        BY <1>5, <1>6, <3>1, <4>1, <4>2
    <3>4. 1..m = 1..m - 1 \cup {m} /\ \A i \in 1..m - 1 : i \in 1..n /\ i # m
      BY <1>4, <3>1
    <3>5. order[m] \in S /\ \A i \in 1..m - 1 : order[i] # order[m]
      BY <1>4, <3>1, <3>4
    <3>6. First(order, m) = First(order, m - 1) \cup {order[m]} /\ order[m] \notin First(order, m - 1)
      BY <3>4, <3>5 DEF First
    <3>7. kept \cup {order[m]} = S \ First(order, m - 1)
      BY <2>3, <3>5, <3>6
    <3>8. TotalSize(kept \cup {order[m]}) = TotalSize(S \ First(order, m - 1))
      BY <3>7, Zenon
    <3>9. TotalSize(kept \cup {order[m]}) > MaxSize
      BY <2>1, <3>1, <3>8
    <3>10. QED
      BY <3>2, <3>3, <3>9
  <2>8. QED
    BY <2>4, <2>5, <2>6, <2>7
<1>9. QED
  BY <1>7, <1>8

LEMMA Moved ==
  ASSUME RefTypeOK, NEW a \in Actors, NEW l, Goto(a, l), l \in Labels
  PROVE  pc' \in [Actors -> Labels]
BY DEF RefTypeOK, Goto

LEMMA EntrySaved ==
  ASSUME RefTypeOK, NEW d \in Digests, SaveEntry(d)
  PROVE  entries' \in PartialFcn(Digests, Time)
<1>1. DOMAIN entries \in SUBSET Digests /\ entries \in [DOMAIN entries -> Time] /\ clock \in Time
  BY PartialIs DEF RefTypeOK
<1>2. CASE entries' = [e \in DOMAIN entries \cup {d} |-> IF e = d THEN clock ELSE entries[e]]
  <2>1. entries' \in [DOMAIN entries \cup {d} -> Time]
    BY <1>1, <1>2
  <2>2. DOMAIN entries \cup {d} \in SUBSET Digests
    BY <1>1
  <2>3. QED
    BY <2>1, <2>2, PartialFrom
<1>3. QED
  BY <1>2 DEF SaveEntry, RefTypeOK

LEMMA PartRestricted ==
  ASSUME NEW S, NEW T, NEW f \in PartialFcn(S, T), NEW D \in SUBSET (DOMAIN f)
  PROVE  Restrict(f, D) \in PartialFcn(S, T)
<1>1. DOMAIN f \in SUBSET S /\ f \in [DOMAIN f -> T]
  BY PartialIs
<1>2. Restrict(f, D) \in [D -> T] /\ D \in SUBSET S
  BY <1>1 DEF Restrict
<1>3. QED
  BY <1>2, PartialFrom

LEMMA EvictedTypes ==
  ASSUME RefTypeOK, NEW a \in Actors
  PROVE  /\ EvictEntry(a) => RefTypeOK'
         /\ removeRefsByDigest(a) => refs' \in PartialFcn(Refs, RefEntry)
<1>1. ASSUME EvictEntry(a) PROVE RefTypeOK'
  <2>1. entries' \in PartialFcn(Digests, Time)
    BY <1>1, PartRestricted DEF EvictEntry, Without, RefTypeOK
  <2>2. Goto(a, "evictrefs")
    BY <1>1 DEF EvictEntry
  <2>3. QED
    BY <1>1, <2>1, <2>2, Moved DEF Labels, EvictEntry, RefTypeOK, history
<1>2. ASSUME removeRefsByDigest(a)
      PROVE  refs' \in PartialFcn(Refs, RefEntry)
  <2>1. refs' = Restrict(refs, {r \in DOMAIN refs : refs[r].digest # at[a]})
    BY <1>2 DEF removeRefsByDigest, RestrictValues
  <2>2. QED
    BY <2>1, PartRestricted DEF RefTypeOK
<1>3. QED
  BY <1>1, <1>2

LEMMA CallerTypes == ASSUME RefTypeOK, NEW c \in Callers, Caller(c) PROVE RefTypeOK'
<1>1. /\ c \in Actors /\ at[c] \in Digests /\ ref[c] \in Refs /\ clock \in Time
      /\ DOMAIN refs \in SUBSET Refs /\ refs \in [DOMAIN refs -> RefEntry]
  <2>1. c \in Actors
    BY DEF Actors
  <2>2. /\ at \in [Actors -> Digests] /\ ref \in [Callers -> Refs] /\ clock \in Time
        /\ refs \in PartialFcn(Refs, RefEntry)
    BY DEF RefTypeOK
  <2>3. DOMAIN refs \in SUBSET Refs /\ refs \in [DOMAIN refs -> RefEntry]
    BY <2>2, PartialIs
  <2>4. QED
    BY <2>1, <2>2, <2>3
<1>2. CASE LookupByRef(c)
  <2>1. PICK r \in Refs :
          /\ ref' = [ref EXCEPT ![c] = r]
          /\ IF TTL > 0 /\ r \in DOMAIN refs /\ ~Expired(r)
             THEN at' = [at EXCEPT ![c] = refs[r].digest] /\ Goto(c, "has")
             ELSE Goto(c, "resolve") /\ UNCHANGED at
    BY <1>2 DEF LookupByRef
  <2>2. at' \in [Actors -> Digests] /\ ref' \in [Callers -> Refs]
    <3>1. r \in DOMAIN refs => refs[r].digest \in Digests
      BY <1>1 DEF RefEntry
    <3>2. at \in [Actors -> Digests] /\ ref \in [Callers -> Refs]
      BY DEF RefTypeOK
    <3>3. QED
      BY <2>1, <3>1, <3>2
  <2>3. Goto(c, "has") \/ Goto(c, "resolve")
    BY <2>1
  <2>4. QED
    BY <1>1, <1>2, <2>2, <2>3, Moved DEF Labels, LookupByRef, RefTypeOK, dirVars, history
<1>3. CASE hasCachedBlob(c) \/ Load(c) \/ Hit(c)
  <2>1. \E l \in {"load", "resolve", "hit", "lock", "touch", "heal"} : Goto(c, l)
    BY <1>3 DEF hasCachedBlob, Load, Hit
  <2>2. QED
    BY <1>1, <1>3, <2>1, Moved DEF Labels, hasCachedBlob, Load, Hit, RefTypeOK, dirVars, history
<1>4. CASE ResolveLayer(c)
  <2>1. Goto(c, "recall") \/ Goto(c, "ask")
    BY <1>4 DEF ResolveLayer
  <2>2. at' \in [Actors -> Digests]
    <3>1. ASSUME Recalls(c) PROVE memo[Proc[c]][ref[c]] \in Digests
      <4>1. memo \in [DOMAIN memo -> PartialFcn(Refs, Digests)]
        BY PartialIs DEF RefTypeOK
      <4>2. memo[Proc[c]] \in PartialFcn(Refs, Digests)
        BY <3>1, <4>1 DEF Recalls, Remembers
      <4>3. memo[Proc[c]] \in [DOMAIN memo[Proc[c]] -> Digests]
        BY <4>2, PartialIs
      <4>4. QED
        BY <3>1, <4>3 DEF Recalls
    <3>2. at \in [Actors -> Digests]
      BY DEF RefTypeOK
    <3>3. QED
      BY <1>4, <3>1, <3>2 DEF ResolveLayer
  <2>3. QED
    BY <1>1, <1>4, <2>1, <2>2, Moved DEF Labels, ResolveLayer, RefTypeOK, dirVars, history
<1>5. CASE Remember(c)
  <2>1. Goto(c, "update") /\ memo' = [memo EXCEPT ![Proc[c]] = Stored(memo[Proc[c]], ref[c], at[c])]
    BY <1>5 DEF Remember
  <2>2. memo' \in PartialFcn(Clients, PartialFcn(Refs, Digests))
    <3>1. DOMAIN memo \in SUBSET Clients /\ memo \in [DOMAIN memo -> PartialFcn(Refs, Digests)]
      BY PartialIs DEF RefTypeOK
    <3>2. ASSUME Proc[c] \in DOMAIN memo
          PROVE  Stored(memo[Proc[c]], ref[c], at[c]) \in PartialFcn(Refs, Digests)
      <4>1. memo[Proc[c]] \in PartialFcn(Refs, Digests)
        BY <3>1, <3>2
      <4>2. /\ DOMAIN memo[Proc[c]] \in SUBSET Refs
            /\ memo[Proc[c]] \in [DOMAIN memo[Proc[c]] -> Digests]
        BY <4>1, PartialIs
      <4>3. Stored(memo[Proc[c]], ref[c], at[c]) \in [DOMAIN memo[Proc[c]] \cup {ref[c]} -> Digests]
        BY <1>1, <4>2 DEF Stored
      <4>4. DOMAIN memo[Proc[c]] \cup {ref[c]} \in SUBSET Refs
        BY <1>1, <4>2
      <4>5. QED
        BY <4>3, <4>4, PartialFrom
    <3>3. memo' \in [DOMAIN memo -> PartialFcn(Refs, Digests)]
      BY <2>1, <3>1, <3>2
    <3>4. QED
      BY <3>1, <3>3, PartialFrom
  <2>3. QED
    BY <1>1, <1>5, <2>1, <2>2, Moved DEF Labels, Remember, RefTypeOK, dirVars, history
<1>6. CASE resolveLayerDescriptor(c)
  <2>1. Goto(c, "remember") \/ Goto(c, "update") \/ Goto(c, "idle")
    BY <1>6 DEF resolveLayerDescriptor
  <2>2. at' \in [Actors -> Digests] /\ asked' \in [Callers -> Time]
    <3>1. /\ at \in [Actors -> Digests] /\ asked \in [Callers -> Time]
          /\ tag \in [Refs -> Digests]
      BY DEF RefTypeOK
    <3>2. \/ at' = [at EXCEPT ![c] = tag[ref[c]]] /\ asked' = [asked EXCEPT ![c] = clock]
          \/ at' = at /\ asked' = asked
      BY <1>6 DEF resolveLayerDescriptor
    <3>3. tag[ref[c]] \in Digests /\ clock \in Time
      BY <1>1, <3>1
    <3>4. QED
      BY <3>1, <3>2, <3>3
  <2>3. QED
    BY <1>1, <1>6, <2>1, <2>2, Moved DEF Labels, resolveLayerDescriptor, RefTypeOK, dirVars
<1>7. CASE UpdateRefIndex(c)
  <2>1. refs' \in PartialFcn(Refs, RefEntry)
    <3>1. CASE refs' = Stored(refs, ref[c], [digest |-> at[c], validated |-> clock,
                                             recalled |-> pc[c] = "recall"])
      <4>1. [digest |-> at[c], validated |-> clock, recalled |-> pc[c] = "recall"] \in RefEntry
        BY <1>1 DEF RefEntry
      <4>2. refs' \in [DOMAIN refs \cup {ref[c]} -> RefEntry]
        BY <1>1, <3>1, <4>1 DEF Stored
      <4>3. DOMAIN refs \cup {ref[c]} \in SUBSET Refs
        BY <1>1
      <4>4. QED
        BY <4>2, <4>3, PartialFrom
    <3>2. CASE UNCHANGED refs
      BY <3>2 DEF RefTypeOK
    <3>3. QED
      BY <1>7, <3>1, <3>2 DEF UpdateRefIndex
  <2>2. Goto(c, "load")
    BY <1>7 DEF UpdateRefIndex
  <2>3. QED
    BY <1>1, <1>7, <2>1, <2>2, Moved DEF Labels, UpdateRefIndex, RefTypeOK, history
<1>8. CASE Touch(c) \/ SaveComplete(c)
  <2>1. entries' \in PartialFcn(Digests, Time) /\ Goto(c, "idle")
    BY <1>1, <1>8, EntrySaved DEF Touch, SaveComplete
  <2>2. mu' \subseteq Actors
    BY <1>8 DEF Touch, SaveComplete, RefTypeOK
  <2>3. QED
    BY <1>1, <1>8, <2>1, <2>2, Moved DEF Labels, Touch, SaveComplete, RefTypeOK, history
<1>9. CASE SelfHeal(c)
  <2>1. CASE EvictBlob(c, "heal") /\ mu' = mu \cup {c}
    BY <1>1, <2>1, Moved DEF Labels, EvictBlob, RefTypeOK, history
  <2>2. CASE EvictEntry(c)
    BY <1>1, <2>2, EvictedTypes
  <2>3. CASE /\ removeRefsByDigest(c) /\ mu' = mu \ {c} /\ Goto(c, "lock")
             /\ UNCHANGED <<entries, blobs, tag, clock, memo, at, ref, job, history>>
    BY <1>1, <2>3, EvictedTypes, Moved DEF Labels, RefTypeOK, history
  <2>4. CASE EvictFails(c) /\ mu' = mu \ {c} /\ Goto(c, "lock") /\ UNCHANGED job
    BY <1>1, <2>4, Moved DEF Labels, EvictFails, RefTypeOK, dirVars, history
  <2>5. QED
    BY <1>9, <2>1, <2>2, <2>3, <2>4 DEF SelfHeal
<1>10. CASE Lock(c)
  <2>1. (Goto(c, "idle") \/ Goto(c, "fetch")) /\ mu' \subseteq Actors
    BY <1>1, <1>10 DEF Lock, RefTypeOK
  <2>2. QED
    BY <1>1, <1>10, <2>1, Moved DEF Labels, Lock, RefTypeOK, dirVars, history
<1>11. CASE Download(c)
  <2>1. (Goto(c, "save") \/ Goto(c, "idle")) /\ mu' \subseteq Actors /\ blobs' \subseteq Digests
    BY <1>1, <1>11 DEF Download, RefTypeOK
  <2>2. QED
    BY <1>1, <1>11, <2>1, Moved DEF Labels, Download, RefTypeOK, history
<1>12. QED
  BY <1>2, <1>3, <1>4, <1>6, <1>5, <1>7, <1>8, <1>9, <1>10, <1>11 DEF Caller

LEMMA NoJobTyped == NoJob \in Job
<1>1. 0 \in Time
  BY Limits DEF Time
<1>2. [d \in {} |-> 0] \in PartialFcn(Digests, Time)
  <2>1. [d \in {} |-> 0] \in [{} -> Time] /\ {} \in SUBSET Digests
    OBVIOUS
  <2>2. QED
    BY <2>1, PartialFrom
<1>3. QED
  BY <1>1, <1>2 DEF NoJob, Job

LEMMA PrunerTypes == ASSUME RefTypeOK, NEW p \in Pruners, Pruner(p) PROVE RefTypeOK'
<1>1. /\ p \in Actors /\ at[p] \in Digests /\ clock \in Time /\ job[p] \in Job /\ job \in [Pruners -> Job]
      /\ entries \in PartialFcn(Digests, Time)
  BY DEF RefTypeOK, Actors
<1>2. CASE PruneBegin(p)
  <2>1. PICK remove \in selectEntriesToRemove(entries, clock) :
          job' = [job EXCEPT ![p] = [seen |-> entries, remove |-> remove, failed |-> {},
                                     left |-> DOMAIN entries, since |-> clock]]
    BY <1>2 DEF PruneBegin
  <2>2. remove \in SUBSET Digests /\ DOMAIN entries \in SUBSET Digests
    BY <1>1, SelectionIs, PartialIs
  <2>3. [seen |-> entries, remove |-> remove, failed |-> {}, left |-> DOMAIN entries, since |-> clock] \in Job
    BY <1>1, <2>2 DEF Job
  <2>4. job' \in [Pruners -> Job]
    BY <1>1, <2>1, <2>3
  <2>5. mu' \subseteq Actors /\ Goto(p, "prune")
    BY <1>1, <1>2 DEF PruneBegin, RefTypeOK
  <2>6. QED
    BY <1>1, <1>2, <2>4, <2>5, Moved DEF Labels, PruneBegin, RefTypeOK, dirVars, history
<1>3. CASE KeepEntry(p)
  <2>1. job' \in [Pruners -> Job]
    BY <1>1, <1>3 DEF KeepEntry, Job
  <2>2. QED
    BY <1>3, <2>1 DEF KeepEntry, RefTypeOK, dirVars, history
<1>4. CASE RemoveEntry(p)
  <2>1. CASE /\ \E d \in job[p].left \cap job[p].remove :
                  /\ pc[p] = "prune"
                  /\ blobs' = blobs \ {d}
                  /\ at' = [at EXCEPT ![p] = d]
                  /\ job' = [job EXCEPT ![p].left = @ \ {d}]
             /\ Goto(p, "evictentry")
             /\ UNCHANGED <<entries, refs, tag, clock, memo, mu, ref, history>>
    <3>1. PICK d \in job[p].left \cap job[p].remove :
            /\ blobs' = blobs \ {d} /\ at' = [at EXCEPT ![p] = d] /\ job' = [job EXCEPT ![p].left = @ \ {d}]
      BY <2>1
    <3>2. d \in Digests /\ job' \in [Pruners -> Job]
      BY <1>1, <3>1 DEF Job
    <3>3. at' \in [Actors -> Digests] /\ blobs' \subseteq Digests
      BY <1>1, <3>1, <3>2 DEF RefTypeOK
    <3>4. QED
      BY <1>1, <2>1, <3>2, <3>3, Moved DEF Labels, RefTypeOK, history
  <2>2. CASE EvictEntry(p)
    BY <1>1, <2>2, EvictedTypes
  <2>3. CASE /\ removeRefsByDigest(p) /\ Goto(p, "prune")
             /\ UNCHANGED <<entries, blobs, tag, clock, memo, mu, at, ref, job, history>>
    BY <1>1, <2>3, EvictedTypes, Moved DEF Labels, RefTypeOK, history
  <2>4. CASE /\ EvictFails(p) /\ job' = [job EXCEPT ![p].failed = @ \cup {at[p]}]
             /\ Goto(p, "prune") /\ UNCHANGED mu
    <3>1. job' \in [Pruners -> Job]
      BY <1>1, <2>4 DEF Job
    <3>2. QED
      BY <1>1, <2>4, <3>1, Moved DEF Labels, EvictFails, RefTypeOK, dirVars, history
  <2>5. QED
    BY <1>4, <2>1, <2>2, <2>3, <2>4 DEF RemoveEntry
<1>5. CASE PruneCancelled(p)
  <2>1. job' \in [Pruners -> Job] /\ mu' \subseteq Actors /\ Goto(p, "idle")
    BY <1>1, <1>5, NoJobTyped DEF PruneCancelled, RefTypeOK
  <2>2. QED
    BY <1>1, <1>5, <2>1, Moved DEF Labels, PruneCancelled, RefTypeOK, dirVars, history
<1>6. CASE cleanupOrphanedRefs(p)
  <2>1. job' \in [Pruners -> Job] /\ mu' \subseteq Actors /\ Goto(p, "idle") /\ pruned' \in Time
    BY <1>1, <1>6, NoJobTyped DEF cleanupOrphanedRefs, RefTypeOK, Job
  <2>2. refs' \in PartialFcn(Refs, RefEntry)
    <3>1. refs' = Restrict(refs, {r \in DOMAIN refs : refs[r].digest \in Kept(p)})
      BY <1>6 DEF cleanupOrphanedRefs, RestrictValues
    <3>2. QED
      BY <3>1, PartRestricted DEF RefTypeOK
  <2>3. QED
    BY <1>1, <1>6, <2>1, <2>2, Moved DEF Labels, cleanupOrphanedRefs, RefTypeOK
<1>7. QED
  BY <1>2, <1>3, <1>4, <1>5, <1>6 DEF Pruner

LEMMA TypesBegin == ASSUME RefInit PROVE RefTypeOK
<1>1. 0 \in Time /\ {0} \subseteq Time
  BY Limits DEF Time
<1>2. (CHOOSE d \in Digests : TRUE) \in Digests /\ (CHOOSE r \in Refs : TRUE) \in Refs
  BY SomeAssumption
<1>3. entries \in PartialFcn(Digests, Time)
  <2>1. DOMAIN entries \in SUBSET Digests /\ entries \in [DOMAIN entries -> {0}]
    BY PartialIs DEF RefInit
  <2>2. entries \in [DOMAIN entries -> Time]
    BY <1>1, <2>1
  <2>3. QED
    BY <2>1, <2>2, PartialFrom
<1>4. refs \in PartialFcn(Refs, RefEntry)
  <2>1. DOMAIN refs \in SUBSET Refs /\ refs \in [DOMAIN refs -> [digest : Digests, validated : {0}, recalled : BOOLEAN]]
    <3> DEFINE T == [digest : Digests, validated : {0}, recalled : BOOLEAN]
    <3>1. refs \in PartialFcn(Refs, T)
      BY DEF RefInit
    <3> HIDE DEF T
    <3>2. DOMAIN refs \in SUBSET Refs /\ refs \in [DOMAIN refs -> T]
      BY <3>1, PartialIs
    <3>3. QED
      BY <3>2 DEF T
  <2>2. refs \in [DOMAIN refs -> RefEntry]
    BY <1>1, <2>1 DEF RefEntry
  <2>3. QED
    BY <2>1, <2>2, PartialFrom
<1>5. at \in [Actors -> Digests] /\ ref \in [Callers -> Refs] /\ job \in [Pruners -> Job]
  BY <1>2, NoJobTyped DEF RefInit
<1>6. memo \in PartialFcn(Clients, PartialFcn(Refs, Digests))
  <2>1. PICK S \in SUBSET Clients : memo = [p \in S |-> [r \in {} |-> 0]]
    BY DEF RefInit
  <2>2. [r \in {} |-> 0] \in [{} -> Digests] /\ {} \in SUBSET Refs
    OBVIOUS
  <2>3. [r \in {} |-> 0] \in PartialFcn(Refs, Digests)
    BY <2>2, PartialFrom
  <2>4. memo \in [S -> PartialFcn(Refs, Digests)]
    BY <2>1, <2>3
  <2>5. QED
    BY <2>4, PartialFrom
<1>7. pc \in [Actors -> Labels]
  BY DEF RefInit, Labels
<1>8. QED
  BY <1>1, <1>3, <1>4, <1>5, <1>6, <1>7 DEF RefInit, RefTypeOK

LEMMA TypesKept == ASSUME RefTypeOK, [RefNext]_refVars PROVE RefTypeOK'
<1>1. CASE MoveTag
  <2>1. PICK r \in Refs, d \in Digests :
          tag' = [tag EXCEPT ![r] = d] /\ until' = [until EXCEPT ![r][d] = clock]
    BY <1>1 DEF MoveTag
  <2>2. tag' \in [Refs -> Digests] /\ until' \in [Refs -> [Digests -> Time]]
    BY <2>1 DEF RefTypeOK
  <2>3. QED
    BY <1>1, <2>2 DEF MoveTag, RefTypeOK, dirVars, callVars
<1>2. CASE Tick
  <2>1. clock + 1 \in Time /\ clock' = clock + 1
    BY <1>2, Limits DEF Tick, RefTypeOK, Time
  <2>2. until' \in [Refs -> [Digests -> Time]]
    BY <1>2, <2>1 DEF Tick, RefTypeOK
  <2>3. QED
    BY <1>2, <2>1, <2>2 DEF Tick, RefTypeOK, dirVars, callVars
<1>3. CASE UNCHANGED refVars
  BY <1>3 DEF RefTypeOK, refVars, dirVars, callVars, history
<1>4. QED
  BY <1>1, <1>2, <1>3, CallerTypes, PrunerTypes DEF RefNext

-------------------------------------------------------------------------------
(* Prunes *)

(* An entry stays as it is, goes, or says that it is accessed now. *)
EntriesUsed ==
  \A d \in DOMAIN entries' : (d \in DOMAIN entries /\ entries'[d] = entries[d]) \/ entries'[d] = clock

LEMMA EvictUses == ASSUME NEW a, EvictEntry(a) PROVE EntriesUsed /\ at[a] \notin DOMAIN entries'
BY DEF EvictEntry, Without, Restrict, EntriesUsed

LEMMA CallerUses == ASSUME NEW c \in Callers, Caller(c) PROVE EntriesUsed
<1>1. CASE LookupByRef(c) \/ hasCachedBlob(c) \/ ResolveLayer(c) \/ resolveLayerDescriptor(c)
           \/ Remember(c) \/ UpdateRefIndex(c)
           \/ Load(c) \/ Hit(c) \/ Lock(c) \/ Download(c)
  <2>1. UNCHANGED entries
    BY <1>1 DEF LookupByRef, hasCachedBlob, ResolveLayer, resolveLayerDescriptor, Remember,
         UpdateRefIndex, Load, Hit, Lock, Download, dirVars
  <2>2. QED
    BY <2>1 DEF EntriesUsed
<1>2. CASE Touch(c) \/ SaveComplete(c)
  <2>1. SaveEntry(at[c])
    BY <1>2 DEF Touch, SaveComplete
  <2>2. QED
    BY <2>1 DEF SaveEntry, EntriesUsed
<1>3. CASE SelfHeal(c)
  <2>1. EvictEntry(c) \/ UNCHANGED entries
    BY <1>3 DEF SelfHeal, EvictBlob, EvictFails, dirVars
  <2>2. QED
    BY <2>1, EvictUses DEF EntriesUsed
<1>4. QED
  BY <1>1, <1>2, <1>3 DEF Caller

LEMMA Numbers ==
  ASSUME RefTypeOK
  PROVE  /\ clock \in Nat /\ \A d \in DOMAIN entries : d \in Digests /\ entries[d] \in Nat
         /\ \A p \in Pruners : /\ p \in Actors /\ job[p] \in Job /\ job[p].since \in Nat
                               /\ job[p].seen \in PartialFcn(Digests, Time)
                               /\ \A d \in DOMAIN job[p].seen : d \in Digests /\ job[p].seen[d] \in Nat
<1>1. \A t \in Time : t \in Nat
  BY Limits DEF Time
<1>2. DOMAIN entries \in SUBSET Digests /\ entries \in [DOMAIN entries -> Time] /\ clock \in Time
  BY PartialIs DEF RefTypeOK
<1>3. ASSUME NEW p \in Pruners
      PROVE  /\ p \in Actors /\ job[p] \in Job /\ job[p].since \in Nat
             /\ job[p].seen \in PartialFcn(Digests, Time)
             /\ \A d \in DOMAIN job[p].seen : d \in Digests /\ job[p].seen[d] \in Nat
  <2>1. job[p] \in Job
    BY DEF RefTypeOK
  <2>2. job[p].seen \in PartialFcn(Digests, Time) /\ job[p].since \in Time
    BY <2>1 DEF Job
  <2>3. DOMAIN job[p].seen \in SUBSET Digests /\ job[p].seen \in [DOMAIN job[p].seen -> Time]
    BY <2>2, PartialIs
  <2>4. QED
    BY <1>1, <2>1, <2>2, <2>3 DEF Actors
<1>4. QED
  BY <1>1, <1>2, <1>3

(* A step that leaves a Prune where it is. *)
LEMMA OthersKeep ==
  ASSUME RefTypeOK, Selected, NEW p \in Pruners, Pruning(p)',
         pc'[p] = pc[p], at'[p] = at[p], job'[p] = job[p], EntriesUsed,
         clock' \in {clock, clock + 1}
  PROVE  SelectedBy(p)'
<1>1. SelectedBy(p) /\ clock \in Nat /\ job[p].since \in Nat
  BY Numbers DEF Selected, Pruning
<1>2. job[p].since <= clock /\ job[p].since <= clock'
  BY <1>1 DEF SelectedBy
<1>3. ASSUME NEW d \in DOMAIN entries', entries'[d] < job[p].since
      PROVE  d \in DOMAIN entries /\ entries'[d] = entries[d]
  BY <1>1, <1>2, <1>3 DEF EntriesUsed
<1>4. QED
  BY <1>1, <1>2, <1>3 DEF SelectedBy

LEMMA BeginSelects ==
  ASSUME RefTypeOK, NEW p \in Pruners, PruneBegin(p)
  PROVE  SelectedBy(p)'
<1>1. PICK remove \in selectEntriesToRemove(entries, clock) :
        job' = [job EXCEPT ![p] = [seen |-> entries, remove |-> remove, failed |-> {},
                                   left |-> DOMAIN entries, since |-> clock]]
  BY DEF PruneBegin
<1>2. job'[p] = [seen |-> entries, remove |-> remove, failed |-> {}, left |-> DOMAIN entries, since |-> clock]
  BY <1>1 DEF RefTypeOK
<1>3. UNCHANGED <<entries, clock>> /\ clock \in Nat
  BY Numbers DEF PruneBegin, dirVars
<1>4. QED
  BY <1>2, <1>3 DEF SelectedBy

(* Of what a Prune selected it leaves nothing behind but what it failed to remove. *)
LEMMA RemoveSelects ==
  ASSUME RefTypeOK, Selected, NEW p \in Pruners, KeepEntry(p) \/ RemoveEntry(p)
  PROVE  SelectedBy(p)'
<1>1. Pruning(p)
  BY DEF KeepEntry, RemoveEntry, EvictEntry, removeRefsByDigest, EvictFails, Pruning
<1>2. /\ SelectedBy(p) /\ clock \in Nat /\ job[p].since \in Nat /\ job \in [Pruners -> Job]
      /\ p \in Actors /\ DOMAIN pc = Actors /\ DOMAIN at = Actors
      /\ \A d \in DOMAIN entries : entries[d] \in Nat
  BY <1>1, Numbers DEF Selected, RefTypeOK
<1>3. CASE KeepEntry(p)
  <2>1. PICK d \in job[p].left \ job[p].remove : job' = [job EXCEPT ![p].left = @ \ {d}]
    BY <1>3 DEF KeepEntry
  <2>2. /\ job'[p].seen = job[p].seen /\ job'[p].remove = job[p].remove /\ job'[p].since = job[p].since
        /\ job'[p].failed = job[p].failed /\ job'[p].left = job[p].left \ {d}
    BY <1>2, <2>1 DEF Job
  <2>3. UNCHANGED <<entries, clock, pc, at>>
    BY <1>3 DEF KeepEntry, dirVars
  <2>4. QED
    BY <1>2, <2>1, <2>2, <2>3 DEF SelectedBy
<1>4. CASE /\ \E d \in job[p].left \cap job[p].remove :
                /\ pc[p] = "prune"
                /\ at' = [at EXCEPT ![p] = d]
                /\ job' = [job EXCEPT ![p].left = @ \ {d}]
           /\ Goto(p, "evictentry")
           /\ UNCHANGED <<entries, clock>>
  <2>1. PICK d \in job[p].left \cap job[p].remove :
          at' = [at EXCEPT ![p] = d] /\ job' = [job EXCEPT ![p].left = @ \ {d}]
    BY <1>4
  <2>2. /\ job'[p].seen = job[p].seen /\ job'[p].remove = job[p].remove /\ job'[p].since = job[p].since
        /\ job'[p].failed = job[p].failed /\ job'[p].left = job[p].left \ {d}
    BY <1>2, <2>1 DEF Job
  <2>3. pc[p] = "prune" /\ pc'[p] = "evictentry" /\ at'[p] = d
    BY <1>2, <1>4, <2>1 DEF Goto
  <2>4. QED
    BY <1>2, <1>4, <2>2, <2>3 DEF SelectedBy
<1>5. CASE EvictEntry(p)
  <2>1. /\ UNCHANGED <<job, clock, at>> /\ EntriesUsed /\ at[p] \notin DOMAIN entries'
        /\ pc[p] = "evictentry"
    BY <1>5, EvictUses DEF EvictEntry
  <2>2. ASSUME NEW d \in DOMAIN entries', entries'[d] < job[p].since
        PROVE  d \in DOMAIN entries /\ entries'[d] = entries[d] /\ d # at[p]
    BY <1>2, <2>1, <2>2 DEF EntriesUsed, SelectedBy
  <2>3. QED
    BY <1>2, <2>1, <2>2 DEF SelectedBy
<1>6. CASE /\ removeRefsByDigest(p) /\ UNCHANGED <<entries, clock, at, job>>
  <2>1. pc[p] = "evictrefs"
    BY <1>6 DEF removeRefsByDigest
  <2>2. QED
    BY <1>2, <1>6, <2>1 DEF SelectedBy
<1>7. CASE EvictFails(p) /\ job' = [job EXCEPT ![p].failed = @ \cup {at[p]}]
  <2>1. UNCHANGED <<entries, clock, at>>
    BY <1>7 DEF EvictFails, dirVars
  <2>2. /\ job'[p].seen = job[p].seen /\ job'[p].remove = job[p].remove /\ job'[p].since = job[p].since
        /\ job'[p].failed = job[p].failed \cup {at[p]} /\ job'[p].left = job[p].left
    BY <1>2, <1>7 DEF Job
  <2>3. QED
    BY <1>2, <2>1, <2>2 DEF SelectedBy
<1>8. QED
  BY <1>3, <1>4, <1>5, <1>6, <1>7 DEF RemoveEntry

LEMMA PrunerSelects ==
  ASSUME RefTypeOK, Selected, NEW p \in Pruners, Pruner(p)
  PROVE  /\ EntriesUsed /\ UNCHANGED clock
         /\ \A q \in Actors : q # p => pc'[q] = pc[q] /\ at'[q] = at[q]
         /\ \A q \in Pruners : q # p => job'[q] = job[q]
         /\ Pruning(p)' => SelectedBy(p)'
<1>1. p \in Actors /\ job \in [Pruners -> Job] /\ DOMAIN pc = Actors /\ DOMAIN at = Actors
  BY DEF RefTypeOK, Actors
<1>2. CASE PruneBegin(p)
  <2>1. UNCHANGED <<entries, clock, at>> /\ Goto(p, "prune")
    BY <1>2 DEF PruneBegin, dirVars
  <2>2. \A q \in Pruners : q # p => job'[q] = job[q]
    BY <1>1, <1>2 DEF PruneBegin
  <2>3. QED
    BY <1>1, <1>2, <2>1, <2>2, BeginSelects DEF EntriesUsed, Goto
<1>3. CASE KeepEntry(p)
  <2>1. UNCHANGED <<entries, clock, at, pc>>
    BY <1>3 DEF KeepEntry, dirVars
  <2>2. \A q \in Pruners : q # p => job'[q] = job[q]
    BY <1>1, <1>3 DEF KeepEntry
  <2>3. QED
    BY <1>1, <1>3, <2>1, <2>2, RemoveSelects DEF EntriesUsed
<1>4. CASE RemoveEntry(p)
  <2>1. EvictEntry(p) \/ UNCHANGED entries
    BY <1>4 DEF RemoveEntry, EvictFails, dirVars
  <2>2. EntriesUsed /\ UNCHANGED clock
    BY <1>4, <2>1, EvictUses DEF EntriesUsed, RemoveEntry, EvictEntry, EvictFails
  <2>3. \E l : Goto(p, l)
    BY <1>4 DEF RemoveEntry, EvictEntry
  <2>4. \A q \in Actors : q # p => pc'[q] = pc[q] /\ at'[q] = at[q]
    <3>1. UNCHANGED at \/ \E d : at' = [at EXCEPT ![p] = d]
      BY <1>4 DEF RemoveEntry, EvictEntry, EvictFails
    <3>2. QED
      BY <1>1, <2>3, <3>1 DEF Goto
  <2>5. \A q \in Pruners : q # p => job'[q] = job[q]
    <3>1. \/ UNCHANGED job
          \/ \E S : job' = [job EXCEPT ![p].left = S]
          \/ \E S : job' = [job EXCEPT ![p].failed = S]
      BY <1>4 DEF RemoveEntry, EvictEntry
    <3>2. QED
      BY <1>1, <3>1
  <2>6. QED
    BY <1>4, <2>2, <2>4, <2>5, RemoveSelects
<1>5. CASE PruneCancelled(p) \/ cleanupOrphanedRefs(p)
  <2>1. UNCHANGED <<entries, clock, at>> /\ Goto(p, "idle") /\ job' = [job EXCEPT ![p] = NoJob]
    BY <1>5 DEF PruneCancelled, cleanupOrphanedRefs, dirVars
  <2>2. pc'[p] = "idle"
    BY <1>1, <2>1 DEF Goto
  <2>3. QED
    BY <1>1, <2>1, <2>2 DEF EntriesUsed, Goto, Pruning
<1>6. QED
  BY <1>2, <1>3, <1>4, <1>5 DEF Pruner

LEMMA SelectedKept == ASSUME RefTypeOK, Selected, [RefNext]_refVars PROVE Selected'
<1>1. ASSUME NEW c \in Callers, Caller(c) PROVE Selected'
  <2>1. EntriesUsed /\ UNCHANGED <<clock, job>>
    <3>1. UNCHANGED <<clock, job>>
      BY <1>1 DEF Caller, LookupByRef, hasCachedBlob, ResolveLayer, resolveLayerDescriptor, Remember,
         UpdateRefIndex, Load, Hit, Touch,
                  SelfHeal, EvictBlob, EvictEntry, EvictFails, Lock, Download, SaveComplete
    <3>2. QED
      BY <1>1, <3>1, CallerUses
  <2>2. ASSUME NEW p \in Pruners PROVE pc'[p] = pc[p] /\ at'[p] = at[p]
    <3>1. p # c /\ p \in Actors /\ c \in Actors /\ DOMAIN pc = Actors /\ DOMAIN at = Actors
      BY PrunersAssumption DEF RefTypeOK, Actors
    <3>2. \E l : Goto(c, l)
      BY <1>1 DEF Caller, LookupByRef, hasCachedBlob, ResolveLayer, resolveLayerDescriptor, Remember,
         UpdateRefIndex, Load, Hit, Touch,
                  SelfHeal, EvictBlob, EvictEntry, Lock, Download, SaveComplete
    <3>3. UNCHANGED at \/ \E d : at' = [at EXCEPT ![c] = d]
      BY <1>1 DEF Caller, LookupByRef, hasCachedBlob, ResolveLayer, resolveLayerDescriptor, Remember,
         UpdateRefIndex, Load, Hit, Touch,
                  SelfHeal, EvictBlob, EvictEntry, EvictFails, Lock, Download, SaveComplete
    <3>4. QED
      BY <3>1, <3>2, <3>3 DEF Goto
  <2>3. QED
    BY <2>1, <2>2, OthersKeep DEF Selected
<1>2. ASSUME NEW p \in Pruners, Pruner(p) PROVE Selected'
  <2> SUFFICES ASSUME NEW q \in Pruners, Pruning(q)' PROVE SelectedBy(q)'
    BY DEF Selected
  <2>1. CASE q = p
    BY <1>2, <2>1, PrunerSelects
  <2>2. CASE q # p
    <3>1. q \in Actors
      BY DEF Actors
    <3>2. /\ EntriesUsed /\ UNCHANGED clock
          /\ pc'[q] = pc[q] /\ at'[q] = at[q] /\ job'[q] = job[q]
      BY <1>2, <2>2, <3>1, PrunerSelects
    <3>3. QED
      BY <3>2, OthersKeep
  <2>3. QED
    BY <2>1, <2>2
<1>3. CASE MoveTag \/ Tick \/ UNCHANGED refVars
  <2>1. UNCHANGED <<entries, pc, at, job>> /\ clock' \in {clock, clock + 1}
    BY <1>3 DEF MoveTag, Tick, refVars, dirVars, callVars
  <2>2. EntriesUsed
    BY <2>1 DEF EntriesUsed
  <2>3. QED
    BY <2>1, <2>2, OthersKeep DEF Selected
<1>4. QED
  BY <1>1, <1>2, <1>3 DEF RefNext

(* At the end of a Prune: what nobody used since it began is of what it kept. *)
LEMMA RestIsKept ==
  ASSUME RefTypeOK, Selected, NEW p \in Pruners, pc[p] = "prune", job[p].left = {}
  PROVE  LET rest == {d \in DOMAIN entries \ job[p].failed : entries[d] < job[p].since}
         IN /\ MaxSize > 0 => TotalSize(rest) <= MaxSize
            /\ MaxAge > 0 => \A d \in rest : entries[d] >= job[p].since - MaxAge
<1> DEFINE rest == {d \in DOMAIN entries \ job[p].failed : entries[d] < job[p].since}
<1>1. SelectedBy(p)
  BY DEF Selected, Pruning
<1>2. \A d \in rest : d \in Kept(p) /\ entries[d] = job[p].seen[d]
  BY <1>1 DEF SelectedBy, Kept
<1>3. /\ job[p].seen \in PartialFcn(Digests, Time) /\ job[p].since \in Nat
      /\ job[p].remove \in selectEntriesToRemove(job[p].seen, job[p].since)
      /\ \A d \in DOMAIN job[p].seen : job[p].seen[d] \in Nat
  BY <1>1, Numbers DEF SelectedBy
<1>4. /\ Kept(p) \in SUBSET Digests /\ TooOld(job[p].seen, job[p].since) \subseteq job[p].remove
      /\ MaxSize > 0 => TotalSize(Kept(p)) <= MaxSize
  <2> DEFINE seen == job[p].seen
             since == job[p].since
             remove == job[p].remove
  <2>1. seen \in PartialFcn(Digests, Time) /\ remove \in selectEntriesToRemove(seen, since)
    BY <1>3
  <2> HIDE DEF seen, since, remove
  <2>2. /\ DOMAIN seen \ remove \in SUBSET Digests /\ TooOld(seen, since) \subseteq remove
        /\ MaxSize > 0 => TotalSize(DOMAIN seen \ remove) <= MaxSize
    BY <2>1, SelectionIs
  <2>3. QED
    BY <2>2 DEF Kept, seen, since, remove
<1>5. ASSUME MaxSize > 0 PROVE TotalSize(rest) <= MaxSize
  <2>1. rest \in SUBSET Kept(p)
    BY <1>2
  <2> HIDE DEF rest
  <2>2. TotalSize(rest) <= TotalSize(Kept(p)) /\ TotalSize(rest) \in Nat /\ TotalSize(Kept(p)) \in Nat
    BY <1>4, <2>1, Sized
  <2>3. QED
    BY <1>4, <1>5, <2>2, LimitAssumption
<1>6. ASSUME MaxAge > 0, NEW d \in rest PROVE entries[d] >= job[p].since - MaxAge
  <2>1. d \in DOMAIN job[p].seen /\ d \notin TooOld(job[p].seen, job[p].since) /\ entries[d] = job[p].seen[d]
    BY <1>2, <1>4 DEF Kept
  <2>2. ~(job[p].seen[d] < job[p].since - MaxAge)
    BY <1>6, <2>1 DEF TooOld
  <2>3. QED
    BY <1>3, <2>1, <2>2, LimitAssumption
<1>7. QED
  BY <1>5, <1>6

(* The cache stays of its types: what the selection yields, too, is of the entries read. *)
THEOREM RefTypes == RefSpec => []RefTypeOK
  BY TypesBegin, TypesKept, PTL DEF RefSpec

LEMMA SelectedInvariant == RefSpec => []Selected
<1>1. RefInit => Selected
  BY DEF RefInit, Selected, Pruning, Actors
<1>2. QED
  BY <1>1, SelectedKept, RefTypes, PTL DEF RefSpec

(* What a Prune leaves at its end (prune.go:39), but for the entries that other goroutines *)
(* and processes used or stored since it began and those whose removal failed, is no       *)
(* larger than MaxSize and no older than MaxAge: for any sizes, any number of entries and  *)
(* any steps of others meanwhile.                                                          *)
THEOREM PrunedWithinLimits == RefSpec => []PruneWithinLimits
<1>1. RefTypeOK /\ Selected => PruneWithinLimits
  BY RestIsKept DEF PruneWithinLimits
<1>2. QED
  BY <1>1, RefTypes, SelectedInvariant, PTL

(* For the size limit a Prune takes the least recently used entries, and without the last  *)
(* one that it takes the rest would be too large (markLRUEntries, prune.go:95).            *)
THEOREM LeastRecentEvicted == RefSpec => []EvictsLeastRecent
<1>1. ASSUME RefTypeOK, Selected, NEW p \in Pruners, Fresh(p)
      PROVE  LET seen == job[p].seen
                 forSize == job[p].remove \ TooOld(seen, job[p].since)
                 last == {d \in forSize : \A e \in forSize : seen[e] <= seen[d]}
             IN /\ \A d \in forSize, k \in Kept(p) : seen[d] <= seen[k]
                /\ forSize # {} => \E d \in last : TotalSize(Kept(p) \cup {d}) > MaxSize
  <2>1. SelectedBy(p)
    BY <1>1 DEF Selected, Pruning, Fresh
  <2>2. /\ job[p].seen \in PartialFcn(Digests, Time)
        /\ job[p].remove \in selectEntriesToRemove(job[p].seen, job[p].since)
    BY <1>1, <2>1, Numbers DEF SelectedBy
  <2>3. QED
    BY <2>2, SelectionIs DEF Kept
<1>2. RefTypeOK /\ Selected => EvictsLeastRecent
  BY <1>1 DEF EvictsLeastRecent
<1>3. QED
  BY <1>2, RefTypes, SelectedInvariant, PTL
===============================================================================
