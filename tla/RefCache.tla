------------------------------- MODULE RefCache -------------------------------
(***************************************************************************)
(* The cache as a catalogue of several digests: entries with their times   *)
(* of last access, the reference index with its TTL (refindex.go), Prune   *)
(* (prune.go), and the cached call of the client (openImageCached with     *)
(* eager loading) that uses them while tags move in the registry.          *)
(* CacheDir and EagerCache have the files of one digest in detail; here a  *)
(* digest has a complete entry or none and a blob or none.                 *)
(***************************************************************************)
EXTENDS Integers, Sequences, FiniteSets, SequencesExt, FiniteSetsExt, Functions

CONSTANTS Digests, Refs,
          SizeOf,     \* SizeOf[d]: Entry.Size
          Callers,    \* goroutines in Pull or OpenImage
          Pruners,    \* goroutines in Prune
          Proc,       \* Proc[a]: the process of actor a
          MaxSize,    \* PruneOptions.MaxSize, 0 for no limit
          MaxAge,     \* PruneOptions.MaxAge, 0 for no limit
          TTL,        \* Client.cacheTTL
          Latency,    \* the longest a reference is between registry and index
          MaxClock,   \* bound: time stops here
          MayFail     \* whether requests and evictions may fail

ASSUME DigestsAssumption == IsFiniteSet(Digests)
ASSUME SizeOfAssumption == SizeOf \in [Digests -> Nat]
ASSUME LimitAssumption == {MaxSize, MaxAge, TTL, Latency, MaxClock} \subseteq Nat
ASSUME SomeAssumption == Digests # {} /\ Refs # {}
ASSUME PrunersAssumption == Callers \cap Pruners = {}

VARIABLES entries,  \* the digests with an entry, each with its LastAccessed
          blobs,    \* the digests whose blob file exists
          refs,     \* the references in the index: digest and ValidatedAt
          tag,      \* the registry: the digest each reference resolves to
          clock,
          memo,     \* memo[p]: the descriptor cache of the client of process p, if it has one
          mu,       \* actors that hold the c.mu of their process
          pc,
          at,       \* at[a]: the digest a works on
          ref,      \* ref[c]: the reference of a call
          job,      \* job[p]: a Prune: what it read, what it removes, what is left
          until,    \* history: when the registry last resolved r to d
          asked,    \* history: when the registry answered caller c
          pruned    \* history: when the last Prune that was completed began

dirVars == <<entries, blobs, refs>>
callVars == <<mu, pc, at, ref, job>>
history == <<until, asked, pruned>>
refVars == <<dirVars, tag, clock, memo, callVars, history>>

Actors == Callers \cup Pruners
Clients == {Proc[c] : c \in Callers}
Time == 0..MaxClock
PartialFcn(S, T) == UNION {[D -> T] : D \in SUBSET S}
Job == [seen : PartialFcn(Digests, Time), remove : SUBSET Digests,
        failed : SUBSET Digests, left : SUBSET Digests, since : Time]
(* RefEntry, and whether the mapping was remembered and not asked for (history). *)
RefEntry == [digest : Digests, validated : Time, recalled : BOOLEAN]
NoJob == [seen |-> [d \in {} |-> 0], remove |-> {}, failed |-> {}, left |-> {}, since |-> 0]

Labels == {"idle", "has", "resolve", "ask", "remember", "recall", "update", "load", "hit", "touch",
          "heal", "evictentry", "evictrefs", "lock", "fetch", "save", "prune"}

RefTypeOK ==
  /\ entries \in PartialFcn(Digests, Time)
  /\ blobs \subseteq Digests
  /\ refs \in PartialFcn(Refs, RefEntry)
  /\ tag \in [Refs -> Digests]
  /\ clock \in Time
  /\ memo \in PartialFcn(Clients, PartialFcn(Refs, Digests))
  /\ mu \subseteq Actors
  /\ pc \in [Actors -> Labels]
  /\ at \in [Actors -> Digests]
  /\ ref \in [Callers -> Refs]
  /\ job \in [Pruners -> Job]
  /\ until \in [Refs -> [Digests -> Time]]
  /\ asked \in [Callers -> Time]
  /\ pruned \in Time

(* Whatever calls that were finished or killed may have left, at time 0.  A process has *)
(* one client, and its descriptor cache, with or without which it was made, is empty.    *)
RefInit ==
  /\ entries \in PartialFcn(Digests, {0})
  /\ blobs \in SUBSET Digests
  /\ refs \in PartialFcn(Refs, [digest : Digests, validated : {0}, recalled : BOOLEAN])
  /\ tag \in [Refs -> Digests]
  /\ clock = 0
  /\ \E S \in SUBSET Clients : memo = [p \in S |-> [r \in {} |-> 0]]
  /\ mu = {}
  /\ pc = [a \in Actors |-> "idle"]
  /\ at \in [Actors -> {CHOOSE d \in Digests : TRUE}]
  /\ ref \in [Callers -> {CHOOSE r \in Refs : TRUE}]
  /\ job = [p \in Pruners |-> NoJob]
  /\ until = [r \in Refs |-> [d \in Digests |-> 0]]
  /\ asked = [c \in Callers |-> 0]
  /\ pruned = 0

Goto(a, label) == pc' = [pc EXCEPT ![a] = label]
MuFree(a) == \A b \in mu : Proc[b] # Proc[a]
Without(f, S) == Restrict(f, DOMAIN f \ S)
Stored(f, x, value) == [y \in DOMAIN f \cup {x} |-> IF y = x THEN value ELSE f[y]]

(* saveEntry of an entry that says it was accessed now; a failure is logged and ignored. *)
SaveEntry(d) ==
  \/ entries' = [e \in DOMAIN entries \cup {d} |-> IF e = d THEN clock ELSE entries[e]]
  \/ MayFail /\ UNCHANGED entries

-------------------------------------------------------------------------------
(* evictLocked: the files, then the references to the digest. *)

EvictBlob(a, from) ==
  /\ pc[a] = from
  /\ blobs' = blobs \ {at[a]}
  /\ Goto(a, "evictentry")
  /\ UNCHANGED <<entries, refs, tag, clock, memo, at, ref, job, history>>

EvictEntry(a) ==
  /\ pc[a] = "evictentry"
  /\ entries' = Without(entries, {at[a]})
  /\ Goto(a, "evictrefs")
  /\ UNCHANGED <<blobs, refs, tag, clock, memo, mu, at, ref, job, history>>

(* The entry file cannot be removed: the error returns, the references stay. *)
EvictFails(a) ==
  /\ pc[a] = "evictentry" /\ MayFail
  /\ UNCHANGED <<dirVars, tag, clock, memo, at, ref, history>>

(* A bug: the references to an evicted digest stay. *)
KeepRefs(a) ==
  /\ pc[a] = "evictrefs"
  /\ UNCHANGED refs

removeRefsByDigest(a) ==
  /\ pc[a] = "evictrefs"
  /\ refs' = RestrictValues(refs, LAMBDA entry : entry.digest # at[a])

-------------------------------------------------------------------------------
(* A call of the client with a reference. *)

Expired(r) == clock - refs[r].validated > TTL

(* LookupByRef: a mapping within the TTL is used when its blob is there. *)
LookupByRef(c) ==
  /\ pc[c] = "idle"
  /\ \E r \in Refs :
       /\ ref' = [ref EXCEPT ![c] = r]
       /\ IF TTL > 0 /\ r \in DOMAIN refs /\ ~Expired(r)
          THEN at' = [at EXCEPT ![c] = refs[r].digest] /\ Goto(c, "has")
          ELSE Goto(c, "resolve") /\ UNCHANGED at
  /\ UNCHANGED <<dirVars, tag, clock, memo, mu, job, history>>

(* A bug: a hit validates the mapping once more. *)
HasBlobValidates(c) ==
  /\ pc[c] = "has" /\ MuFree(c)
  /\ IF at[c] \in DOMAIN entries \cap blobs
     THEN /\ refs' = [r \in DOMAIN refs |->
                        IF r = ref[c] THEN [refs[r] EXCEPT !.validated = clock] ELSE refs[r]]
          /\ Goto(c, "load")
     ELSE Goto(c, "resolve") /\ UNCHANGED refs
  /\ UNCHANGED <<entries, blobs, tag, clock, memo, mu, at, ref, job, history>>

hasCachedBlob(c) ==
  /\ pc[c] = "has" /\ MuFree(c)
  /\ Goto(c, IF at[c] \in DOMAIN entries \cap blobs THEN "load" ELSE "resolve")
  /\ UNCHANGED <<dirVars, tag, clock, memo, mu, at, ref, job, history>>

(* The client made WithDescriptorCache that has resolved the reference before. *)
Remembers(c) == Proc[c] \in DOMAIN memo
Recalls(c) == Remembers(c) /\ ref[c] \in DOMAIN memo[Proc[c]]

(* It answers with what it remembers, whatever the tag is now. *)
ResolveLayer(c) ==
  /\ pc[c] = "resolve"
  /\ \/ /\ Recalls(c)
        /\ at' = [at EXCEPT ![c] = memo[Proc[c]][ref[c]]]
        /\ Goto(c, "recall")
     \/ /\ ~Recalls(c)
        /\ Goto(c, "ask")
        /\ UNCHANGED at
  /\ UNCHANGED <<dirVars, tag, clock, memo, mu, ref, job, history>>

resolveLayerDescriptor(c) ==
  /\ pc[c] = "ask"
  /\ \/ /\ at' = [at EXCEPT ![c] = tag[ref[c]]]
        /\ asked' = [asked EXCEPT ![c] = clock]
        /\ Goto(c, IF Remembers(c) THEN "remember" ELSE "update")
     \/ /\ MayFail
        /\ Goto(c, "idle")
        /\ UNCHANGED <<at, asked>>
  /\ UNCHANGED <<dirVars, tag, clock, memo, mu, ref, job, until, pruned>>

Remember(c) ==
  /\ pc[c] = "remember"
  /\ memo' = [memo EXCEPT ![Proc[c]] = Stored(memo[Proc[c]], ref[c], at[c])]
  /\ Goto(c, "update")
  /\ UNCHANGED <<dirVars, tag, clock, mu, at, ref, job, history>>

(* A bug: the index stores when the mapping expires. *)
StoreExpiry(c) ==
  /\ pc[c] \in {"update", "recall"}
  /\ refs' = Stored(refs, ref[c], [digest |-> at[c], validated |-> clock + TTL,
                                  recalled |-> pc[c] = "recall"])
  /\ Goto(c, "load")
  /\ UNCHANGED <<entries, blobs, tag, clock, memo, mu, at, ref, job, history>>

(* Every mapping is stamped as validated now, one that was only remembered too.  The *)
(* save of the index may fail, which is logged and ignored. *)
UpdateRefIndex(c) ==
  /\ pc[c] \in {"update", "recall"}
  /\ \/ refs' = Stored(refs, ref[c], [digest |-> at[c], validated |-> clock,
                                     recalled |-> pc[c] = "recall"])
     \/ MayFail /\ UNCHANGED refs
  /\ Goto(c, "load")
  /\ UNCHANGED <<entries, blobs, tag, clock, memo, mu, at, ref, job, history>>

(* The open of the digest: a hit is touched, a lost blob evicted, a miss downloaded. *)
Load(c) ==
  /\ pc[c] = "load" /\ MuFree(c)
  /\ Goto(c, IF at[c] \in DOMAIN entries THEN "hit" ELSE "lock")
  /\ UNCHANGED <<dirVars, tag, clock, memo, mu, at, ref, job, history>>

Hit(c) ==
  /\ pc[c] = "hit"
  /\ Goto(c, IF at[c] \in blobs THEN "touch" ELSE "heal")
  /\ UNCHANGED <<dirVars, tag, clock, memo, mu, at, ref, job, history>>

Touch(c) ==
  /\ pc[c] = "touch"
  /\ SaveEntry(at[c])
  /\ Goto(c, "idle")
  /\ UNCHANGED <<blobs, refs, tag, clock, memo, mu, at, ref, job, history>>

SelfHeal(c) ==
  \/ EvictBlob(c, "heal") /\ MuFree(c) /\ mu' = mu \cup {c}
  \/ EvictEntry(c)
  \/ /\ removeRefsByDigest(c)
     /\ mu' = mu \ {c}
     /\ Goto(c, "lock")
     /\ UNCHANGED <<entries, blobs, tag, clock, memo, at, ref, job, history>>
  \/ /\ EvictFails(c)
     /\ mu' = mu \ {c}
     /\ Goto(c, "lock")
     /\ UNCHANGED job

Lock(c) ==
  /\ pc[c] = "lock" /\ MuFree(c)
  /\ IF at[c] \in DOMAIN entries THEN Goto(c, "idle") /\ UNCHANGED mu
                                 ELSE Goto(c, "fetch") /\ mu' = mu \cup {c}
  /\ UNCHANGED <<dirVars, tag, clock, memo, at, ref, job, history>>

Download(c) ==
  /\ pc[c] = "fetch"
  /\ \/ blobs' = blobs \cup {at[c]} /\ Goto(c, "save") /\ UNCHANGED mu
     \/ MayFail /\ Goto(c, "idle") /\ mu' = mu \ {c} /\ UNCHANGED blobs
  /\ UNCHANGED <<entries, refs, tag, clock, memo, at, ref, job, history>>

SaveComplete(c) ==
  /\ pc[c] = "save"
  /\ SaveEntry(at[c])
  /\ mu' = mu \ {c}
  /\ Goto(c, "idle")
  /\ UNCHANGED <<blobs, refs, tag, clock, memo, at, ref, job, history>>

Caller(c) ==
  \/ LookupByRef(c) \/ hasCachedBlob(c)
  \/ ResolveLayer(c) \/ resolveLayerDescriptor(c) \/ Remember(c) \/ UpdateRefIndex(c)
  \/ Load(c) \/ Hit(c) \/ Touch(c) \/ SelfHeal(c)
  \/ Lock(c) \/ Download(c) \/ SaveComplete(c)

-------------------------------------------------------------------------------
(* Prune *)

TotalSize(S) == MapThenSumSet(LAMBDA d : SizeOf[d], S)

(* LastAccessed before the cutoff, in what loadAllEntries returned at time now. *)
TooOld(seen, now) == {d \in DOMAIN seen : MaxAge > 0 /\ seen[d] < now - MaxAge}

(* A bug: newest first. *)
MostRecentFirst(seen, S) ==
  {order \in SetToSeqs(S) : \A i, j \in DOMAIN order : i < j => seen[order[i]] >= seen[order[j]]}

(* Oldest first; sort.Slice leaves equal times in any order. *)
LeastRecentFirst(seen, S) ==
  {order \in SetToSeqs(S) : \A i, j \in DOMAIN order : i < j => seen[order[i]] <= seen[order[j]]}

(* A bug: an entry whose removal would be enough is kept. *)
MarkTooFew(order) ==
  LET Mark(walk, d) ==
        IF walk.total - SizeOf[d] <= MaxSize THEN walk
        ELSE [marked |-> walk.marked \cup {d}, total |-> walk.total - SizeOf[d]]
  IN FoldLeft(Mark, [marked |-> {}, total |-> TotalSize(ToSet(order))], order).marked

markLRUEntries(order) ==
  LET Mark(walk, d) ==
        IF walk.total <= MaxSize THEN walk
        ELSE [marked |-> walk.marked \cup {d}, total |-> walk.total - SizeOf[d]]
  IN FoldLeft(Mark, [marked |-> {}, total |-> TotalSize(ToSet(order))], order).marked

selectEntriesToRemove(seen, now) ==
  LET old == TooOld(seen, now)
      orders == LeastRecentFirst(seen, DOMAIN seen \ old)
  IN {old \cup (IF MaxSize > 0 THEN markLRUEntries(order) ELSE {}) : order \in orders}

(* The lock, loadAllEntries and the selection; with no entry there is nothing more. *)
PruneBegin(p) ==
  /\ pc[p] = "idle" /\ MuFree(p) /\ DOMAIN entries # {}
  /\ mu' = mu \cup {p}
  /\ \E remove \in selectEntriesToRemove(entries, clock) :
       job' = [job EXCEPT ![p] = [seen |-> entries, remove |-> remove,
                                  failed |-> {}, left |-> DOMAIN entries,
                                  since |-> clock]]
  /\ Goto(p, "prune")
  /\ UNCHANGED <<dirVars, tag, clock, memo, at, ref, history>>

(* executeRemovals, an entry that is kept. *)
KeepEntry(p) ==
  /\ pc[p] = "prune"
  /\ \E d \in job[p].left \ job[p].remove : job' = [job EXCEPT ![p].left = @ \ {d}]
  /\ UNCHANGED <<dirVars, tag, clock, memo, mu, pc, at, ref, history>>

(* executeRemovals, an entry that is evicted; a failed eviction is logged. *)
RemoveEntry(p) ==
  \/ /\ \E d \in job[p].left \cap job[p].remove :
          /\ pc[p] = "prune"
          /\ blobs' = blobs \ {d}
          /\ at' = [at EXCEPT ![p] = d]
          /\ job' = [job EXCEPT ![p].left = @ \ {d}]
     /\ Goto(p, "evictentry")
     /\ UNCHANGED <<entries, refs, tag, clock, memo, mu, ref, history>>
  \/ EvictEntry(p)
  \/ /\ removeRefsByDigest(p)
     /\ Goto(p, "prune")
     /\ UNCHANGED <<entries, blobs, tag, clock, memo, mu, at, ref, job, history>>
  \/ /\ EvictFails(p)
     /\ job' = [job EXCEPT ![p].failed = @ \cup {at[p]}]
     /\ Goto(p, "prune")
     /\ UNCHANGED mu

(* A cancelled Prune returns before the references are looked at. *)
PruneCancelled(p) ==
  /\ pc[p] = "prune" /\ job[p].left # {} /\ MayFail
  /\ job' = [job EXCEPT ![p] = NoJob]
  /\ mu' = mu \ {p}
  /\ Goto(p, "idle")
  /\ UNCHANGED <<dirVars, tag, clock, memo, at, ref, history>>

Kept(p) == DOMAIN job[p].seen \ job[p].remove

(* Every reference to a digest that was not kept goes. *)
cleanupOrphanedRefs(p) ==
  /\ pc[p] = "prune" /\ job[p].left = {}
  /\ refs' = RestrictValues(refs, LAMBDA entry : entry.digest \in Kept(p))
  /\ pruned' = job[p].since
  /\ job' = [job EXCEPT ![p] = NoJob]
  /\ mu' = mu \ {p}
  /\ Goto(p, "idle")
  /\ UNCHANGED <<entries, blobs, tag, clock, memo, at, ref, until, asked>>

Pruner(p) ==
  \/ PruneBegin(p) \/ KeepEntry(p) \/ RemoveEntry(p)
  \/ PruneCancelled(p) \/ cleanupOrphanedRefs(p)

-------------------------------------------------------------------------------
(* The registry resolves a reference to another digest from now on. *)
MoveTag ==
  /\ \E r \in Refs, d \in Digests :
       /\ tag' = [tag EXCEPT ![r] = d]
       /\ until' = [until EXCEPT ![r][d] = clock]
  /\ UNCHANGED <<dirVars, clock, memo, callVars, asked, pruned>>

(* Time passes, but no answer of the registry takes longer than Latency to be stored. *)
Tick ==
  /\ clock < MaxClock
  /\ \A c \in Callers : pc[c] \in {"remember", "update"} => clock - asked[c] < Latency
  /\ clock' = clock + 1
  /\ until' = [r \in Refs |-> [until[r] EXCEPT ![tag[r]] = clock + 1]]
  /\ UNCHANGED <<dirVars, tag, memo, callVars, asked, pruned>>

RefNext ==
  \/ \E c \in Callers : Caller(c)
  \/ \E p \in Pruners : Pruner(p)
  \/ MoveTag \/ Tick

RefSpec == RefInit /\ [][RefNext]_refVars

-------------------------------------------------------------------------------
(* options.go:191-193: a call that uses the index without asking the registry uses a *)
(* digest that the registry gave for the reference within the TTL, however often the *)
(* mapping was used meanwhile; Latency is what passes between answer and index.  The *)
(* exception is a mapping that some client WithDescriptorCache stored last, of this  *)
(* process or another, without asking: it was stamped as validated (client.go:180-185)*)
(* when it was only remembered, and how long ago the registry gave it has no bound.  *)
TTLBound ==
  [][\A c \in Callers :
       pc[c] = "idle" /\ pc'[c] = "has" =>
         \/ refs[ref'[c]].recalled
         \/ until[ref'[c]][at'[c]] + TTL + Latency >= clock]_refVars

(* What makes it inductive: the index says of no reference that the registry gave it *)
(* later than it did, but for the time an answer takes, unless it was remembered.    *)
RefTimes ==
  /\ clock \in Time /\ tag \in [Refs -> Digests]
  /\ until \in [Refs -> [Digests -> 0..clock]] /\ \A r \in Refs : until[r][tag[r]] = clock
  /\ DOMAIN pc = Actors /\ DOMAIN at = Actors
  /\ ref \in [Callers -> Refs] /\ asked \in [Callers -> Nat]
  /\ \A p \in DOMAIN memo : \A r \in DOMAIN memo[p] : memo[p][r] \in Digests
  /\ \A c \in Callers :
       /\ at[c] \in Digests
       /\ pc[c] \in {"remember", "update"} =>
            asked[c] <= until[ref[c]][at[c]] /\ clock - asked[c] <= Latency
  /\ DOMAIN refs \subseteq Refs
  /\ \A r \in DOMAIN refs :
       /\ refs[r].digest \in Digests /\ refs[r].validated \in Nat
       /\ ~refs[r].recalled => refs[r].validated <= until[r][refs[r].digest] + Latency

Pruning(p) == pc[p] \in {"prune", "evictentry", "evictrefs"}
Fresh(p) == pc[p] = "prune" /\ job[p].left = DOMAIN job[p].seen

(* At the end of a Prune what is left, except what other goroutines used or stored *)
(* since it began and what could not be removed, respects both limits (Prune). *)
PruneWithinLimits ==
  \A p \in Pruners : pc[p] = "prune" /\ job[p].left = {} =>
    LET rest == {d \in DOMAIN entries \ job[p].failed : entries[d] < job[p].since}
    IN /\ MaxSize > 0 => TotalSize(rest) <= MaxSize
       /\ MaxAge > 0 => \A d \in rest : entries[d] >= job[p].since - MaxAge

(* The size limit takes the least recently used entries, and not one more than it must *)
(* (markLRUEntries). *)
EvictsLeastRecent ==
  \A p \in Pruners : Fresh(p) =>
    LET seen == job[p].seen
        forSize == job[p].remove \ TooOld(seen, job[p].since)
        last == {d \in forSize : \A e \in forSize : seen[e] <= seen[d]}
    IN /\ \A d \in forSize, k \in Kept(p) : seen[d] <= seen[k]
       /\ forSize # {} => \E d \in last : TotalSize(Kept(p) \cup {d}) > MaxSize

(* What makes them inductive: a Prune goes by what it selected from the entries that it   *)
(* read, and an entry that nobody has used or stored since is one that it read, and is not *)
(* one that it is through with removing.                                                   *)
SelectedBy(p) ==
  /\ job[p].remove \in selectEntriesToRemove(job[p].seen, job[p].since)
  /\ job[p].since <= clock
  /\ \A d \in DOMAIN entries : entries[d] < job[p].since =>
       /\ d \in DOMAIN job[p].seen /\ entries[d] = job[p].seen[d]
       /\ d \in job[p].remove =>
            d \in job[p].left \cup job[p].failed \/ (pc[p] = "evictentry" /\ at[p] = d)

Selected == \A p \in Pruners : Pruning(p) => SelectedBy(p)

(* A reference that was in the index when the last complete Prune began points to a *)
(* digest with an entry: no later eviction leaves one behind (cleanupOrphanedRefs, *)
(* removeRefsByDigest), if the files of references that must go can be removed: the *)
(* code logs it when one cannot (prune.go:261, 291) and leaves it. *)
OldRefsBacked ==
  \A r \in DOMAIN refs : refs[r].validated < pruned =>
    \/ refs[r].digest \in DOMAIN entries
    \/ \E a \in Actors : pc[a] = "evictrefs" /\ at[a] = refs[r].digest

(* What makes it inductive: of what a Prune keeps, the references from before it began are *)
(* backed from then on, and of everything once it has cleaned up.                          *)
Backed(d, since) ==
  \/ d \in DOMAIN entries
  \/ \E a \in Actors : pc[a] = "evictrefs" /\ at[a] = d
  \/ \A r \in DOMAIN refs : refs[r].digest = d => refs[r].validated >= since

RefsBacked ==
  /\ pruned \in 0..clock
  /\ \A d \in Digests : Backed(d, pruned)
  /\ DOMAIN job = Pruners
  /\ \A p \in Pruners : Pruning(p) =>
       /\ DOMAIN job[p] = DOMAIN NoJob /\ job[p].since \in 0..clock
       /\ \A d \in Kept(p) : Backed(d, job[p].since)
===============================================================================
