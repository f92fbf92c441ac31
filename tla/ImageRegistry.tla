----------------------------- MODULE ImageRegistry -----------------------------
(***************************************************************************)
(* The OCI registry as internal/registry uses it: blobs, manifests and     *)
(* indexes stored under their digest, tags that can move, and referrers    *)
(* (signatures, SBOMs) attached to a digest.  Something stored under a     *)
(* digest never changes, so a digest is the object itself here.  Each      *)
(* request of the client is one step.  Other tools use the same            *)
(* repository: they publish images and attach referrers at any time.       *)
(***************************************************************************)
EXTENDS Integers, Sequences, FiniteSets

CONSTANTS Tags,
          Layers,
          Manifests,
          Indexes,      \* multi-platform image lists
          LayersOf,     \* LayersOf[m]: the layers a manifest names
          EntriesOf,    \* EntriesOf[i]: the manifests an index names, with their platform
          NoObject,     \* nothing has this tag
          Refusals,     \* whether a request may fail
          MaxChanges    \* steps other tools take

Objects == Manifests \cup Indexes
Locators == Tags \cup Objects       \* repo:tag, or repo@digest
Blob == ({"layer", "config"} \X Layers) \cup ({"bundle"} \X Objects)

(* A referrer: its artifact type, the bytes it vouches for, whether its signer is trusted. *)
Referrer == [type : {"sbom", "bundle"}, over : Objects, trusted : BOOLEAN]

ASSUME KindsAssumption ==
  Manifests \cap Indexes = {} /\ Tags \cap Objects = {} /\ NoObject \notin Locators
ASSUME LayersAssumption == LayersOf \in [Manifests -> Seq(Layers)]
ASSUME EntriesAssumption ==
  EntriesOf \in [Indexes -> Seq([manifest : Manifests, local : BOOLEAN])]
ASSUME LimitAssumption == Refusals \in BOOLEAN /\ MaxChanges \in Nat

VARIABLES blobs,      \* blobs stored
          objects,    \* manifests and indexes stored
          tag,        \* tag[t]: what t points to
          referrers,  \* referrers[o]: what is attached to o
          changes     \* steps taken by other tools

registryVars == <<blobs, objects, tag, referrers, changes>>

RegistryTypeOK ==
  /\ blobs \subseteq Blob
  /\ objects \subseteq Objects
  /\ tag \in [Tags -> Objects \cup {NoObject}]
  /\ referrers \in [Objects -> SUBSET Referrer]
  /\ changes \in 0..MaxChanges

-------------------------------------------------------------------------------
(* What a manifest needs to be pulled, and what an index names. *)
BlobsOf(m) ==
  LET layers == {LayersOf[m][k] : k \in DOMAIN LayersOf[m]}
  IN {"layer", "config"} \X layers

Named(o) == IF o \in Indexes THEN {EntriesOf[o][k].manifest : k \in DOMAIN EntriesOf[o]} ELSE {o}

(* The manifest reference r leads to now: a tag is looked up, a digest is itself. *)
Deref(r) ==
  IF r \in Tags THEN tag[r] ELSE IF r \in objects THEN r ELSE NoObject

(* resolveFromIndexFull: the first entry of the local platform, or else the first entry. *)
SelectedFrom(i) ==
  LET entries == EntriesOf[i]
      locals == {k \in DOMAIN entries : entries[k].local}
  IN IF entries = <<>> THEN NoObject
     ELSE IF locals = {} THEN entries[1].manifest
     ELSE entries[CHOOSE k \in locals : \A j \in locals : k <= j].manifest

PlatformOf(o) == IF o \in Indexes THEN SelectedFrom(o) ELSE o

(* resolveLayerDescriptorFull: an image of blobber has exactly one layer.  The index and *)
(* the manifest are two requests, but the second asks for a digest, so when it is asked *)
(* does not matter. *)
NoLayer == [manifest |-> NoObject, layer |-> NoObject]

ResolveLayerFull(r) ==
  LET m == IF Deref(r) = NoObject THEN NoObject ELSE PlatformOf(Deref(r))
  IN IF m = NoObject \/ m \notin objects THEN NoLayer
     ELSE IF Len(LayersOf[m]) # 1 THEN NoLayer
     ELSE [manifest |-> m, layer |-> LayersOf[m][1]]

Resolved == {NoLayer} \cup [manifest : Manifests, layer : Layers]

(* The manifest Push writes for a layer. *)
ManifestOf(l) == CHOOSE m \in Manifests : LayersOf[m] = <<l>>

(* Verify of a signature r against the bytes of o. *)
Vouches(r, o) == r.type = "bundle" /\ r.trusted /\ r.over = o

-------------------------------------------------------------------------------
(* Other tools. *)

Changed == changes < MaxChanges /\ changes' = changes + 1

Publish(t, o) ==
  /\ Changed
  /\ objects' = objects \cup {o} \cup Named(o)
  /\ blobs' = blobs \cup UNION {BlobsOf(m) : m \in Named(o) \ Indexes}
  /\ tag' = [tag EXCEPT ![t] = o]
  /\ UNCHANGED referrers

Attach(o, r) ==
  /\ Changed
  /\ o \in objects
  /\ r.over = o
  /\ referrers' = [referrers EXCEPT ![o] = @ \cup {r}]
  /\ blobs' = blobs \cup {<<"bundle", r.over>>}
  /\ UNCHANGED <<objects, tag>>
===============================================================================
