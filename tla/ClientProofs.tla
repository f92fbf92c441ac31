------------------------------ MODULE ClientProofs ------------------------------
(***************************************************************************)
(* Proofs about Client for every number of clients, tags and images, with  *)
(* any options, any foreign images and any number of steps of other tools. *)
(***************************************************************************)
EXTENDS Client, TLAPS, WellFoundedInduction

(* The first of several entries, which SelectedFrom looks for, exists. *)
LEMMA Least ==
  ASSUME NEW S \in SUBSET Nat, S # {} PROVE \E k \in S : \A j \in S : k <= j
<1> DEFINE R == {p \in Nat \X Nat : p[1] < p[2]}
<1>1. IsWellFoundedOn(R, Nat)
  BY NatLessThanWellFounded, Zenon DEF OpToRel
<1>2. PICK k \in S : \A j \in S : <<j, k>> \notin R
  BY <1>1, WFMin, Zenon
<1>3. ASSUME NEW j \in S PROVE k <= j
  <2>1. j \in Nat /\ k \in Nat
    OBVIOUS
  <2>2. ~(j < k)
    BY <1>2, <2>1
  <2>3. QED
    BY <2>1, <2>2
<1>4. QED
  BY <1>3

LEMMA ElementType ==
  ASSUME NEW S, NEW s \in Seq(S), NEW k \in DOMAIN s PROVE s[k] \in S
OBVIOUS

(* An index selects one of the manifests it names, if it names any. *)
LEMMA SelectedType ==
  ASSUME NEW i \in Indexes PROVE SelectedFrom(i) \in Manifests \cup {NoObject}
<1> DEFINE entries == EntriesOf[i]
           locals == {k \in DOMAIN entries : entries[k].local}
<1>1. entries \in Seq([manifest : Manifests, local : BOOLEAN])
  BY EntriesAssumption, Zenon
<1>2. DOMAIN entries = 1..Len(entries) /\ Len(entries) \in Nat
  BY <1>1
<1>3. \A k \in DOMAIN entries : entries[k].manifest \in Manifests
  <2>1. \A k \in DOMAIN entries : entries[k] \in [manifest : Manifests, local : BOOLEAN]
    BY <1>1, ElementType, Zenon
  <2>2. QED
    BY <2>1
<1>4. CASE entries = <<>>
  BY <1>4 DEF SelectedFrom
<1>5. CASE entries # <<>> /\ locals = {}
  BY <1>1, <1>2, <1>3, <1>5 DEF SelectedFrom
<1>6. CASE entries # <<>> /\ locals # {}
  <2>1. locals \in SUBSET Nat
    BY <1>2
  <2>2. \E k \in locals : \A j \in locals : k <= j
    BY <1>6, <2>1, Least
  <2>3. (CHOOSE k \in locals : \A j \in locals : k <= j) \in DOMAIN entries
    BY <2>2
  <2>4. SelectedFrom(i) = entries[CHOOSE k \in locals : \A j \in locals : k <= j].manifest
    BY <1>6 DEF SelectedFrom
  <2>5. QED
    BY <1>3, <2>3, <2>4
<1>7. QED
  BY <1>4, <1>5, <1>6

(* What a reference leads to is an object. *)
LEMMA DerefType ==
  ASSUME RegistryTypeOK, NEW r \in Locators
  PROVE  /\ Deref(r) \in Objects \cup {NoObject}
         /\ r \in Objects => Deref(r) \in {r, NoObject}
         /\ r \in Objects => (Deref(r) = r <=> r \in objects)
BY KindsAssumption DEF RegistryTypeOK, Deref, Locators, Objects

LEMMA PlatformType ==
  ASSUME NEW o \in Objects PROVE PlatformOf(o) \in Manifests \cup {NoObject}
BY SelectedType DEF PlatformOf, Objects

(* A resolution gives a manifest that is stored and its only layer, or nothing. *)
LEMMA ResolvedType ==
  ASSUME RegistryTypeOK, NEW r \in Locators
  PROVE  /\ ResolveLayerFull(r) \in Resolved
         /\ ResolveLayerFull(r) # NoLayer =>
              /\ Deref(r) \in Objects
              /\ PlatformOf(Deref(r)) \in Manifests \cap objects
              /\ Len(LayersOf[PlatformOf(Deref(r))]) = 1
              /\ ResolveLayerFull(r) = [manifest |-> PlatformOf(Deref(r)),
                                        layer |-> LayersOf[PlatformOf(Deref(r))][1]]
<1> DEFINE m == IF Deref(r) = NoObject THEN NoObject ELSE PlatformOf(Deref(r))
<1>1. m \in Manifests \cup {NoObject}
  BY DerefType, PlatformType
<1>2. m # NoObject => Deref(r) \in Objects /\ m = PlatformOf(Deref(r))
  BY DerefType
<1>3. CASE m = NoObject \/ m \notin objects
  BY <1>3 DEF ResolveLayerFull, Resolved
<1>4. CASE m # NoObject /\ m \in objects /\ Len(LayersOf[m]) # 1
  BY <1>4 DEF ResolveLayerFull, Resolved
<1>5. CASE m # NoObject /\ m \in objects /\ Len(LayersOf[m]) = 1
  <2>1. LayersOf[m] \in Seq(Layers)
    BY <1>1, <1>5, LayersAssumption
  <2>2. LayersOf[m][1] \in Layers
    BY <2>1, <1>5
  <2>3. ResolveLayerFull(r) = [manifest |-> m, layer |-> LayersOf[m][1]]
    BY <1>5 DEF ResolveLayerFull
  <2>4. QED
    BY <1>1, <1>2, <1>5, <2>2, <2>3 DEF Resolved
<1>6. QED
  BY <1>3, <1>4, <1>5

LEMMA NoLayerApart ==
  ASSUME NEW m, NEW l, m # NoObject PROVE [manifest |-> m, layer |-> l] # NoLayer
<1>1. NoLayer.manifest = NoObject
  BY DEF NoLayer
<1>2. [manifest |-> m, layer |-> l].manifest = m
  OBVIOUS
<1>3. QED
  BY <1>1, <1>2

(* What the other tools and the pushes do to the registry: nothing is taken away. *)
RegistryGrows ==
  /\ blobs \subseteq blobs'
  /\ objects \subseteq objects'
  /\ \A o \in Objects : referrers[o] \subseteq referrers'[o]

(* A digest that resolves to a layer resolves to it for ever. *)
LEMMA ResolutionStable ==
  ASSUME RegistryTypeOK, RegistryTypeOK', objects \subseteq objects', NEW o \in Objects,
         ResolveLayerFull(o) # NoLayer
  PROVE  ResolveLayerFull(o)' = ResolveLayerFull(o)
<1>1. o \in Locators /\ o \notin Tags /\ NoObject \notin Objects
  BY KindsAssumption DEF Locators
<1>2. o \in objects /\ Deref(o) = o
  BY <1>1, ResolvedType, DerefType
<1>3. Deref(o)' = o
  BY <1>1, <1>2 DEF Deref
<1>4. PlatformOf(o) \in Manifests \cap objects' /\ Len(LayersOf[PlatformOf(o)]) = 1
  BY <1>1, <1>2, ResolvedType
<1>5. o # NoObject /\ PlatformOf(o) # NoObject
  BY <1>1, <1>4 DEF Objects
<1>6. ResolveLayerFull(o)' = [manifest |-> PlatformOf(o), layer |-> LayersOf[PlatformOf(o)][1]]
  BY <1>3, <1>4, <1>5 DEF ResolveLayerFull
<1>7. QED
  BY <1>1, <1>2, <1>6, ResolvedType

(* The manifest that a digest resolves to resolves to the same. *)
LEMMA ResolutionOfPlatform ==
  ASSUME RegistryTypeOK, NEW r \in Locators, ResolveLayerFull(r) # NoLayer
  PROVE  /\ ResolveLayerFull(r).manifest \in Manifests \cap objects
         /\ ResolveLayerFull(ResolveLayerFull(r).manifest) = ResolveLayerFull(r)
<1> DEFINE m == PlatformOf(Deref(r))
<1>1. /\ m \in Manifests \cap objects /\ Len(LayersOf[m]) = 1
      /\ ResolveLayerFull(r) = [manifest |-> m, layer |-> LayersOf[m][1]]
  BY ResolvedType
<1>2. m \notin Tags /\ m \notin Indexes /\ m # NoObject
  BY <1>1, KindsAssumption DEF Objects, Locators
<1>3. Deref(m) = m /\ PlatformOf(m) = m
  BY <1>1, <1>2 DEF Deref, PlatformOf
<1>4. ResolveLayerFull(m) = [manifest |-> m, layer |-> LayersOf[m][1]]
  BY <1>1, <1>2, <1>3 DEF ResolveLayerFull
<1>5. QED
  BY <1>1, <1>4

(* A tag resolves to what it points to. *)
LEMMA ResolutionOfTag ==
  ASSUME RegistryTypeOK, RegistryClosed, NEW t \in Tags, ResolveLayerFull(t) # NoLayer
  PROVE  tag[t] \in Objects /\ tag[t] # NoObject /\ ResolveLayerFull(tag[t]) = ResolveLayerFull(t)
<1>1. t \in Locators /\ Deref(t) = tag[t]
  BY DEF Locators, Deref
<1>2. tag[t] \in Objects
  BY <1>1, ResolvedType
<1>3. tag[t] # NoObject /\ tag[t] \notin Tags
  BY <1>2, KindsAssumption DEF Locators
<1>4. Deref(tag[t]) = tag[t]
  BY <1>3 DEF Deref, RegistryClosed
<1>5. QED
  BY <1>1, <1>2, <1>3, <1>4 DEF ResolveLayerFull

LEMMA NamedType ==
  ASSUME NEW o \in Objects
  PROVE  /\ Named(o) \subseteq Objects
         /\ o \in Manifests => Named(o) = {o}
         /\ o \in Indexes => Named(o) \subseteq Manifests
<1>1. CASE o \in Indexes
  <2>1. EntriesOf[o] \in Seq([manifest : Manifests, local : BOOLEAN])
    BY <1>1, EntriesAssumption, Zenon
  <2>2. \A k \in DOMAIN EntriesOf[o] : EntriesOf[o][k] \in [manifest : Manifests, local : BOOLEAN]
    BY <2>1, ElementType, Zenon
  <2>3. QED
    BY <1>1, <2>2, KindsAssumption DEF Named, Objects
<1>2. CASE o \notin Indexes
  BY <1>2 DEF Named, Objects
<1>3. QED
  BY <1>1, <1>2

LEMMA BlobsType ==
  ASSUME NEW m \in Manifests PROVE BlobsOf(m) \subseteq Blob
<1>1. LayersOf[m] \in Seq(Layers)
  BY LayersAssumption
<1>2. \A k \in DOMAIN LayersOf[m] : LayersOf[m][k] \in Layers
  BY <1>1, ElementType, Zenon
<1>3. QED
  BY <1>2 DEF BlobsOf, Blob

LEMMA AttachmentsType ==
  ASSUME NEW o \in Objects
  PROVE  Attachments(o) \subseteq Referrer /\ \A r \in Attachments(o) : r.over = o
BY DEF Attachments, Referrer

-------------------------------------------------------------------------------
(* The initial states. *)

LEMMA RegistryStarts == RegistryInit => RegistryTypeOK /\ RegistryClosed
<1> SUFFICES ASSUME RegistryInit PROVE RegistryTypeOK /\ RegistryClosed
  OBVIOUS
<1>1. PICK o \in Foreign \cup {NoObject} :
        /\ objects = (Foreign \cup UNION {Named(f) : f \in Foreign})
        /\ tag = [t \in Tags |-> o]
        /\ \E r \in [Foreign -> {NoObject} \cup UNION {Attachments(f) : f \in Foreign}] :
             /\ \A f \in Foreign : r[f] \in Attachments(f) \cup {NoObject}
             /\ referrers = [f \in Objects |-> IF f \in Foreign THEN {r[f]} \ {NoObject} ELSE {}]
        /\ blobs = (UNION {BlobsOf(m) : m \in objects \ Indexes})
                   \cup {<<"bundle", f>> : f \in {g \in Foreign : referrers[g] # {}}}
        /\ changes = 0
  BY DEF RegistryInit
<1>2. \A f \in Foreign : /\ f \in Objects /\ Named(f) \subseteq Objects
                         /\ \A n \in Named(f) : Named(n) \subseteq Named(f)
  BY ForeignAssumption, NamedType DEF Objects
<1>3. objects \subseteq Objects /\ \A n \in objects : Named(n) \subseteq objects
  BY <1>1, <1>2
<1>4. \A f \in Objects : /\ f \in Foreign => referrers[f] \subseteq Attachments(f)
                         /\ f \notin Foreign => referrers[f] = {}
  BY <1>1
<1>5. referrers \in [Objects -> SUBSET Referrer]
  <2>1. \A f \in Objects : referrers[f] \subseteq Referrer
    BY <1>4, AttachmentsType
  <2>2. QED
    BY <1>1, <2>1
<1>6. blobs \subseteq Blob
  <2>1. \A m \in objects \ Indexes : BlobsOf(m) \subseteq Blob
    BY <1>3, BlobsType DEF Objects
  <2>2. \A f \in Foreign : <<"bundle", f>> \in Blob
    BY <1>2 DEF Blob
  <2>3. blobs = (UNION {BlobsOf(m) : m \in objects \ Indexes})
                \cup {<<"bundle", f>> : f \in {g \in Foreign : referrers[g] # {}}}
    BY <1>1
  <2>4. QED
    BY <2>1, <2>2, <2>3
<1>7. tag \in [Tags -> Objects \cup {NoObject}] /\ changes \in 0..MaxChanges
  BY <1>1, <1>2, LimitAssumption
<1>8. RegistryTypeOK
  BY <1>3, <1>5, <1>6, <1>7 DEF RegistryTypeOK
<1>9. \A t \in Tags : tag[t] # NoObject => tag[t] \in objects
  BY <1>1
<1>10. \A m \in objects \cap Manifests : BlobsOf(m) \subseteq blobs
  BY <1>1, KindsAssumption
<1>11. \A f \in Objects : \A r \in referrers[f] : f \in objects /\ <<"bundle", r.over>> \in blobs
  <2>1. {<<"bundle", f>> : f \in {g \in Foreign : referrers[g] # {}}} \subseteq blobs
    BY <1>1
  <2>2. Foreign \subseteq objects
    BY <1>1
  <2>3. ASSUME NEW f \in Objects, NEW r \in referrers[f]
        PROVE  f \in Foreign /\ r.over = f
    BY <1>4, <2>3, AttachmentsType
  <2>4. QED
    BY <2>1, <2>2, <2>3
<1>12. QED
  BY <1>3, <1>8, <1>9, <1>10, <1>11 DEF RegistryClosed

LEMMA InvStarts == ClientInit => ClientInv
<1> SUFFICES ASSUME ClientInit PROVE ClientInv
  OBVIOUS
<1> USE DEF ClientInit, PushInit, PullInit
<1>1. RegistryTypeOK /\ RegistryClosed
  BY RegistryStarts
<1>2. PushTypeOK
  BY DEF PushTypeOK, PushLabels, NoPush
<1>3. PullTypeOK
  <2>1. NoCall \in Call /\ NoLayer \in Resolved
    BY DEF NoCall, Call, Resolved
  <2>2. NoneKnown \in [Objects -> {"none", "some", "valid"}]
    BY DEF NoneKnown
  <2>3. QED
    BY <2>1, <2>2 DEF PullTypeOK, PullLabels
<1>4. PushedIsSigned /\ \A p \in Pushers : PushInOrder(p)
  BY SignsAssumption DEF PushedIsSigned, PushInOrder
<1>5. \A a \in Pullers : MemoSound(a)
  BY DEF MemoSound, Locators
<1>6. \A a \in Pullers : HistoryKept(a) /\ VerifyInOrder(a) /\ ResolveInOrder(a)
  BY DEF HistoryKept, VerifyInOrder, ResolveInOrder
<1>7. QED
  BY <1>1, <1>2, <1>3, <1>4, <1>5, <1>6 DEF ClientInv, ClientTypeOK

-------------------------------------------------------------------------------
(* The registry. *)

(* The manifest a push writes names the layer it uploaded, and nothing else. *)
LEMMA PushedType ==
  ASSUME NEW p \in Pushers, push[p].layer \in Built
  PROVE  /\ Pushed(p) \in Manifests
         /\ BlobsOf(Pushed(p)) = {<<"layer", push[p].layer>>, <<"config", push[p].layer>>}
<1>1. Pushed(p) \in Manifests /\ LayersOf[Pushed(p)] = <<push[p].layer>>
  BY BuiltAssumption DEF Pushed, ManifestOf
<1>2. DOMAIN <<push[p].layer>> = {1} /\ <<push[p].layer>>[1] = push[p].layer
  OBVIOUS
<1>3. {LayersOf[Pushed(p)][k] : k \in DOMAIN LayersOf[Pushed(p)]} = {push[p].layer}
  BY <1>1, <1>2
<1>4. QED
  BY <1>1, <1>3 DEF BlobsOf

LEMMA PullerQuiet ==
  ASSUME NEW a \in Pullers, Puller(a) PROVE UNCHANGED <<registryVars, opts>>
BY DEF Puller, Quiet, StartPull, RequestFails, FetchTop, Unusable, PinPlatform, FetchPlatform,
       FetchReferrers, TrySignature, Resolve, FetchBlob, CompareDigest, PullReturns

(* Only the actions of a push that upload, and those of other tools, change the registry. *)
LEMMA RegistryStep ==
  ASSUME ClientInv, [ClientNext]_clientVars
  PROVE  RegistryTypeOK' /\ RegistryClosed' /\ RegistryGrows
<1>1. RegistryTypeOK /\ RegistryClosed
  BY DEF ClientInv, ClientTypeOK
<1>2. CASE UNCHANGED registryVars
  BY <1>1, <1>2 DEF registryVars, RegistryTypeOK, RegistryClosed, RegistryGrows
<1>3. CASE \E p \in Pushers : Pusher(p)
  <2>1. PICK p \in Pushers : Pusher(p)
    BY <1>3
  <2>2. PushInOrder(p) /\ PushTypeOK
    BY DEF ClientInv, ClientTypeOK
  <2>3. ppc[p] # "idle" => /\ push[p].tag \in Tags /\ push[p].layer \in Built
                           /\ push[p].layer \in Layers
                           /\ Pushed(p) \in Manifests
                           /\ BlobsOf(Pushed(p)) = {<<"layer", push[p].layer>>, <<"config", push[p].layer>>}
    BY <2>2, PushedType, BuiltAssumption DEF PushInOrder
  <2>4. CASE PushLayer(p) \/ PushConfig(p)
    BY <1>1, <2>3, <2>4
       DEF PushLayer, PushConfig, RegistryTypeOK, RegistryClosed, RegistryGrows, Blob
  <2>5. CASE PushManifest(p)
    <3>1. /\ Pushed(p) \in Manifests /\ Pushed(p) \in Objects /\ Named(Pushed(p)) = {Pushed(p)}
          /\ BlobsOf(Pushed(p)) \subseteq blobs
      BY <2>2, <2>3, <2>5, NamedType DEF PushManifest, PushInOrder, Objects
    <3>2. /\ objects' = objects \cup {Pushed(p)}
          /\ UNCHANGED <<blobs, tag, referrers, changes>>
      BY <2>5 DEF PushManifest
    <3>3. RegistryTypeOK' /\ RegistryGrows
      BY <1>1, <3>1, <3>2 DEF RegistryTypeOK, RegistryGrows
    <3>4. \A o \in objects' : Named(o) \subseteq objects'
      BY <1>1, <3>1, <3>2 DEF RegistryClosed
    <3>5. \A m \in objects' \cap Manifests : BlobsOf(m) \subseteq blobs'
      BY <1>1, <3>1, <3>2 DEF RegistryClosed
    <3>6. RegistryClosed'
      BY <1>1, <3>2, <3>4, <3>5 DEF RegistryClosed, Named, BlobsOf
    <3>7. QED
      BY <3>3, <3>6
  <2>6. CASE TagManifest(p)
    <3>1. push[p].tag \in Tags /\ Pushed(p) \in objects /\ objects \subseteq Objects
      BY <1>1, <2>2, <2>3, <2>6 DEF TagManifest, PushInOrder, RegistryTypeOK
    <3>2. QED
      BY <1>1, <2>6, <3>1
         DEF TagManifest, RegistryTypeOK, RegistryClosed, RegistryGrows
  <2>7. CASE PushBundle(p)
    <3>1. push[p].bytes = Pushed(p) /\ Pushed(p) \in Objects
      BY <2>2, <2>3, <2>7 DEF PushBundle, PushInOrder, Objects
    <3>2. QED
      BY <1>1, <2>7, <3>1
         DEF PushBundle, RegistryTypeOK, RegistryClosed, RegistryGrows, Blob
  <2>8. CASE AttachSignature(p)
    <3>1. /\ push[p].bytes = Pushed(p) /\ Pushed(p) \in objects
          /\ <<"bundle", push[p].bytes>> \in blobs /\ Pushed(p) \in Objects
      BY <1>1, <2>2, <2>8 DEF AttachSignature, PushInOrder, RegistryTypeOK
    <3>2. [type |-> "bundle", over |-> push[p].bytes, trusted |-> TRUE] \in Referrer
      BY <3>1 DEF Referrer
    <3>3. /\ referrers' = [referrers EXCEPT ![Pushed(p)] =
                              @ \cup {[type |-> "bundle", over |-> push[p].bytes, trusted |-> TRUE]}]
          /\ UNCHANGED <<blobs, objects, tag, changes>>
      BY <2>8 DEF AttachSignature
    <3>4. RegistryTypeOK' /\ RegistryGrows
      BY <1>1, <3>1, <3>2, <3>3 DEF RegistryTypeOK, RegistryGrows
    <3>5. ASSUME NEW o \in Objects, NEW r \in referrers'[o]
          PROVE  o \in objects' /\ <<"bundle", r.over>> \in blobs'
      <4>1. CASE r \in referrers[o]
        BY <1>1, <3>3, <4>1 DEF RegistryClosed
      <4>2. CASE r \notin referrers[o]
        <5>1. o = Pushed(p) /\ r = [type |-> "bundle", over |-> push[p].bytes, trusted |-> TRUE]
          BY <1>1, <3>1, <3>3, <4>2 DEF RegistryTypeOK
        <5>2. QED
          BY <3>1, <3>3, <5>1
      <4>3. QED
        BY <4>1, <4>2
    <3>6. RegistryClosed'
      BY <1>1, <3>3, <3>5 DEF RegistryClosed, Named, BlobsOf
    <3>7. QED
      BY <3>4, <3>6
  <2>9. CASE UNCHANGED registryVars
    BY <1>2, <2>9
  <2>10. QED
    BY <2>1, <2>4, <2>5, <2>6, <2>7, <2>8, <2>9
       DEF Pusher, StartPush, ReadManifestBack, ResolveSubject, PushFails, PushReturns
<1>4. CASE \E t \in Tags, o \in Foreign : Publish(t, o)
  <2>1. PICK t \in Tags, o \in Foreign : Publish(t, o)
    BY <1>4
  <2>2. /\ o \in Objects /\ Named(o) \subseteq Objects
        /\ \A n \in {o} \cup Named(o) : Named(n) \subseteq {o} \cup Named(o)
    BY ForeignAssumption, NamedType DEF Objects
  <2>3. \A m \in Named(o) \ Indexes : m \in Manifests /\ BlobsOf(m) \subseteq Blob
    BY <2>2, BlobsType DEF Objects
  <2>4. /\ objects' = objects \cup {o} \cup Named(o)
        /\ tag' = [tag EXCEPT ![t] = o]
        /\ changes < MaxChanges /\ changes' = changes + 1
        /\ UNCHANGED referrers
    BY <2>1 DEF Publish, Changed
  <2>5. blobs' = blobs \cup UNION {BlobsOf(m) : m \in Named(o) \ Indexes}
    BY <2>1 DEF Publish
  <2>6. blobs' \subseteq Blob /\ blobs \subseteq blobs'
    BY <1>1, <2>3, <2>5 DEF RegistryTypeOK
  <2>7. RegistryTypeOK' /\ RegistryGrows
    <3>1. changes' \in 0..MaxChanges
      BY <1>1, <2>4, LimitAssumption DEF RegistryTypeOK
    <3>2. QED
      BY <1>1, <2>2, <2>4, <2>6, <3>1 DEF RegistryTypeOK, RegistryGrows
  <2>8. \A n \in objects' : Named(n) \subseteq objects'
    BY <1>1, <2>2, <2>4 DEF RegistryClosed
  <2>9. \A m \in objects' \cap Manifests : BlobsOf(m) \subseteq blobs'
    <3>1. ASSUME NEW m \in objects' \cap Manifests, m \notin objects PROVE BlobsOf(m) \subseteq blobs'
      <4>1. m \notin Indexes /\ Named(m) = {m} /\ m \in {o} \cup Named(o)
        BY <2>4, <3>1, KindsAssumption, NamedType DEF Objects
      <4>2. m \in Named(o)
        BY <4>1
      <4>3. QED
        BY <2>5, <4>1, <4>2
    <3>2. ASSUME NEW m \in objects \cap Manifests PROVE BlobsOf(m) \subseteq blobs'
      BY <1>1, <2>6 DEF RegistryClosed
    <3>3. QED
      BY <3>1, <3>2
  <2>10. \A u \in Tags : tag'[u] # NoObject => tag'[u] \in objects'
    BY <1>1, <2>4 DEF RegistryClosed, RegistryTypeOK
  <2>11. \A n \in Objects : \A r \in referrers'[n] : n \in objects' /\ <<"bundle", r.over>> \in blobs'
    BY <1>1, <2>4, <2>6 DEF RegistryClosed
  <2>12. RegistryClosed'
    BY <2>8, <2>9, <2>10, <2>11 DEF RegistryClosed, Named, BlobsOf
  <2>13. QED
    BY <2>7, <2>12
<1>5. CASE \E o \in Foreign : \E r \in Attachments(o) : Attach(o, r)
  <2> PICK o \in Foreign : \E r \in Attachments(o) : Attach(o, r)
    BY <1>5
  <2>1. PICK r \in Attachments(o) : Attach(o, r)
    OBVIOUS
  <2>2. o \in Objects /\ o \in objects /\ r \in Referrer /\ r.over = o /\ <<"bundle", r.over>> \in Blob
    BY <2>1, ForeignAssumption, AttachmentsType DEF Attach, Blob
  <2>3. changes' \in 0..MaxChanges
    BY <1>1, <2>1, LimitAssumption DEF Attach, Changed, RegistryTypeOK
  <2>4. RegistryTypeOK' /\ RegistryGrows
    BY <1>1, <2>1, <2>2, <2>3 DEF Attach, RegistryTypeOK, RegistryGrows
  <2>5. RegistryClosed'
    BY <1>1, <2>1, <2>2 DEF Attach, RegistryTypeOK, RegistryClosed, Named, BlobsOf
  <2>6. QED
    BY <2>4, <2>5
<1>6. CASE \E a \in Pullers : Puller(a)
  BY <1>2, <1>6, PullerQuiet
<1>7. CASE UNCHANGED clientVars
  BY <1>2, <1>7 DEF clientVars
<1>8. QED
  BY <1>3, <1>4, <1>5, <1>6, <1>7 DEF ClientNext

-------------------------------------------------------------------------------
(* Pushes. *)

(* A push that takes no step loses nothing it relies on. *)
LEMMA PushRests ==
  ASSUME ClientInv, RegistryGrows, NEW q \in Pushers, ppc'[q] = ppc[q], push'[q] = push[q]
  PROVE  PushInOrder(q)' /\ (q \in Signs /\ ppc'[q] = "pushed" => Signed(Pushed(q))')
<1>1. PushInOrder(q)
  BY DEF ClientInv
<1>2. Pushed(q)' = Pushed(q)
  BY DEF Pushed, ManifestOf
<1>3. PushInOrder(q)'
  BY <1>1, <1>2 DEF PushInOrder, RegistryGrows
<1>4. ASSUME q \in Signs, ppc'[q] = "pushed" PROVE Signed(Pushed(q))'
  <2>1. PICK r \in referrers[Pushed(q)] : Vouches(r, Pushed(q))
    BY <1>4 DEF ClientInv, PushedIsSigned
  <2>2. push[q].layer \in Built
    BY <1>1, <1>4 DEF PushInOrder
  <2>3. Pushed(q) \in Objects
    BY <2>2, PushedType DEF Objects
  <2>4. QED
    BY <1>2, <2>1, <2>3 DEF Signed, RegistryGrows, Vouches
<1>5. QED
  BY <1>3, <1>4

(* A push that takes a step stays in order, and is signed when it says so. *)
LEMMA PushAdvances ==
  ASSUME ClientInv, NEW p \in Pushers, Pusher(p)
  PROVE  /\ PushTypeOK'
         /\ PushInOrder(p)'
         /\ p \in Signs /\ ppc'[p] = "pushed" => Signed(Pushed(p))'
         /\ \A q \in Pushers \ {p} : ppc'[q] = ppc[q] /\ push'[q] = push[q]
<1>1. PushTypeOK /\ PushInOrder(p) /\ RegistryTypeOK
  BY DEF ClientInv, ClientTypeOK
<1>2. ppc[p] # "idle" => push[p].layer \in Built /\ Pushed(p) \in Manifests /\ Pushed(p) \in Objects
  BY <1>1, PushedType DEF PushInOrder, Objects
<1>3. push' = push => Pushed(p)' = Pushed(p)
  BY DEF Pushed, ManifestOf
<1>4. CASE \E t \in Tags, l \in Built : StartPush(p, t, l)
  BY <1>1, <1>4, BuiltAssumption DEF StartPush, PGoto, PushTypeOK, PushLabels, PushInOrder
<1>5. CASE PushLayer(p) \/ PushConfig(p)
  BY <1>1, <1>3, <1>5 DEF PushLayer, PushConfig, PGoto, PushTypeOK, PushLabels, PushInOrder
<1>6. CASE PushManifest(p)
  BY <1>1, <1>3, <1>6 DEF PushManifest, PGoto, PushTypeOK, PushLabels, PushInOrder
<1>7. CASE TagManifest(p)
  BY <1>1, <1>3, <1>7 DEF TagManifest, PGoto, PushTypeOK, PushLabels, PushInOrder
<1>8. CASE ReadManifestBack(p)
  <2>1. Deref(Pushed(p)) = Pushed(p)
    BY <1>1, <1>2, <1>8, DerefType DEF ReadManifestBack, Locators
  <2>2. push' = [push EXCEPT ![p].bytes = Pushed(p)] /\ ppc[p] = "readback"
    BY <1>8, <2>1 DEF ReadManifestBack
  <2>3. /\ push'[p] = [push[p] EXCEPT !.bytes = Pushed(p)]
        /\ push'[p].layer = push[p].layer /\ push'[p].tag = push[p].tag /\ push'[p].bytes = Pushed(p)
    BY <1>1, <2>2 DEF PushTypeOK
  <2>4. Pushed(p)' = Pushed(p)
    BY <2>3 DEF Pushed, ManifestOf
  <2>5. PushTypeOK'
    BY <1>1, <1>2, <1>8, <2>2 DEF ReadManifestBack, PGoto, PushTypeOK, PushLabels
  <2>6. QED
    BY <1>1, <1>8, <2>2, <2>3, <2>4, <2>5 DEF ReadManifestBack, PGoto, PushTypeOK, PushInOrder, registryVars
<1>9. CASE PushBundle(p)
  BY <1>1, <1>3, <1>9 DEF PushBundle, PGoto, PushTypeOK, PushLabels, PushInOrder
<1>10. CASE ResolveSubject(p)
  BY <1>1, <1>3, <1>10 DEF ResolveSubject, PGoto, PushTypeOK, PushLabels, PushInOrder, registryVars
<1>11. CASE AttachSignature(p)
  <2>1. /\ ppc[p] = "attach" /\ push[p].bytes = Pushed(p)
        /\ push' = push /\ ppc' = [ppc EXCEPT ![p] = "pushed"]
        /\ UNCHANGED <<blobs, objects>>
        /\ referrers' = [referrers EXCEPT ![Pushed(p)] =
                           @ \cup {[type |-> "bundle", over |-> Pushed(p), trusted |-> TRUE]}]
    BY <1>1, <1>11 DEF AttachSignature, PGoto, PushInOrder
  <2>2. PushTypeOK' /\ PushInOrder(p)'
    BY <1>1, <1>3, <2>1 DEF PushTypeOK, PushLabels, PushInOrder
  <2>3. [type |-> "bundle", over |-> Pushed(p), trusted |-> TRUE] \in referrers'[Pushed(p)]
    BY <1>1, <1>2, <2>1 DEF RegistryTypeOK
  <2>4. Signed(Pushed(p))'
    BY <1>3, <2>1, <2>3 DEF Signed, Vouches
  <2>5. QED
    BY <1>1, <2>1, <2>2, <2>4 DEF PushTypeOK
<1>12. CASE PushFails(p)
  BY <1>1, <1>3, <1>12 DEF PushFails, PGoto, PushTypeOK, PushLabels, PushInOrder, registryVars
<1>13. CASE PushReturns(p)
  BY <1>1, <1>13 DEF PushReturns, PGoto, PushTypeOK, PushLabels, PushInOrder, NoPush
<1>14. QED
  BY <1>4, <1>5, <1>6, <1>7, <1>8, <1>9, <1>10, <1>11, <1>12, <1>13 DEF Pusher

-------------------------------------------------------------------------------
(* Pulls. *)

PullInOrder(a) == MemoSound(a) /\ HistoryKept(a) /\ VerifyInOrder(a) /\ ResolveInOrder(a)

(* Signatures are never taken away. *)
LEMMA SignaturesGrow ==
  ASSUME RegistryGrows, NEW o \in Objects
  PROVE  /\ SignaturesOf(o) = "valid" => SignaturesOf(o)' = "valid"
         /\ SignaturesOf(o) # "none" => SignaturesOf(o)' # "none"
         /\ Signed(o) => Signed(o)'
<1>1. referrers[o] \subseteq referrers'[o]
  BY DEF RegistryGrows
<1>2. QED
  BY <1>1 DEF SignaturesOf, Signed, Vouches

(* What a call has seen is an object, and so is what it checks. *)
LEMMA SeenType ==
  ASSUME ClientInv, NEW a \in Pullers
  PROVE  /\ TopSeen(a) => call[a].top \in Objects
         /\ ImageSeen(a) => call[a].plat \in Objects
         /\ vpc[a] = "signature" => Checking(a) \in {call[a].plat, call[a].top} \cap call[a].todo
<1>1. RegistryTypeOK /\ PullTypeOK /\ VerifyInOrder(a)
  BY DEF ClientInv, ClientTypeOK
<1>2. TopSeen(a) => call[a].top \in Objects
  BY <1>1 DEF TopSeen, PullTypeOK
<1>3. ImageSeen(a) => call[a].plat \in Objects
  BY <1>1, <1>2, ResolutionOfPlatform DEF ImageSeen, Objects, Locators
<1>4. vpc[a] = "signature" => Checking(a) \in {call[a].plat, call[a].top} \cap call[a].todo
  BY <1>1 DEF VerifyInOrder, Checking
<1>5. QED
  BY <1>2, <1>3, <1>4

(* A call that takes no step loses nothing, whatever the registry gets meanwhile. *)
LEMMA PullRests ==
  ASSUME ClientInv, RegistryGrows, RegistryTypeOK', NEW a \in Pullers,
         opts' = opts, vpc'[a] = vpc[a], call'[a] = call[a], memo'[a] = memo[a],
         known'[a] = known[a], asked[a] \subseteq asked'[a],
         vpc[a] # "idle" => \/ tag'[call[a].tag] \in asked'[a] \cup {NoObject}
                           \/ tag'[call[a].tag] = tag[call[a].tag]
  PROVE  PullInOrder(a)'
<1>1. /\ RegistryTypeOK /\ PullTypeOK /\ objects \subseteq objects'
      /\ MemoSound(a) /\ HistoryKept(a) /\ VerifyInOrder(a) /\ ResolveInOrder(a)
  BY DEF ClientInv, ClientTypeOK, RegistryGrows
<1>2. \A o \in Objects : ResolveLayerFull(o) # NoLayer => ResolveLayerFull(o)' = ResolveLayerFull(o)
  BY <1>1, ResolutionStable
<1>3. MemoSound(a)'
  BY <1>1, <1>2 DEF MemoSound
<1>4. HistoryKept(a)'
  BY <1>1, SignaturesGrow DEF HistoryKept
<1>5. TopSeen(a) => TopSeen(a)'
  BY DEF TopSeen
<1>6. ImageSeen(a) => ImageSeen(a)'
  <2>1. ImageSeen(a) => ResolveLayerFull(call[a].top)' = ResolveLayerFull(call[a].top)
    BY <1>2, SeenType DEF ImageSeen
  <2>2. QED
    BY <1>5, <2>1 DEF ImageSeen
<1>7. Checking(a)' = Checking(a) /\ Verifies(a)' = Verifies(a) /\ Memoizes(a)' = Memoizes(a)
  BY DEF Checking, Verifies, Memoizes
<1>8. VerifyInOrder(a)'
  <2>1. vpc[a] = "signature" => referrers[Checking(a)] \subseteq referrers'[Checking(a)]
    <3>1. vpc[a] = "signature" => ImageSeen(a) /\ TopSeen(a)
      BY <1>1 DEF VerifyInOrder, ImageSeen
    <3>2. QED
      BY <3>1, SeenType DEF RegistryGrows
  <2>2. \A o : GaveUp(a, o) => GaveUp(a, o)'
    BY DEF GaveUp
  <2>3. vpc[a] = "signature" =>
          /\ call'[a].left \subseteq referrers'[Checking(a)']
          /\ ~call'[a].failed /\ known'[a][Checking(a)'] = "valid" =>
               \E r \in call'[a].left : Vouches(r, Checking(a)')
    BY <1>1, <1>7, <2>1 DEF VerifyInOrder
  <2>4. QED
    BY <1>1, <1>5, <1>6, <1>7, <2>2, <2>3 DEF VerifyInOrder
<1>9. ResolveInOrder(a)'
  <2>1. ImageSeen(a) => /\ Signed(call[a].plat) => Signed(call[a].plat)'
                        /\ Signed(call[a].top) => Signed(call[a].top)'
                        /\ ResolveLayerFull(call[a].top)' = ResolveLayerFull(call[a].top)
    BY <1>2, SeenType, SignaturesGrow DEF ImageSeen
  <2>2. asked[a] \subseteq Objects
    BY <1>1 DEF PullTypeOK
  <2>3. call[a].got # NoLayer /\ (\E o \in asked[a] : ResolveLayerFull(o) = call[a].got)
        => \E o \in asked'[a] : ResolveLayerFull(o)' = call[a].got
    BY <1>2, <2>2
  <2>4. QED
    BY <1>1, <1>6, <1>7, <2>1, <2>3 DEF ResolveInOrder
<1>10. QED
  BY <1>3, <1>4, <1>8, <1>9 DEF PullInOrder

(* What a resolution through the memory of the client gives. *)
LEMMA ResolutionSound ==
  ASSUME ClientInv, NEW a \in Pullers, NEW r \in Locators
  PROVE  /\ Resolution(a, r) \in Resolved
         /\ r \in Objects => Resolution(a, r) = ResolveLayerFull(r) \/ Resolution(a, r) = NoLayer
         /\ ~Memoizes(a) => Resolution(a, r) = ResolveLayerFull(r)
<1>1. RegistryTypeOK /\ PullTypeOK /\ MemoSound(a)
  BY DEF ClientInv, ClientTypeOK
<1>2. memo[a][r] \in Resolved /\ (r \in Objects /\ memo[a][r] # NoLayer => memo[a][r] = ResolveLayerFull(r))
  BY <1>1 DEF PullTypeOK, MemoSound
<1>3. ResolveLayerFull(r) \in Resolved
  BY <1>1, ResolvedType
<1>4. QED
  BY <1>2, <1>3 DEF Resolution, Remembered, MemoKey

(* Who does not take the step. *)
Others(a) ==
  \A b \in Pullers \ {a} :
    /\ vpc'[b] = vpc[b] /\ call'[b] = call[b] /\ memo'[b] = memo[b]
    /\ known'[b] = known[b] /\ asked'[b] = asked[b]

(* An action changes one call. *)
LEMMA CallType ==
  ASSUME PullTypeOK, NEW a \in Pullers, NEW c \in Call, NEW l \in PullLabels,
         vpc' = [vpc EXCEPT ![a] = l], call' = [call EXCEPT ![a] = c],
         memo' \in [Pullers -> [Locators -> Resolved]],
         \A b \in Pullers \ {a} : memo'[b] = memo[b],
         UNCHANGED <<opts, asked, known>>
  PROVE  /\ PullTypeOK' /\ Others(a) /\ vpc'[a] = l /\ call'[a] = c
         /\ known'[a] = known[a] /\ asked'[a] = asked[a]
BY DEF PullTypeOK, Others

(* An action that leaves the memory and the histories alone changes one call. *)
LEMMA QuietType ==
  ASSUME PullTypeOK, NEW a \in Pullers, NEW c \in Call, NEW l \in PullLabels,
         vpc' = [vpc EXCEPT ![a] = l], call' = [call EXCEPT ![a] = c],
         UNCHANGED <<opts, memo, asked, known>>
  PROVE  /\ PullTypeOK' /\ Others(a) /\ vpc'[a] = l /\ call'[a] = c
         /\ memo'[a] = memo[a] /\ known'[a] = known[a] /\ asked'[a] = asked[a]
BY DEF PullTypeOK, Others

(* A registry that does not change says the same. *)
LEMMA RegistrySame ==
  ASSUME UNCHANGED <<registryVars, opts>>
  PROVE  /\ \A r : ResolveLayerFull(r)' = ResolveLayerFull(r)
         /\ \A o : Signed(o)' = Signed(o) /\ SignaturesOf(o)' = SignaturesOf(o)
         /\ \A a : Verifies(a)' = Verifies(a) /\ Memoizes(a)' = Memoizes(a)
BY DEF registryVars, ResolveLayerFull, Deref, Signed, SignaturesOf, Vouches, Verifies, Memoizes

(* The memory and the histories of a call that leaves them alone stay right. *)
LEMMA QuietKept ==
  ASSUME ClientInv, UNCHANGED <<registryVars, opts>>, NEW a \in Pullers,
         memo'[a] = memo[a], known'[a] = known[a], asked'[a] = asked[a],
         vpc'[a] # "idle" => vpc[a] # "idle" /\ call'[a].tag = call[a].tag
  PROVE  MemoSound(a)' /\ HistoryKept(a)'
<1>1. MemoSound(a) /\ HistoryKept(a)
  BY DEF ClientInv
<1>2. QED
  BY <1>1, RegistrySame DEF MemoSound, HistoryKept, registryVars

(* A call that ends with an error. *)
LEMMA ErrorKeeps ==
  ASSUME ClientInv, NEW a \in Pullers, vpc[a] # "idle",
         UNCHANGED <<registryVars, opts, memo, asked, known, call>>,
         vpc' = [vpc EXCEPT ![a] = "error"]
  PROVE  PullTypeOK' /\ Others(a) /\ PullInOrder(a)'
<1>1. PullTypeOK
  BY DEF ClientInv, ClientTypeOK
<1>2. PullTypeOK' /\ Others(a) /\ vpc'[a] = "error"
  BY <1>1 DEF PullTypeOK, Others, PullLabels
<1>3. MemoSound(a)' /\ HistoryKept(a)'
  BY QuietKept
<1>4. VerifyInOrder(a)' /\ ResolveInOrder(a)'
  BY <1>2 DEF VerifyInOrder, ResolveInOrder
<1>5. QED
  BY <1>2, <1>3, <1>4 DEF PullInOrder

(* The first request: what the tag points to is the image of the call. *)
LEMMA FetchTopKeeps ==
  ASSUME ClientInv, NEW a \in Pullers, FetchTop(a)
  PROVE  PullTypeOK' /\ Others(a) /\ PullInOrder(a)'
<1>1. /\ RegistryTypeOK /\ RegistryClosed /\ PullTypeOK
      /\ HistoryKept(a) /\ VerifyInOrder(a) /\ ResolveInOrder(a)
  BY DEF ClientInv, ClientTypeOK
<1>2. UNCHANGED <<registryVars, opts, memo, asked, known>> /\ vpc[a] = "top"
  BY DEF FetchTop, Quiet
<1>3. call[a] \in Call /\ call[a].tag \in Tags /\ call[a].ref = call[a].tag /\ ~call[a].failed /\ ~call[a].bad
  BY <1>1, <1>2 DEF PullTypeOK, HistoryKept, VerifyInOrder
<1>4. CASE Deref(call[a].ref) # NoObject
  <2>1. call' = [call EXCEPT ![a] = [call[a] EXCEPT !.top = tag[call[a].tag]]]
    BY <1>1, <1>3, <1>4 DEF FetchTop, PullTypeOK, Deref
  <2>2. vpc' = [vpc EXCEPT ![a] = "pin"]
    BY <1>4 DEF FetchTop, VGoto
  <2>3. tag[call[a].tag] \in asked[a] /\ tag[call[a].tag] \in Objects
    BY <1>1, <1>2, <1>3, <1>4 DEF HistoryKept, Deref, PullTypeOK
  <2>4. [call[a] EXCEPT !.top = tag[call[a].tag]] \in Call
    BY <1>3, <2>3 DEF Call
  <2>5. /\ PullTypeOK' /\ Others(a) /\ vpc'[a] = "pin"
        /\ call'[a] = [call[a] EXCEPT !.top = tag[call[a].tag]]
        /\ memo'[a] = memo[a] /\ known'[a] = known[a] /\ asked'[a] = asked[a]
    BY <1>1, <1>2, <2>1, <2>2, <2>4, QuietType, Zenon DEF PullLabels
  <2>6. /\ call'[a].top = tag[call[a].tag] /\ call'[a].tag = call[a].tag
        /\ call'[a].failed = call[a].failed /\ call'[a].bad = call[a].bad
    BY <1>3, <2>5 DEF Call
  <2>7. MemoSound(a)' /\ HistoryKept(a)'
    BY <1>2, <2>5, <2>6, QuietKept
  <2>8. VerifyInOrder(a)'
    BY <1>1, <1>2, <1>3, <2>3, <2>5, <2>6 DEF VerifyInOrder, TopSeen, Verifies
  <2>9. ResolveInOrder(a)'
    BY <2>5 DEF ResolveInOrder
  <2>10. QED
    BY <2>5, <2>7, <2>8, <2>9 DEF PullInOrder
<1>5. CASE Deref(call[a].ref) = NoObject
  BY <1>2, <1>5, ErrorKeeps DEF FetchTop, VGoto
<1>6. QED
  BY <1>4, <1>5

LEMMA StartPullKeeps ==
  ASSUME ClientInv, NEW a \in Pullers, NEW t \in Tags, StartPull(a, t)
  PROVE  PullTypeOK' /\ Others(a) /\ PullInOrder(a)'
<1> DEFINE c == [NoCall EXCEPT !.tag = t, !.ref = t]
           l == IF Verifies(a) THEN "top" ELSE "resolve"
<1>1. RegistryTypeOK /\ PullTypeOK /\ MemoSound(a)
  BY DEF ClientInv, ClientTypeOK
<1>2. /\ call' = [call EXCEPT ![a] = c] /\ vpc' = [vpc EXCEPT ![a] = l]
      /\ asked' = [asked EXCEPT ![a] = {tag[t]} \ {NoObject}]
      /\ known' = [known EXCEPT ![a] = [o \in Objects |-> SignaturesOf(o)]]
      /\ UNCHANGED <<registryVars, opts, memo>>
  BY DEF StartPull, VGoto
<1>3. c \in Call /\ c.tag = t /\ c.ref = t /\ ~c.failed /\ ~c.bad
  BY DEF NoCall, Call, Locators, Resolved
<1>4. \A o : SignaturesOf(o) \in {"none", "some", "valid"}
  BY DEF SignaturesOf
<1>5. /\ PullTypeOK' /\ Others(a) /\ vpc'[a] = l /\ call'[a] = c /\ memo'[a] = memo[a]
      /\ asked'[a] = {tag[t]} \ {NoObject}
      /\ known'[a] = [o \in Objects |-> SignaturesOf(o)]
  <2>1. {tag[t]} \ {NoObject} \in SUBSET Objects
    BY <1>1 DEF RegistryTypeOK
  <2>2. [o \in Objects |-> SignaturesOf(o)] \in [Objects -> {"none", "some", "valid"}]
    BY <1>4
  <2>3. l \in PullLabels
    BY DEF PullLabels
  <2> HIDE DEF c, l
  <2>4. QED
    BY <1>1, <1>2, <1>3, <2>1, <2>2, <2>3 DEF PullTypeOK, Others
<1>6. /\ call'[a].tag = t /\ call'[a].ref = t /\ ~call'[a].failed /\ ~call'[a].bad
      /\ (vpc'[a] = "top" /\ Verifies(a)') \/ (vpc'[a] = "resolve" /\ ~Verifies(a)')
  <2>1. Verifies(a)' <=> Verifies(a)
    BY <1>2 DEF Verifies
  <2>2. Verifies(a) => vpc'[a] = "top"
    BY <1>5
  <2>3. ~Verifies(a) => vpc'[a] = "resolve"
    BY <1>5
  <2>4. QED
    BY <1>3, <1>5, <2>1, <2>2, <2>3
<1> HIDE DEF c, l
<1>7. MemoSound(a)'
  BY <1>1, <1>2, <1>5, RegistrySame DEF MemoSound
<1>8. HistoryKept(a)'
  <2>1. tag'[t] = tag[t] /\ \A o \in Objects : known'[a][o] = SignaturesOf(o)'
    BY <1>2, <1>5, RegistrySame DEF registryVars
  <2>2. QED
    BY <1>5, <1>6, <2>1 DEF HistoryKept
<1>9. VerifyInOrder(a)' /\ ResolveInOrder(a)'
  BY <1>6 DEF VerifyInOrder, ResolveInOrder
<1>10. QED
  BY <1>5, <1>7, <1>8, <1>9 DEF PullInOrder

(* The manifest for this platform is that of the index the call has seen. *)
LEMMA PinPlatformKeeps ==
  ASSUME ClientInv, NEW a \in Pullers, PinPlatform(a)
  PROVE  PullTypeOK' /\ Others(a) /\ PullInOrder(a)'
<1> DEFINE top == call[a].top
           found == Resolution(a, top)
           c == [call[a] EXCEPT !.plat = found.manifest, !.todo = {found.manifest, top}]
           l == IF found.manifest = top THEN "referrers" ELSE "platform"
<1>1. /\ RegistryTypeOK /\ PullTypeOK /\ vpc[a] = "pin"
      /\ MemoSound(a) /\ VerifyInOrder(a) /\ ResolveInOrder(a)
  BY DEF ClientInv, ClientTypeOK, PinPlatform
<1>2. call[a] \in Call /\ TopSeen(a) /\ Verifies(a) /\ top \in Objects /\ top \in Locators
  BY <1>1, SeenType DEF PullTypeOK, VerifyInOrder, Locators
<1>3. CASE Unusable(a, top)
  BY <1>1, <1>3, ErrorKeeps DEF Unusable, VGoto, Quiet
<1>4. CASE found # NoLayer /\ ~Unusable(a, top)
  <2>1. /\ call' = [call EXCEPT ![a].plat = found.manifest, ![a].todo = {found.manifest, top}]
        /\ Remember(a, top, found)
        /\ vpc' = [vpc EXCEPT ![a] = l]
        /\ UNCHANGED <<registryVars, opts, asked, known>>
    BY <1>4 DEF PinPlatform, VGoto
  <2>2. found = ResolveLayerFull(top) /\ found \in Resolved
    BY <1>2, <1>4, ResolutionSound
  <2>3. found.manifest \in Manifests /\ found.manifest \in Objects
    BY <1>1, <1>2, <1>4, <2>2, ResolutionOfPlatform DEF Objects
  <2>4. c \in Call /\ call' = [call EXCEPT ![a] = c]
    BY <1>1, <1>2, <2>1, <2>3 DEF Call, PullTypeOK
  <2>5. /\ c.plat = found.manifest /\ c.top = top /\ c.todo = {found.manifest, top}
        /\ c.tag = call[a].tag
    BY <1>2 DEF Call
  <2>6. /\ memo' \in [Pullers -> [Locators -> Resolved]]
        /\ \A b \in Pullers \ {a} : memo'[b] = memo[b]
        /\ \A o \in Objects : memo'[a][o] = memo[a][o] \/ (o = top /\ memo'[a][o] = found)
    BY <1>1, <1>2, <2>1, <2>2 DEF PullTypeOK, Remember, MemoKey, Locators
  <2>7. l \in PullLabels /\ l \in {"referrers", "platform"}
    BY DEF PullLabels
  <2> HIDE DEF c, l
  <2>8. PullTypeOK' /\ Others(a) /\ vpc'[a] = l /\ call'[a] = c /\ known'[a] = known[a] /\ asked'[a] = asked[a]
    <3>1. /\ call' = [call EXCEPT ![a] = c] /\ vpc' = [vpc EXCEPT ![a] = l]
          /\ UNCHANGED <<opts, asked, known>>
      BY <2>1, <2>4
    <3>2. /\ c \in Call /\ l \in PullLabels /\ PullTypeOK
          /\ memo' \in [Pullers -> [Locators -> Resolved]]
          /\ \A b \in Pullers \ {a} : memo'[b] = memo[b]
      BY <1>1, <2>4, <2>6, <2>7
    <3>3. QED
      BY <3>1, <3>2 DEF PullTypeOK, Others
  <2>9. MemoSound(a)'
    BY <1>1, <2>1, <2>2, <2>6, RegistrySame DEF MemoSound
  <2>10. HistoryKept(a)'
    <3>1. HistoryKept(a)
      BY DEF ClientInv
    <3>2. QED
      BY <1>1, <2>1, <2>5, <2>8, <3>1, RegistrySame DEF HistoryKept, registryVars
  <2>11. ImageSeen(a)'
    BY <1>2, <1>4, <2>1, <2>2, <2>5, <2>8, RegistrySame DEF ImageSeen, TopSeen
  <2>12. VerifyInOrder(a)'
    BY <1>2, <2>1, <2>5, <2>7, <2>8, <2>11, RegistrySame DEF VerifyInOrder
  <2>13. ResolveInOrder(a)'
    BY <2>7, <2>8 DEF ResolveInOrder
  <2>14. QED
    BY <2>8, <2>9, <2>10, <2>12, <2>13 DEF PullInOrder
<1>5. QED
  BY <1>3, <1>4 DEF PinPlatform

LEMMA FetchPlatformKeeps ==
  ASSUME ClientInv, NEW a \in Pullers, FetchPlatform(a)
  PROVE  PullTypeOK' /\ Others(a) /\ PullInOrder(a)'
<1>1. /\ PullTypeOK /\ VerifyInOrder(a) /\ vpc[a] = "platform"
      /\ vpc' = [vpc EXCEPT ![a] = "referrers"]
      /\ UNCHANGED <<registryVars, opts, memo, asked, known, call>>
  BY DEF ClientInv, ClientTypeOK, FetchPlatform, VGoto, Quiet
<1>2. PullTypeOK' /\ Others(a) /\ vpc'[a] = "referrers"
  BY <1>1 DEF PullTypeOK, Others, PullLabels
<1>3. MemoSound(a)' /\ HistoryKept(a)'
  BY <1>1, QuietKept
<1>4. ImageSeen(a) => ImageSeen(a)'
  BY <1>1, RegistrySame DEF ImageSeen, TopSeen
<1>5. Verifies(a)' = Verifies(a) /\ \A o : GaveUp(a, o)' = GaveUp(a, o)
  BY <1>1 DEF Verifies, GaveUp
<1>6. VerifyInOrder(a)' /\ ResolveInOrder(a)'
  BY <1>1, <1>2, <1>4, <1>5 DEF VerifyInOrder, ResolveInOrder
<1>7. QED
  BY <1>2, <1>3, <1>6 DEF PullInOrder

(* A manifest is given up on only when none of its signatures is valid, as far as the *)
(* registry answered. *)
LEMMA GiveUpKeeps ==
  ASSUME ClientInv, NEW a \in Pullers, vpc[a] \in {"referrers", "signature"},
         NEW bad \in BOOLEAN, NEW failed \in BOOLEAN, GiveUpOn(a, bad, failed),
         UNCHANGED <<registryVars, opts, memo, asked, known>>,
         call[a].bad => bad, call[a].failed => failed,
         ~failed => known[a][Checking(a)] # "valid",
         ~bad => known[a][Checking(a)] = "none"
  PROVE  PullTypeOK' /\ Others(a) /\ PullInOrder(a)'
<1> DEFINE rest == call[a].todo \ {Checking(a)}
           c == [call[a] EXCEPT !.todo = rest, !.left = {}, !.bad = bad, !.failed = failed]
           l == IF rest = {} THEN Verdict(bad) ELSE "referrers"
<1>1. PullTypeOK /\ VerifyInOrder(a) /\ call[a] \in Call
  BY DEF ClientInv, ClientTypeOK, PullTypeOK
<1>2. /\ Verifies(a) /\ ImageSeen(a) /\ call[a].todo \subseteq {call[a].plat, call[a].top}
      /\ \A o \in {call[a].plat, call[a].top} \ call[a].todo : GaveUp(a, o)
  BY <1>1 DEF VerifyInOrder
<1>3. c \in Call /\ call' = [call EXCEPT ![a] = c] /\ vpc' = [vpc EXCEPT ![a] = l]
  BY <1>1 DEF GiveUpOn, PullTypeOK, Call, VGoto
<1>4. /\ c.plat = call[a].plat /\ c.top = call[a].top /\ c.todo = rest
      /\ c.bad = bad /\ c.failed = failed /\ c.tag = call[a].tag
  BY <1>1 DEF Call
<1>5. /\ l \in PullLabels
      /\ \/ l = "referrers" /\ rest # {}
         \/ l = "invalid" /\ rest = {} /\ bad
         \/ l = "nosignature" /\ rest = {} /\ ~bad
  BY DEF PullLabels, Verdict
<1> HIDE DEF c, l, rest
<1>6. /\ PullTypeOK' /\ Others(a) /\ vpc'[a] = l /\ call'[a] = c
      /\ memo'[a] = memo[a] /\ known'[a] = known[a] /\ asked'[a] = asked[a]
  BY <1>1, <1>3, <1>5 DEF PullTypeOK, Others
<1>7. MemoSound(a)' /\ HistoryKept(a)'
  <2>1. call'[a].tag = call[a].tag /\ vpc[a] # "idle"
    BY <1>4, <1>6
  <2>2. QED
    BY <1>6, <2>1, QuietKept
<1>8. ImageSeen(a)'
  BY <1>2, <1>4, <1>6, RegistrySame DEF ImageSeen, TopSeen
<1>9. \A o \in {call[a].plat, call[a].top} \ rest : GaveUp(a, o)'
  <2>1. ASSUME NEW o \in {call[a].plat, call[a].top} \ call[a].todo PROVE GaveUp(a, o)'
    BY <1>2, <1>4, <1>6 DEF GaveUp
  <2>2. ASSUME NEW o, o = Checking(a) PROVE GaveUp(a, o)'
    BY <1>4, <1>6, <2>2 DEF GaveUp
  <2>3. QED
    BY <2>1, <2>2 DEF rest
<1>10. VerifyInOrder(a)'
  <2>1. Verifies(a)'
    BY <1>2 DEF Verifies
  <2>2. rest \subseteq {call[a].plat, call[a].top}
    BY <1>2 DEF rest
  <2>3. QED
    BY <1>4, <1>5, <1>6, <1>8, <1>9, <2>1, <2>2 DEF VerifyInOrder
<1>11. ResolveInOrder(a)'
  BY <1>5, <1>6 DEF ResolveInOrder
<1>12. QED
  BY <1>6, <1>7, <1>10, <1>11 DEF PullInOrder

(* The referrers of a manifest are what there is to try, or nothing is. *)
LEMMA FetchReferrersKeeps ==
  ASSUME ClientInv, NEW a \in Pullers, FetchReferrers(a)
  PROVE  PullTypeOK' /\ Others(a) /\ PullInOrder(a)'
<1> DEFINE o == Checking(a)
           found == SignatureReferrers(o)
           c == [call[a] EXCEPT !.left = found]
<1>1. /\ RegistryTypeOK /\ PullTypeOK /\ HistoryKept(a) /\ VerifyInOrder(a) /\ vpc[a] = "referrers"
      /\ UNCHANGED <<registryVars, opts, memo, asked, known>>
  BY DEF ClientInv, ClientTypeOK, FetchReferrers, Quiet
<1>2. /\ call[a] \in Call /\ Verifies(a) /\ ImageSeen(a) /\ TopSeen(a) /\ call[a].todo # {}
      /\ call[a].todo \subseteq {call[a].plat, call[a].top}
      /\ \A n \in {call[a].plat, call[a].top} \ call[a].todo : GaveUp(a, n)
  BY <1>1 DEF PullTypeOK, VerifyInOrder, ImageSeen
<1>3. o \in call[a].todo /\ o \in Objects
  BY <1>2, SeenType DEF Checking
<1>4. /\ known[a][o] = "valid" => SignaturesOf(o) = "valid"
      /\ known[a][o] # "none" => SignaturesOf(o) # "none"
      /\ known[a][o] \in {"none", "some", "valid"}
  BY <1>1, <1>3 DEF HistoryKept, PullTypeOK
<1>5. found \subseteq referrers[o] /\ found \in SUBSET Referrer
  BY <1>1, <1>3 DEF SignatureReferrers, RegistryTypeOK
<1>6. CASE found # {} /\ call' = [call EXCEPT ![a].left = found] /\ vpc' = [vpc EXCEPT ![a] = "signature"]
  <2>1. c \in Call /\ call' = [call EXCEPT ![a] = c]
    BY <1>1, <1>2, <1>5, <1>6 DEF Call, PullTypeOK
  <2>2. /\ c.plat = call[a].plat /\ c.top = call[a].top /\ c.todo = call[a].todo /\ c.left = found
        /\ c.bad = call[a].bad /\ c.failed = call[a].failed /\ c.tag = call[a].tag
    BY <1>2 DEF Call
  <2>3. known[a][o] = "valid" => \E r \in found : Vouches(r, o)
    BY <1>4 DEF SignaturesOf, SignatureReferrers, Vouches
  <2> HIDE DEF c, found
  <2>4. /\ PullTypeOK' /\ Others(a) /\ vpc'[a] = "signature" /\ call'[a] = c
        /\ memo'[a] = memo[a] /\ known'[a] = known[a] /\ asked'[a] = asked[a]
    BY <1>1, <1>6, <2>1 DEF PullTypeOK, Others, PullLabels
  <2>5. MemoSound(a)' /\ HistoryKept(a)'
    <3>1. vpc[a] # "idle" /\ call'[a].tag = call[a].tag
      BY <1>1, <2>2, <2>4
    <3>2. QED
      BY <1>1, <2>4, <3>1, QuietKept
  <2>6. ImageSeen(a)' /\ Verifies(a)' /\ Checking(a)' = o /\ referrers' = referrers
    BY <1>1, <1>2, <2>2, <2>4, RegistrySame DEF ImageSeen, TopSeen, Checking, Verifies, registryVars
  <2>7. \A n : GaveUp(a, n) => GaveUp(a, n)'
    BY <2>2, <2>4 DEF GaveUp
  <2> HIDE DEF o
  <2>8. VerifyInOrder(a)'
    BY <1>2, <1>5, <2>2, <2>3, <2>4, <2>6, <2>7 DEF VerifyInOrder
  <2>9. ResolveInOrder(a)'
    BY <2>4 DEF ResolveInOrder
  <2>10. QED
    BY <2>4, <2>5, <2>8, <2>9 DEF PullInOrder
<1>7. CASE found = {} /\ GiveUpOn(a, call[a].bad, call[a].failed)
  <2>1. known[a][o] = "none"
    BY <1>4, <1>7 DEF SignaturesOf, SignatureReferrers, Vouches
  <2>2. call[a].bad \in BOOLEAN /\ call[a].failed \in BOOLEAN
    BY <1>2 DEF Call
  <2>3. QED
    BY <1>1, <1>7, <2>1, <2>2, GiveUpKeeps
<1>8. CASE GiveUpOn(a, TRUE, TRUE)
  BY <1>1, <1>8, GiveUpKeeps
<1>9. QED
  BY <1>6, <1>7, <1>8 DEF FetchReferrers, VGoto

(* The next signature is tried only after one that is not valid or cannot be fetched. *)
LEMMA NextReferrerKeeps ==
  ASSUME ClientInv, NEW a \in Pullers, vpc[a] = "signature", NEW r \in call[a].left,
         NEW failed \in BOOLEAN, NextReferrer(a, r, failed),
         UNCHANGED <<registryVars, opts, memo, asked, known>>,
         call[a].failed => failed, failed \/ ~Vouches(r, Checking(a))
  PROVE  PullTypeOK' /\ Others(a) /\ PullInOrder(a)'
<1> DEFINE o == Checking(a)
           c == [call[a] EXCEPT !.left = @ \ {r}, !.failed = failed]
<1>1. PullTypeOK /\ VerifyInOrder(a) /\ call[a] \in Call
  BY DEF ClientInv, ClientTypeOK, PullTypeOK
<1>2. /\ Verifies(a) /\ ImageSeen(a) /\ call[a].todo # {}
      /\ call[a].todo \subseteq {call[a].plat, call[a].top}
      /\ \A n \in {call[a].plat, call[a].top} \ call[a].todo : GaveUp(a, n)
      /\ call[a].left \subseteq referrers[o]
      /\ ~call[a].failed /\ known[a][o] = "valid" => \E s \in call[a].left : Vouches(s, o)
  BY <1>1 DEF VerifyInOrder
<1>3. CASE call[a].left = {r} /\ GiveUpOn(a, TRUE, failed)
  <2>1. ~failed => known[a][o] # "valid"
    BY <1>2, <1>3
  <2>2. QED
    BY <1>3, <2>1, GiveUpKeeps
<1>4. CASE vpc' = vpc /\ call' = [call EXCEPT ![a].left = @ \ {r}, ![a].failed = failed]
  <2>1. c \in Call /\ call' = [call EXCEPT ![a] = c]
    BY <1>1, <1>4 DEF Call, PullTypeOK
  <2>2. /\ c.plat = call[a].plat /\ c.top = call[a].top /\ c.todo = call[a].todo
        /\ c.left = call[a].left \ {r}
        /\ c.bad = call[a].bad /\ c.failed = failed /\ c.tag = call[a].tag
    BY <1>1 DEF Call
  <2>3. ~failed /\ known[a][o] = "valid" => \E s \in c.left : Vouches(s, o)
    BY <1>2, <2>2
  <2> HIDE DEF c
  <2>4. /\ PullTypeOK' /\ Others(a) /\ vpc'[a] = "signature" /\ call'[a] = c
        /\ memo'[a] = memo[a] /\ known'[a] = known[a] /\ asked'[a] = asked[a]
    BY <1>1, <1>4, <2>1 DEF PullTypeOK, Others
  <2>5. MemoSound(a)' /\ HistoryKept(a)'
    <3>1. vpc[a] # "idle" /\ call'[a].tag = call[a].tag
      BY <2>2, <2>4
    <3>2. QED
      BY <2>4, <3>1, QuietKept
  <2>6. ImageSeen(a)' /\ Verifies(a)' /\ Checking(a)' = o /\ referrers' = referrers
    BY <1>2, <2>2, <2>4, RegistrySame DEF ImageSeen, TopSeen, Checking, Verifies, registryVars
  <2>7. \A n : GaveUp(a, n) => GaveUp(a, n)'
    BY <2>2, <2>4 DEF GaveUp
  <2> HIDE DEF o
  <2>8. VerifyInOrder(a)'
    BY <1>2, <2>2, <2>3, <2>4, <2>6, <2>7 DEF VerifyInOrder
  <2>9. ResolveInOrder(a)'
    BY <2>4 DEF ResolveInOrder
  <2>10. QED
    BY <2>4, <2>5, <2>8, <2>9 DEF PullInOrder
<1>5. QED
  BY <1>3, <1>4 DEF NextReferrer

(* A valid signature pins the call to the manifest of this platform. *)
LEMMA TrySignatureKeeps ==
  ASSUME ClientInv, NEW a \in Pullers, TrySignature(a)
  PROVE  PullTypeOK' /\ Others(a) /\ PullInOrder(a)'
<1>1. /\ PullTypeOK /\ VerifyInOrder(a) /\ vpc[a] = "signature"
      /\ UNCHANGED <<registryVars, opts, memo, asked, known>>
  BY DEF ClientInv, ClientTypeOK, TrySignature, Quiet
<1>2. PICK r \in call[a].left :
        \/ /\ Vouches(r, Checking(a))
           /\ call' = [call EXCEPT ![a].ref = call[a].plat]
           /\ VGoto(a, "resolve")
        \/ ~Vouches(r, Checking(a)) /\ NextReferrer(a, r, call[a].failed)
        \/ NextReferrer(a, r, TRUE)
  BY DEF TrySignature
<1>3. CASE /\ Vouches(r, Checking(a))
           /\ call' = [call EXCEPT ![a].ref = call[a].plat]
           /\ vpc' = [vpc EXCEPT ![a] = "resolve"]
  <2> DEFINE c == [call[a] EXCEPT !.ref = call[a].plat]
  <2>1. /\ call[a] \in Call /\ ImageSeen(a) /\ TopSeen(a) /\ Verifies(a)
        /\ call[a].left \subseteq referrers[Checking(a)]
    BY <1>1 DEF PullTypeOK, VerifyInOrder, ImageSeen
  <2>2. Signed(call[a].plat) \/ Signed(call[a].top)
    BY <1>1, <1>3, <2>1, SeenType DEF Signed
  <2>3. call[a].plat \in Objects
    BY <2>1, SeenType
  <2>4. c \in Call /\ call' = [call EXCEPT ![a] = c]
    BY <1>1, <1>3, <2>1, <2>3 DEF Call, PullTypeOK, Locators
  <2>5. c.plat = call[a].plat /\ c.top = call[a].top /\ c.ref = call[a].plat /\ c.tag = call[a].tag
    BY <2>1 DEF Call
  <2> HIDE DEF c
  <2>6. /\ PullTypeOK' /\ Others(a) /\ vpc'[a] = "resolve" /\ call'[a] = c
        /\ memo'[a] = memo[a] /\ known'[a] = known[a] /\ asked'[a] = asked[a]
    BY <1>1, <1>3, <2>4 DEF PullTypeOK, Others, PullLabels
  <2>7. MemoSound(a)' /\ HistoryKept(a)'
    <3>1. vpc[a] # "idle" /\ call'[a].tag = call[a].tag
      BY <1>1, <2>5, <2>6
    <3>2. QED
      BY <1>1, <2>6, <3>1, QuietKept
  <2>8. ImageSeen(a)' /\ Verifies(a)'
    BY <1>1, <2>1, <2>5, <2>6, RegistrySame DEF ImageSeen, TopSeen, Verifies
  <2>9. Signed(call[a].plat)' \/ Signed(call[a].top)'
    BY <1>1, <2>2, <2>5, <2>6 DEF Signed, Vouches, registryVars
  <2>10. ResolveInOrder(a)'
    BY <2>5, <2>6, <2>8, <2>9 DEF ResolveInOrder
  <2>11. VerifyInOrder(a)'
    BY <2>6 DEF VerifyInOrder
  <2>12. QED
    BY <2>6, <2>7, <2>10, <2>11 DEF PullInOrder
<1>4. CASE ~Vouches(r, Checking(a)) /\ NextReferrer(a, r, call[a].failed)
  <2>1. call[a].failed \in BOOLEAN
    BY <1>1 DEF PullTypeOK, Call
  <2>2. QED
    BY <1>1, <1>4, <2>1, NextReferrerKeeps
<1>5. CASE NextReferrer(a, r, TRUE)
  BY <1>1, <1>5, NextReferrerKeeps
<1>6. QED
  BY <1>2, <1>3, <1>4, <1>5 DEF VGoto

(* The layer is that of the pinned manifest, or of what the tag points to now. *)
LEMMA ResolveKeeps ==
  ASSUME ClientInv, NEW a \in Pullers, Resolve(a)
  PROVE  PullTypeOK' /\ Others(a) /\ PullInOrder(a)'
<1> DEFINE r == call[a].ref
           found == Resolution(a, r)
           c == [call[a] EXCEPT !.got = found]
<1>1. /\ RegistryTypeOK /\ RegistryClosed /\ PullTypeOK /\ vpc[a] = "resolve"
      /\ MemoSound(a) /\ HistoryKept(a) /\ ResolveInOrder(a)
  BY DEF ClientInv, ClientTypeOK, Resolve
<1>2. call[a] \in Call /\ call[a].tag \in Tags /\ call[a].tag \in Locators
  BY <1>1 DEF PullTypeOK, HistoryKept, Locators
<1>3. Verifies(a) => /\ ImageSeen(a) /\ TopSeen(a) /\ r = call[a].plat /\ r \in Objects /\ r \in Locators
                     /\ Signed(call[a].plat) \/ Signed(call[a].top)
  BY <1>1, SeenType DEF ResolveInOrder, ImageSeen, Locators
<1>4. ~Verifies(a) => r = call[a].tag /\ r \notin Objects
  BY <1>1, <1>2, KindsAssumption DEF ResolveInOrder
<1>5. r \in Locators
  BY <1>2, <1>3, <1>4
<1>6. CASE Unusable(a, r)
  BY <1>1, <1>6, ErrorKeeps DEF Unusable, VGoto, Quiet
<1>7. CASE found # NoLayer /\ ~Unusable(a, r)
  <2>1. /\ call' = [call EXCEPT ![a].got = found] /\ vpc' = [vpc EXCEPT ![a] = "blob"]
        /\ Remember(a, r, found)
        /\ UNCHANGED <<registryVars, opts, asked, known>>
    BY <1>7 DEF Resolve, VGoto
  <2>2. /\ found \in Resolved
        /\ r \in Objects => found = ResolveLayerFull(r)
        /\ ~Memoizes(a) => found = ResolveLayerFull(r)
    BY <1>5, <1>7, ResolutionSound
  <2>3. c \in Call /\ call' = [call EXCEPT ![a] = c]
    BY <1>1, <1>2, <2>1, <2>2 DEF Call, PullTypeOK
  <2>4. /\ c.plat = call[a].plat /\ c.top = call[a].top /\ c.ref = r
        /\ c.tag = call[a].tag /\ c.got = found
    BY <1>2 DEF Call
  <2>5. /\ memo' \in [Pullers -> [Locators -> Resolved]]
        /\ \A b \in Pullers \ {a} : memo'[b] = memo[b]
        /\ \A o \in Objects : memo'[a][o] = memo[a][o] \/ (o = r /\ memo'[a][o] = found)
    BY <1>1, <1>5, <2>1, <2>2 DEF PullTypeOK, Remember, MemoKey, Locators
  <2>6. Verifies(a) => found = ResolveLayerFull(call[a].top)
    <3>1. Verifies(a) => call[a].top \in Locators
      BY <1>3, SeenType DEF Locators
    <3>2. QED
      BY <1>1, <1>3, <2>2, <3>1, ResolutionOfPlatform DEF ImageSeen
  <2>7. ~Verifies(a) /\ ~Memoizes(a) => \E o \in asked[a] : ResolveLayerFull(o) = found
    <3>1. ~Verifies(a) /\ ~Memoizes(a) => ResolveLayerFull(call[a].tag) = found
      BY <1>4, <2>2
    <3>2. ~Verifies(a) /\ ~Memoizes(a) =>
            tag[call[a].tag] # NoObject /\ ResolveLayerFull(tag[call[a].tag]) = found
      BY <1>1, <1>2, <1>7, <3>1, ResolutionOfTag
    <3>3. QED
      BY <1>1, <3>2 DEF HistoryKept
  <2> HIDE DEF c, found
  <2>8. vpc' = [vpc EXCEPT ![a] = "blob"] /\ UNCHANGED <<registryVars, opts, asked, known>>
    BY <2>1
  <2>9. /\ PullTypeOK' /\ Others(a) /\ vpc'[a] = "blob" /\ call'[a] = c
        /\ known'[a] = known[a] /\ asked'[a] = asked[a]
    BY <1>1, <2>3, <2>5, <2>8 DEF PullTypeOK, Others, PullLabels
  <2>10. MemoSound(a)'
    BY <1>1, <2>2, <2>5, <2>8, RegistrySame DEF MemoSound
  <2>11. HistoryKept(a)'
    BY <1>1, <2>4, <2>8, <2>9, RegistrySame DEF HistoryKept, registryVars
  <2>12. Verifies(a) => ImageSeen(a)' /\ (Signed(call[a].plat)' \/ Signed(call[a].top)')
    BY <1>3, <2>4, <2>8, <2>9, RegistrySame DEF ImageSeen, TopSeen
  <2>13. (Verifies(a)' <=> Verifies(a)) /\ (Memoizes(a)' <=> Memoizes(a))
    BY <2>8 DEF Verifies, Memoizes
  <2>14. /\ Verifies(a) => found = ResolveLayerFull(call[a].top)'
         /\ ~Verifies(a) /\ ~Memoizes(a) => \E o \in asked'[a] : ResolveLayerFull(o)' = found
    BY <2>4, <2>6, <2>7, <2>8, <2>9, RegistrySame
  <2>15. ResolveInOrder(a)'
    BY <1>3, <1>4, <1>7, <2>4, <2>9, <2>12, <2>13, <2>14 DEF ResolveInOrder
  <2>16. VerifyInOrder(a)'
    BY <2>9 DEF VerifyInOrder
  <2>17. QED
    BY <2>9, <2>10, <2>11, <2>15, <2>16 DEF PullInOrder
<1>8. QED
  BY <1>6, <1>7 DEF Resolve

(* From here on a call changes neither its image nor its layer. *)
LEMMA LayerKept ==
  ASSUME ClientInv, NEW a \in Pullers, UNCHANGED <<registryVars, opts, memo, asked, known>>,
         NEW c \in Call, NEW l \in {"extract", "ok"}, vpc[a] \in {"blob", "extract"},
         vpc' = [vpc EXCEPT ![a] = l], call' = [call EXCEPT ![a] = c],
         c.plat = call[a].plat, c.top = call[a].top, c.ref = call[a].ref,
         c.tag = call[a].tag, c.got = call[a].got, l = "ok" => c.right
  PROVE  PullTypeOK' /\ Others(a) /\ PullInOrder(a)'
<1>1. PullTypeOK /\ ResolveInOrder(a)
  BY DEF ClientInv, ClientTypeOK
<1>2. /\ PullTypeOK' /\ Others(a) /\ vpc'[a] = l /\ call'[a] = c
      /\ memo'[a] = memo[a] /\ known'[a] = known[a] /\ asked'[a] = asked[a]
  BY <1>1 DEF PullTypeOK, Others, PullLabels
<1>3. MemoSound(a)' /\ HistoryKept(a)'
  <2>1. vpc[a] # "idle" /\ call'[a].tag = call[a].tag
    BY <1>2
  <2>2. QED
    BY <1>2, <2>1, QuietKept
<1>4. (Verifies(a)' <=> Verifies(a)) /\ (Memoizes(a)' <=> Memoizes(a))
  BY DEF Verifies, Memoizes
<1>5. /\ ImageSeen(a) => ImageSeen(a)'
      /\ Signed(call[a].plat) \/ Signed(call[a].top) => (Signed(call[a].plat) \/ Signed(call[a].top))'
      /\ ResolveLayerFull(call[a].top)' = ResolveLayerFull(call[a].top)
  BY <1>2, RegistrySame DEF ImageSeen, TopSeen
<1>6. (\E o \in asked[a] : ResolveLayerFull(o) = call[a].got)
      => \E o \in asked'[a] : ResolveLayerFull(o)' = call'[a].got
  BY <1>2, RegistrySame
<1>7. ResolveInOrder(a)'
  BY <1>1, <1>2, <1>4, <1>5, <1>6 DEF ResolveInOrder
<1>8. VerifyInOrder(a)'
  BY <1>2 DEF VerifyInOrder
<1>9. QED
  BY <1>2, <1>3, <1>7, <1>8 DEF PullInOrder

LEMMA FetchBlobKeeps ==
  ASSUME ClientInv, NEW a \in Pullers, FetchBlob(a)
  PROVE  PullTypeOK' /\ Others(a) /\ PullInOrder(a)'
<1>1. PullTypeOK /\ vpc[a] = "blob" /\ UNCHANGED <<registryVars, opts, memo, asked, known>>
  BY DEF ClientInv, ClientTypeOK, FetchBlob, Quiet
<1>2. CASE vpc' = [vpc EXCEPT ![a] = "error"] /\ call' = call
  BY <1>1, <1>2, ErrorKeeps
<1>3. CASE /\ vpc' = [vpc EXCEPT ![a] = "extract"]
           /\ \E right \in BOOLEAN : call' = [call EXCEPT ![a].right = right]
  <2>1. PICK right \in BOOLEAN : call' = [call EXCEPT ![a].right = right]
    BY <1>3
  <2> DEFINE c == [call[a] EXCEPT !.right = right]
  <2>2. c \in Call /\ call' = [call EXCEPT ![a] = c]
    <3>1. call[a] \in Call
      BY <1>1 DEF PullTypeOK
    <3>2. c \in Call
      BY <3>1 DEF Call
    <3>3. call' = [call EXCEPT ![a] = c]
      BY <2>1
    <3>4. QED
      BY <3>2, <3>3
  <2>3. /\ c.plat = call[a].plat /\ c.top = call[a].top /\ c.ref = call[a].ref
        /\ c.tag = call[a].tag /\ c.got = call[a].got
    BY <1>1 DEF Call, PullTypeOK
  <2> HIDE DEF c
  <2>4. QED
    BY <1>1, <1>3, <2>2, <2>3, LayerKept
<1>4. QED
  BY <1>2, <1>3 DEF FetchBlob, VGoto

LEMMA CompareDigestKeeps ==
  ASSUME ClientInv, NEW a \in Pullers, CompareDigest(a)
  PROVE  PullTypeOK' /\ Others(a) /\ PullInOrder(a)'
<1>1. /\ PullTypeOK /\ vpc[a] = "extract" /\ call[a] \in Call /\ call' = call
      /\ UNCHANGED <<registryVars, opts, memo, asked, known>>
  BY DEF ClientInv, ClientTypeOK, PullTypeOK, CompareDigest, Quiet
<1>2. CASE vpc' = [vpc EXCEPT ![a] = "error"]
  BY <1>1, <1>2, ErrorKeeps
<1>3. CASE call[a].right /\ vpc' = [vpc EXCEPT ![a] = "ok"]
  <2>1. call' = [call EXCEPT ![a] = call[a]]
    BY <1>1 DEF PullTypeOK
  <2>2. QED
    BY <1>1, <1>3, <2>1, LayerKept
<1>4. QED
  BY <1>2, <1>3 DEF CompareDigest, VGoto

LEMMA PullReturnsKeeps ==
  ASSUME ClientInv, NEW a \in Pullers, PullReturns(a)
  PROVE  PullTypeOK' /\ Others(a) /\ PullInOrder(a)'
<1>1. /\ PullTypeOK /\ MemoSound(a)
      /\ vpc' = [vpc EXCEPT ![a] = "idle"] /\ call' = [call EXCEPT ![a] = NoCall]
      /\ asked' = [asked EXCEPT ![a] = {}] /\ known' = [known EXCEPT ![a] = NoneKnown]
      /\ UNCHANGED <<registryVars, opts, memo>>
  BY DEF ClientInv, ClientTypeOK, PullReturns, VGoto
<1>2. /\ NoCall \in Call
      /\ NoneKnown \in [Objects -> {"none", "some", "valid"}]
  BY DEF NoCall, Call, Resolved, NoneKnown
<1>3. PullTypeOK' /\ Others(a) /\ vpc'[a] = "idle"
  BY <1>1, <1>2 DEF PullTypeOK, Others, PullLabels
<1>4. MemoSound(a)'
  BY <1>1, RegistrySame DEF MemoSound
<1>5. HistoryKept(a)' /\ VerifyInOrder(a)' /\ ResolveInOrder(a)'
  BY <1>3 DEF HistoryKept, VerifyInOrder, ResolveInOrder
<1>6. QED
  BY <1>3, <1>4, <1>5 DEF PullInOrder

LEMMA PullAdvances ==
  ASSUME ClientInv, NEW a \in Pullers, Puller(a)
  PROVE  PullTypeOK' /\ Others(a) /\ PullInOrder(a)'
<1>1. CASE \E t \in Tags : StartPull(a, t)
  BY <1>1, StartPullKeeps
<1>2. CASE RequestFails(a)
  BY <1>2, ErrorKeeps DEF RequestFails, VGoto, Quiet
<1>3. QED
  BY <1>1, <1>2, FetchTopKeeps, PinPlatformKeeps, FetchPlatformKeeps, FetchReferrersKeeps,
     TrySignatureKeeps, ResolveKeeps, FetchBlobKeeps, CompareDigestKeeps, PullReturnsKeeps
     DEF Puller

-------------------------------------------------------------------------------
(* Every step. *)

(* Whoever else takes the step, the calls observe what their tags point to now. *)
LEMMA PullsRest ==
  ASSUME ClientInv, RegistryGrows, RegistryTypeOK', UNCHANGED <<opts, vpc, call, memo, known>>,
         Observe \/ UNCHANGED <<asked, tag>>
  PROVE  PullTypeOK' /\ \A a \in Pullers : PullInOrder(a)'
<1>1. PullTypeOK /\ RegistryTypeOK
  BY DEF ClientInv, ClientTypeOK
<1>2. CASE UNCHANGED <<asked, tag>>
  <2>1. PullTypeOK'
    BY <1>1, <1>2 DEF PullTypeOK
  <2>2. QED
    BY <1>2, <2>1, PullRests
<1>3. CASE Observe
  <2>1. \A a \in Pullers :
          asked'[a] = IF call[a].tag = NoObject THEN asked[a]
                      ELSE asked[a] \cup ({tag'[call[a].tag]} \ {NoObject})
    BY <1>3 DEF Observe
  <2>2. \A a \in Pullers : /\ call[a].tag \in Tags \cup {NoObject}
                           /\ call[a].tag # NoObject => tag'[call[a].tag] \in Objects \cup {NoObject}
    BY <1>1 DEF PullTypeOK, Call, RegistryTypeOK
  <2>3. ASSUME NEW a \in Pullers PROVE asked'[a] \in SUBSET Objects
    <3>1. asked[a] \in SUBSET Objects
      BY <1>1 DEF PullTypeOK
    <3>2. CASE call[a].tag = NoObject
      BY <2>1, <3>1, <3>2
    <3>3. CASE call[a].tag # NoObject
      BY <2>1, <2>2, <3>1, <3>3
    <3>4. QED
      BY <3>2, <3>3
  <2>4. PullTypeOK'
    <3>1. asked' \in [Pullers -> SUBSET Objects]
      BY <1>3, <2>3 DEF Observe
    <3>2. QED
      BY <1>1, <3>1 DEF PullTypeOK
  <2>5. ASSUME NEW a \in Pullers PROVE PullInOrder(a)'
    <3>1. vpc[a] # "idle" => call[a].tag \in Tags /\ call[a].tag # NoObject
      BY KindsAssumption DEF ClientInv, HistoryKept, Locators
    <3>2. asked[a] \subseteq asked'[a]
      BY <2>1
    <3>3. vpc[a] # "idle" => tag'[call[a].tag] \in asked'[a] \cup {NoObject}
      BY <2>1, <3>1
    <3>4. QED
      BY <3>2, <3>3, PullRests
  <2>6. QED
    BY <2>4, <2>5
<1>4. QED
  BY <1>2, <1>3

LEMMA InvStep ==
  ASSUME ClientInv, [ClientNext]_clientVars PROVE ClientInv'
<1>1. RegistryTypeOK' /\ RegistryClosed' /\ RegistryGrows
  BY RegistryStep
<1>2. PushTypeOK /\ PullTypeOK
  BY DEF ClientInv, ClientTypeOK
<1> DEFINE PushesKept == /\ PushTypeOK'
                         /\ \A q \in Pushers : /\ PushInOrder(q)'
                                               /\ q \in Signs /\ ppc'[q] = "pushed" => Signed(Pushed(q))'
           PullsKept == PullTypeOK' /\ \A b \in Pullers : PullInOrder(b)'
<1>3. UNCHANGED pushVars => PushesKept
  BY <1>1, <1>2, PushRests DEF pushVars, PushTypeOK
<1>4. PushesKept /\ PullsKept => ClientInv'
  <2>1. PushesKept => PushedIsSigned'
    BY SignsAssumption DEF PushedIsSigned, Signed
  <2>2. QED
    BY <1>1, <2>1 DEF ClientInv, ClientTypeOK, PullInOrder
<1>5. CASE /\ \E p \in Pushers : Pusher(p)
           /\ UNCHANGED <<opts, vpc, call, memo, known>> /\ Observe
  <2>1. PICK p \in Pushers : Pusher(p)
    BY <1>5
  <2>2. PushesKept
    BY <1>1, <2>1, PushAdvances, PushRests
  <2>3. PullsKept
    BY <1>1, <1>5, PullsRest
  <2>4. QED
    BY <1>4, <2>2, <2>3
<1>6. CASE (\E a \in Pullers : Puller(a)) /\ UNCHANGED pushVars
  <2>1. PICK a \in Pullers : Puller(a)
    BY <1>6
  <2>2. UNCHANGED <<opts, tag>>
    BY <2>1, PullerQuiet DEF registryVars
  <2>3. PullTypeOK' /\ Others(a) /\ PullInOrder(a)'
    BY <2>1, PullAdvances
  <2>4. ASSUME NEW b \in Pullers \ {a} PROVE PullInOrder(b)'
    BY <1>1, <2>2, <2>3, PullRests DEF Others
  <2>5. QED
    BY <1>3, <1>4, <1>6, <2>3, <2>4
<1>7. CASE /\ \E t \in Tags, o \in Foreign : Publish(t, o)
           /\ UNCHANGED <<pushVars, opts, vpc, call, memo, known>> /\ Observe
  <2>1. PullsKept
    BY <1>1, <1>7, PullsRest
  <2>2. QED
    BY <1>3, <1>4, <1>7, <2>1
<1>8. CASE /\ \E o \in Foreign : \E r \in Attachments(o) : Attach(o, r)
           /\ UNCHANGED <<pushVars, pullVars>>
  <2>1. UNCHANGED <<opts, vpc, call, memo, known>> /\ UNCHANGED <<asked, tag>>
    BY <1>8 DEF pullVars, Attach
  <2>2. PullsKept
    BY <1>1, <2>1, PullsRest
  <2>3. QED
    BY <1>3, <1>4, <1>8, <2>2
<1>9. CASE UNCHANGED clientVars
  <2>1. UNCHANGED <<opts, vpc, call, memo, known>> /\ UNCHANGED <<asked, tag>> /\ UNCHANGED pushVars
    BY <1>9 DEF clientVars, pullVars, registryVars
  <2>2. PullsKept
    BY <1>1, <2>1, PullsRest
  <2>3. QED
    BY <1>3, <1>4, <2>1, <2>2
<1>10. QED
  BY <1>5, <1>6, <1>7, <1>8, <1>9 DEF ClientNext

(* The inductive invariant. *)
THEOREM ClientInvariant == ClientSpec => []ClientInv
<1>1. ClientInit => ClientInv
  BY InvStarts
<1>2. ClientInv /\ [ClientNext]_clientVars => ClientInv'
  BY InvStep
<1>3. QED
  BY <1>1, <1>2, PTL DEF ClientSpec

(* Everything the registry names is there, whichever request of a push is the last. *)
THEOREM AlwaysClosed == ClientSpec => []RegistryClosed
<1>1. ClientInv => RegistryClosed
  BY DEF ClientInv
<1>2. QED
  BY <1>1, ClientInvariant, PTL

(* A push with a signer that reports success left a signature of what it pushed. *)
THEOREM SignedWhenPushed == ClientSpec => []PushedIsSigned
<1>1. ClientInv => PushedIsSigned
  BY DEF ClientInv
<1>2. QED
  BY <1>1, ClientInvariant, PTL

(* A client with a verifier pulls nothing but what a trusted signer signed. *)
THEOREM VerifiedWhenPulled == ClientSpec => []PulledIsVerified
<1>1. ClientInv => PulledIsVerified
  <2> SUFFICES ASSUME ClientInv, NEW v \in Pullers, vpc[v] = "ok", Verifies(v)
               PROVE  /\ call[v].right
                      /\ \E o \in objects : /\ \E r \in referrers[o] : Vouches(r, o)
                                            /\ ResolveLayerFull(o) = call[v].got
    BY DEF PulledIsVerified
  <2>1. /\ RegistryTypeOK /\ ImageSeen(v) /\ TopSeen(v) /\ call[v].right
        /\ Signed(call[v].plat) \/ Signed(call[v].top)
        /\ call[v].got = ResolveLayerFull(call[v].top)
    BY DEF ClientInv, ClientTypeOK, ResolveInOrder, ImageSeen
  <2>2. /\ call[v].top \in Objects /\ call[v].top \in Locators /\ call[v].plat \in Objects
        /\ call[v].plat \in objects /\ ResolveLayerFull(call[v].plat) = call[v].got
    BY <2>1, SeenType, ResolutionOfPlatform DEF ImageSeen, Locators
  <2>3. call[v].top \in objects
    <3>1. Deref(call[v].top) \in Objects /\ NoObject \notin Objects
      BY <2>1, <2>2, ResolvedType, KindsAssumption DEF ImageSeen, Locators
    <3>2. QED
      BY <2>1, <2>2, <3>1, DerefType
  <2>4. QED
    BY <2>1, <2>2, <2>3 DEF Signed
<1>2. QED
  BY <1>1, ClientInvariant, PTL

(* A pull uses one state of its tag, of the time of the call. *)
THEOREM OneSnapshot == ClientSpec => []PullsOneSnapshot
<1>1. ClientInv => PullsOneSnapshot
  <2> SUFFICES ASSUME ClientInv, NEW v \in Pullers, vpc[v] = "ok", Verifies(v) \/ ~Memoizes(v)
               PROVE  \E o \in asked[v] : ResolveLayerFull(o) = call[v].got
    BY DEF PullsOneSnapshot
  <2>1. ResolveInOrder(v)
    BY DEF ClientInv
  <2>2. QED
    BY <2>1 DEF ResolveInOrder, ImageSeen, TopSeen
<1>2. QED
  BY <1>1, ClientInvariant, PTL

(* An image is refused for a reason. *)
THEOREM RefusedForAReason == ClientSpec => []RefusedIsUnsigned
<1>1. ClientInv => RefusedIsUnsigned
  <2> SUFFICES ASSUME ClientInv, NEW v \in Pullers PROVE
         /\ vpc[v] \in {"nosignature", "invalid"} /\ ~call[v].failed =>
              \A o \in {call[v].plat, call[v].top} : known[v][o] # "valid"
         /\ vpc[v] = "nosignature" => \A o \in {call[v].plat, call[v].top} : known[v][o] = "none"
    BY DEF RefusedIsUnsigned
  <2>1. VerifyInOrder(v)
    BY DEF ClientInv
  <2>2. QED
    BY <2>1 DEF VerifyInOrder, GaveUp
<1>2. QED
  BY <1>1, ClientInvariant, PTL
================================================================================
