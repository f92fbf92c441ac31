--------------------------------- MODULE Client ---------------------------------
(***************************************************************************)
(* Clients that push, sign, verify, pull and open images of one            *)
(* repository, while other tools publish images and attach signatures.     *)
(***************************************************************************)
EXTENDS PushImage, PullImage

CONSTANT Foreign    \* what other tools publish and sign

ASSUME ForeignAssumption == Foreign \subseteq Objects

clientVars == <<registryVars, pushVars, pullVars>>

ClientTypeOK == RegistryTypeOK /\ PushTypeOK /\ PullTypeOK

(* What a tool attaches to o: an SBOM, a signature that is trusted, or one that is not. *)
Attachments(o) ==
  {[type |-> "sbom", over |-> o, trusted |-> FALSE],
   [type |-> "bundle", over |-> o, trusted |-> TRUE],
   [type |-> "bundle", over |-> o, trusted |-> FALSE]}

(* The repository holds what other tools published and attached before. *)
RegistryInit ==
  \E o \in Foreign \cup {NoObject} :
    /\ objects = (Foreign \cup UNION {Named(f) : f \in Foreign})
    /\ tag = [t \in Tags |-> o]
    /\ \E r \in [Foreign -> {NoObject} \cup UNION {Attachments(f) : f \in Foreign}] :
         /\ \A f \in Foreign : r[f] \in Attachments(f) \cup {NoObject}
         /\ referrers = [f \in Objects |-> IF f \in Foreign THEN {r[f]} \ {NoObject} ELSE {}]
    /\ blobs = (UNION {BlobsOf(m) : m \in objects \ Indexes})
               \cup {<<"bundle", f>> : f \in {g \in Foreign : referrers[g] # {}}}
    /\ changes = 0

ClientInit == RegistryInit /\ PushInit /\ PullInit

(* The history of every call: what its tag points to now. *)
Observe ==
  asked' = [a \in Pullers |-> IF call[a].tag = NoObject THEN asked[a]
                              ELSE asked[a] \cup ({tag'[call[a].tag]} \ {NoObject})]

ClientNext ==
  \/ (\E p \in Pushers : Pusher(p)) /\ UNCHANGED <<opts, vpc, call, memo, known>> /\ Observe
  \/ (\E a \in Pullers : Puller(a)) /\ UNCHANGED pushVars
  \/ (\E t \in Tags, o \in Foreign : Publish(t, o))
       /\ UNCHANGED <<pushVars, opts, vpc, call, memo, known>> /\ Observe
  \/ (\E o \in Foreign : \E r \in Attachments(o) : Attach(o, r)) /\ UNCHANGED <<pushVars, pullVars>>

ClientSpec == ClientInit /\ [][ClientNext]_clientVars
-------------------------------------------------------------------------------
(* Everything the registry names is there: what a tag points to, the layer and the *)
(* config of a stored manifest, the subject and the bundle of a referrer.  Push      *)
(* uploads in this order, so no failed or killed push leaves a tag nobody can pull. *)
RegistryClosed ==
  /\ \A t \in Tags : tag[t] # NoObject => tag[t] \in objects
  /\ \A o \in objects : Named(o) \subseteq objects
  /\ \A m \in objects \cap Manifests : BlobsOf(m) \subseteq blobs
  /\ \A o \in Objects : \A r \in referrers[o] : o \in objects /\ <<"bundle", r.over>> \in blobs

(* When a push with a signer reports success, the manifest it reports carries a *)
(* signature of its own bytes, whatever the tag points to meanwhile (signAndStoreReferrer). *)
PushedIsSigned ==
  \A p \in Signs : ppc[p] = "pushed" => \E r \in referrers[Pushed(p)] : Vouches(r, Pushed(p))

(* What a client with a verifier pulls is intact and was signed by a trusted signer, *)
(* either its manifest or the index that selects it for this platform. *)
PulledIsVerified ==
  \A v \in Pullers : vpc[v] = "ok" /\ Verifies(v) =>
    /\ call[v].right
    /\ \E o \in objects : /\ \E r \in referrers[o] : Vouches(r, o)
                          /\ ResolveLayerFull(o) = call[v].got

(* A pull sees one state of its tag: the layer is that of something the tag pointed to *)
(* between the start and the end of the call, although the call makes several requests. *)
(* A client that keeps resolved tags in memory promises it only when it pins them. *)
PullsOneSnapshot ==
  \A v \in Pullers : vpc[v] = "ok" /\ (Verifies(v) \/ ~Memoizes(v)) =>
    \E o \in asked[v] : ResolveLayerFull(o) = call[v].got

(* One valid signature is enough: a call without a failed request refuses an image only *)
(* when neither its manifest nor its index carried a valid signature when it began, *)
(* and says there is none only when nothing attached could be one (errors.go:32). *)
RefusedIsUnsigned ==
  \A v \in Pullers :
    LET images == {call[v].plat, call[v].top}
    IN /\ vpc[v] \in {"nosignature", "invalid"} /\ ~call[v].failed =>
            \A o \in images : known[v][o] # "valid"
       /\ vpc[v] = "nosignature" => \A o \in images : known[v][o] = "none"

-------------------------------------------------------------------------------
(* What makes the properties inductive. *)

(* A push uploads what the manifest names, then the manifest, and moves the tag last; *)
(* it signs the bytes of the manifest it pushed. *)
PushInOrder(p) ==
  /\ ppc[p] # "idle" => push[p].tag \in Tags /\ push[p].layer \in Built
  /\ ppc[p] \notin {"idle", "layer", "error"} => <<"layer", push[p].layer>> \in blobs
  /\ ppc[p] \notin {"idle", "layer", "config", "error"} => <<"config", push[p].layer>> \in blobs
  /\ ppc[p] \notin {"idle", "layer", "config", "manifest", "error"} => Pushed(p) \in objects
  /\ ppc[p] \in {"bundle", "subject", "attach"} => push[p].bytes = Pushed(p)
  /\ ppc[p] \in {"subject", "attach"} => <<"bundle", push[p].bytes>> \in blobs

(* What a client remembers of a digest is what the registry says of it. *)
MemoSound(a) == \A o \in Objects : memo[a][o] # NoLayer => memo[a][o] = ResolveLayerFull(o)

(* The histories of a call follow the registry. *)
HistoryKept(a) ==
  vpc[a] # "idle" =>
    /\ call[a].tag \in Tags
    /\ tag[call[a].tag] # NoObject => tag[call[a].tag] \in asked[a]
    /\ \A o \in Objects : /\ known[a][o] = "valid" => SignaturesOf(o) = "valid"
                          /\ known[a][o] # "none" => SignaturesOf(o) # "none"

Signed(o) == \E r \in referrers[o] : Vouches(r, o)

(* The image a call looks at: what the tag pointed to, and the manifest it selects. *)
TopSeen(a) == call[a].top \in asked[a]
ImageSeen(a) ==
  /\ TopSeen(a)
  /\ ResolveLayerFull(call[a].top) # NoLayer
  /\ call[a].plat = ResolveLayerFull(call[a].top).manifest

(* A manifest the call gave up on had no valid signature, or a request failed. *)
GaveUp(a, o) ==
  /\ ~call[a].failed => known[a][o] # "valid"
  /\ ~call[a].bad => known[a][o] = "none"

VerifyInOrder(a) ==
  /\ vpc[a] \in {"top", "pin", "platform", "referrers", "signature"} => Verifies(a)
  /\ vpc[a] = "top" => call[a].ref = call[a].tag
  /\ vpc[a] \in {"top", "pin"} => ~call[a].failed /\ ~call[a].bad
  /\ vpc[a] = "pin" => TopSeen(a)
  /\ vpc[a] \in {"platform", "referrers", "signature"} =>
       ImageSeen(a) /\ call[a].todo # {} /\ call[a].todo \subseteq {call[a].plat, call[a].top}
  /\ vpc[a] \in {"platform", "referrers", "signature", "nosignature", "invalid"} =>
       \A o \in {call[a].plat, call[a].top} \ call[a].todo : GaveUp(a, o)
  /\ vpc[a] = "signature" =>
       /\ call[a].left \subseteq referrers[Checking(a)]
       /\ ~call[a].failed /\ known[a][Checking(a)] = "valid" =>
            \E r \in call[a].left : Vouches(r, Checking(a))
  /\ vpc[a] \in {"nosignature", "invalid"} => call[a].todo = {}
  /\ vpc[a] = "nosignature" => ~call[a].bad

ResolveInOrder(a) ==
  /\ vpc[a] \in {"resolve", "blob", "extract", "ok"} =>
       IF Verifies(a)
       THEN /\ ImageSeen(a) /\ call[a].ref = call[a].plat
            /\ Signed(call[a].plat) \/ Signed(call[a].top)
       ELSE call[a].ref = call[a].tag
  /\ vpc[a] \in {"blob", "extract", "ok"} =>
       /\ call[a].got # NoLayer
       /\ IF Verifies(a)
          THEN call[a].got = ResolveLayerFull(call[a].top)
          ELSE ~Memoizes(a) => \E o \in asked[a] : ResolveLayerFull(o) = call[a].got
  /\ vpc[a] = "ok" => call[a].right

ClientInv ==
  /\ ClientTypeOK
  /\ RegistryClosed
  /\ PushedIsSigned
  /\ \A p \in Pushers : PushInOrder(p)
  /\ \A a \in Pullers : MemoSound(a) /\ HistoryKept(a) /\ VerifyInOrder(a) /\ ResolveInOrder(a)
================================================================================
