------------------------------- MODULE PullImage -------------------------------
(***************************************************************************)
(* Client.Pull and Client.OpenImage without a cache directory: with a      *)
(* verifier, verifySignature finds a signature of the platform manifest or *)
(* of the index the tag points to and pins the reference to the digest of  *)
(* the platform manifest; the reference is then resolved to a layer, the   *)
(* layer fetched and its digest compared.  The registry client may keep    *)
(* resolved layers in memory (WithDescriptorCache).  An actor is a client  *)
(* that makes one call at a time.                                          *)
(***************************************************************************)
EXTENDS ImageRegistry

CONSTANTS Pullers,
          Configurations    \* the options clients are made with

Options == {"verifier",           \* WithVerifier
            "descriptorcache"}    \* WithDescriptorCache

ASSUME ConfigurationAssumption == Configurations \subseteq SUBSET Options

VARIABLES opts,    \* opts[a]: the options of client a
          vpc,     \* where each call is
          call,    \* the locals of the call
          memo,    \* descriptorCache.entries
          asked,   \* history: what the tag of the call pointed to since the call began
          known    \* history: the signatures there were when the call began

pullVars == <<opts, vpc, call, memo, asked, known>>

PullLabels == {"idle", "top", "pin", "platform", "referrers", "signature",
               "resolve", "blob", "extract",
               "ok", "nosignature", "invalid", "error"}
Answers == {"ok", "nosignature", "invalid", "error"}

Call == [tag : Tags \cup {NoObject},                 \* history: the tag of the call
         ref : Locators \cup {NoObject},             \* the reference, pinned once verified
         top : Objects \cup {NoObject},              \* indexDigest
         plat : Manifests \cup {NoObject},           \* platformDigest
         todo : SUBSET Objects,                      \* manifests still to check
         left : SUBSET Referrer,                     \* referrers of the manifest still to try
         bad : BOOLEAN,                              \* lastErr # nil
         failed : BOOLEAN,                           \* history: a request of the call failed
         got : Resolved,                             \* desc
         right : BOOLEAN]                            \* whether the bytes read are the blob's

NoCall == [tag |-> NoObject, ref |-> NoObject, top |-> NoObject, plat |-> NoObject, todo |-> {}, left |-> {},
           bad |-> FALSE, failed |-> FALSE, got |-> NoLayer, right |-> TRUE]

PullTypeOK ==
  /\ opts \in [Pullers -> Configurations]
  /\ vpc \in [Pullers -> PullLabels]
  /\ call \in [Pullers -> Call]
  /\ memo \in [Pullers -> [Locators -> Resolved]]
  /\ asked \in [Pullers -> SUBSET Objects]
  /\ known \in [Pullers -> [Objects -> {"none", "some", "valid"}]]

NoneKnown == [o \in Objects |-> "none"]

(* What the referrers of an object amount to. *)
SignaturesOf(o) ==
  IF \E r \in referrers[o] : Vouches(r, o) THEN "valid"
  ELSE IF \E r \in referrers[o] : r.type = "bundle" THEN "some" ELSE "none"

PullInit ==
  /\ opts \in [Pullers -> Configurations]
  /\ vpc = [a \in Pullers |-> "idle"]
  /\ call = [a \in Pullers |-> NoCall]
  /\ memo = [a \in Pullers |-> [r \in Locators |-> NoLayer]]
  /\ asked = [a \in Pullers |-> {}]
  /\ known = [a \in Pullers |-> NoneKnown]

VGoto(a, label) == vpc' = [vpc EXCEPT ![a] = label]
Verifies(a) == "verifier" \in opts[a]
Memoizes(a) == "descriptorcache" \in opts[a]
Quiet == UNCHANGED <<registryVars, opts, memo, asked, known>>

-------------------------------------------------------------------------------
StartPull(a, t) ==
  /\ vpc[a] = "idle"
  /\ call' = [call EXCEPT ![a] = [NoCall EXCEPT !.tag = t, !.ref = t]]
  /\ asked' = [asked EXCEPT ![a] = {tag[t]} \ {NoObject}]
  /\ known' = [known EXCEPT ![a] = [o \in Objects |-> SignaturesOf(o)]]
  /\ VGoto(a, IF Verifies(a) THEN "top" ELSE "resolve")
  /\ UNCHANGED <<registryVars, opts, memo>>

(* A request that fails ends the call. *)
RequestFails(a) ==
  /\ Refusals
  /\ vpc[a] \in {"top", "pin", "platform", "resolve", "blob"}
  /\ VGoto(a, "error")
  /\ UNCHANGED call
  /\ Quiet

(* FetchManifest of the tag: from here on the call follows this digest. *)
FetchTop(a) ==
  /\ vpc[a] = "top"
  /\ \/ /\ Deref(call[a].ref) # NoObject
        /\ call' = [call EXCEPT ![a].top = Deref(call[a].ref)]
        /\ VGoto(a, "pin")
     \/ /\ Deref(call[a].ref) = NoObject
        /\ VGoto(a, "error")
        /\ UNCHANGED call
  /\ Quiet

-------------------------------------------------------------------------------
(* ResolveLayer of reference r with the descriptor cache in front. *)

MemoKeyOfRepository(r) == CHOOSE t \in Tags : r \in Locators   \* a bug: the digest is left out
MemoKey(r) == r

Remembered(a, r) == Memoizes(a) /\ memo[a][MemoKey(r)] # NoLayer

Resolution(a, r) == IF Remembered(a, r) THEN memo[a][MemoKey(r)] ELSE ResolveLayerFull(r)

Remember(a, r, layer) ==
  memo' = IF Memoizes(a) THEN [memo EXCEPT ![a][MemoKey(r)] = layer] ELSE memo

(* Nothing has the tag, or what has it does not name exactly one layer. *)
Unusable(a, r) ==
  /\ Resolution(a, r) = NoLayer
  /\ VGoto(a, "error")
  /\ UNCHANGED call
  /\ Quiet

(* A bug: what was asked for is taken for the platform manifest. *)
PinAsked(a) ==
  /\ vpc[a] = "pin"
  /\ call' = [call EXCEPT ![a].plat = call[a].top, ![a].todo = {call[a].top}]
  /\ VGoto(a, "referrers")
  /\ Quiet

(* The pinned index is resolved to the manifest of this platform. *)
PinPlatform(a) ==
  /\ vpc[a] = "pin"
  /\ LET top == call[a].top
         found == Resolution(a, top)
     IN \/ Unusable(a, top)
        \/ /\ found # NoLayer
           /\ call' = [call EXCEPT ![a].plat = found.manifest, ![a].todo = {found.manifest, top}]
           /\ Remember(a, top, found)
           /\ VGoto(a, IF found.manifest = top THEN "referrers" ELSE "platform")
           /\ UNCHANGED <<registryVars, opts, asked, known>>

FetchPlatform(a) ==
  /\ vpc[a] = "platform"
  /\ VGoto(a, "referrers")
  /\ UNCHANGED call
  /\ Quiet

-------------------------------------------------------------------------------
(* verifyManifestSignature, for the platform manifest first and then for the index. *)

Checking(a) == IF call[a].plat \in call[a].todo THEN call[a].plat ELSE call[a].top

(* The answer when no manifest is left to check. *)
Verdict(bad) == IF bad THEN "invalid" ELSE "nosignature"

(* This manifest has no valid signature: the next one is checked. *)
GiveUpOn(a, bad, failed) ==
  LET rest == call[a].todo \ {Checking(a)}
  IN /\ call' = [call EXCEPT ![a].todo = rest, ![a].left = {}, ![a].bad = bad, ![a].failed = failed]
     /\ VGoto(a, IF rest = {} THEN Verdict(bad) ELSE "referrers")

(* Everything that is not known to be something else is taken for a signature. *)
SignatureReferrers(o) == {r \in referrers[o] : r.type # "sbom"}

FetchReferrers(a) ==
  /\ vpc[a] = "referrers"
  /\ LET found == SignatureReferrers(Checking(a))
     IN \/ /\ found # {}
           /\ call' = [call EXCEPT ![a].left = found]
           /\ VGoto(a, "signature")
        \/ /\ found = {}
           /\ GiveUpOn(a, call[a].bad, call[a].failed)
        \/ /\ Refusals
           /\ GiveUpOn(a, TRUE, TRUE)
  /\ Quiet

(* A bug: the first signature that does not verify decides. *)
FirstDecides(a, r, failed) == r \in call[a].left /\ GiveUpOn(a, TRUE, failed)

(* The attempt with referrer r fails: the next one is tried. *)
NextReferrer(a, r, failed) ==
  IF call[a].left = {r}
  THEN GiveUpOn(a, TRUE, failed)
  ELSE /\ call' = [call EXCEPT ![a].left = @ \ {r}, ![a].failed = failed]
       /\ UNCHANGED vpc

(* A bug: the reference stays the tag after it is verified. *)
TryUnpinned(a) ==
  /\ vpc[a] = "signature"
  /\ \E r \in call[a].left :
       /\ Vouches(r, Checking(a))
       /\ VGoto(a, "resolve")
       /\ UNCHANGED call
  /\ Quiet

(* FetchReferrer and Verify of one referrer; the registry lists them in any order. *)
TrySignature(a) ==
  /\ vpc[a] = "signature"
  /\ \E r \in call[a].left :
       \/ /\ Vouches(r, Checking(a))
          /\ call' = [call EXCEPT ![a].ref = call[a].plat]
          /\ VGoto(a, "resolve")
       \/ /\ ~Vouches(r, Checking(a))
          /\ NextReferrer(a, r, call[a].failed)
       \/ /\ Refusals
          /\ NextReferrer(a, r, TRUE)
  /\ Quiet

-------------------------------------------------------------------------------
Resolve(a) ==
  /\ vpc[a] = "resolve"
  /\ LET r == call[a].ref
         found == Resolution(a, r)
     IN \/ Unusable(a, r)
        \/ /\ found # NoLayer
           /\ call' = [call EXCEPT ![a].got = found]
           /\ Remember(a, r, found)
           /\ VGoto(a, "blob")
           /\ UNCHANGED <<registryVars, opts, asked, known>>

(* The body of the blob may differ from what its digest says. *)
FetchBlob(a) ==
  /\ vpc[a] = "blob"
  /\ \/ /\ <<"layer", call[a].got.layer>> \in blobs
        /\ \E right \in {TRUE} \cup {b \in {FALSE} : Refusals} :
             call' = [call EXCEPT ![a].right = right]
        /\ VGoto(a, "extract")
     \/ /\ <<"layer", call[a].got.layer>> \notin blobs
        /\ VGoto(a, "error")
        /\ UNCHANGED call
  /\ Quiet

(* extractWithDigest, newImageFromBlobWithDigest: the digest of what was read is compared. *)
(* Extract may fail, and may stop before the last byte of the blob.                        *)
CompareDigest(a) ==
  /\ vpc[a] = "extract"
  /\ \/ call[a].right /\ VGoto(a, "ok")
     \/ VGoto(a, "error")
  /\ UNCHANGED call
  /\ Quiet

PullReturns(a) ==
  /\ vpc[a] \in Answers
  /\ VGoto(a, "idle")
  /\ call' = [call EXCEPT ![a] = NoCall]
  /\ asked' = [asked EXCEPT ![a] = {}]
  /\ known' = [known EXCEPT ![a] = NoneKnown]
  /\ UNCHANGED <<registryVars, opts, memo>>

Puller(a) ==
  \/ \E t \in Tags : StartPull(a, t)
  \/ RequestFails(a) \/ FetchTop(a) \/ PinPlatform(a) \/ FetchPlatform(a)
  \/ FetchReferrers(a) \/ TrySignature(a) \/ Resolve(a) \/ FetchBlob(a) \/ CompareDigest(a)
  \/ PullReturns(a)
===============================================================================
