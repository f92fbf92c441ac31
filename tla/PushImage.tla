------------------------------- MODULE PushImage -------------------------------
(***************************************************************************)
(* Client.Push after the archive is built: registry.Push uploads the       *)
(* layer, the config and the manifest and moves the tag; with a signer the *)
(* manifest is fetched again, signed, and the signature is attached as a   *)
(* referrer.  Every request may fail, which ends the call with an error    *)
(* and leaves what was uploaded; a killed process leaves the same.         *)
(***************************************************************************)
EXTENDS ImageRegistry

CONSTANTS Pushers,
          Signs,    \* clients with a signer
          Built     \* the layers they build

ASSUME SignsAssumption == Signs \subseteq Pushers
ASSUME BuiltAssumption == \A l \in Built : l \in Layers /\ \E m \in Manifests : LayersOf[m] = <<l>>

VARIABLES ppc,     \* where each push is
          push     \* push[p]: its tag, its layer, the manifest bytes it signs

pushVars == <<ppc, push>>

PushLabels == {"idle", "layer", "config", "manifest", "tag",
               "readback", "bundle", "subject", "attach", "pushed", "error"}
NoPush == [tag |-> NoObject, layer |-> NoObject, bytes |-> NoObject]

PushTypeOK ==
  /\ ppc \in [Pushers -> PushLabels]
  /\ push \in [Pushers -> [tag : Tags \cup {NoObject}, layer : Layers \cup {NoObject},
                           bytes : Objects \cup {NoObject}]]

PushInit ==
  /\ ppc = [p \in Pushers |-> "idle"]
  /\ push = [p \in Pushers |-> NoPush]

Pushed(p) == ManifestOf(push[p].layer)     \* manifestDesc
PGoto(p, label) == ppc' = [ppc EXCEPT ![p] = label]

-------------------------------------------------------------------------------
StartPush(p, t, l) ==
  /\ ppc[p] = "idle"
  /\ push' = [push EXCEPT ![p] = [tag |-> t, layer |-> l, bytes |-> NoObject]]
  /\ PGoto(p, "layer")
  /\ UNCHANGED registryVars

(* A bug: the error of the layer upload is dropped. *)
PushLayerUnchecked(p) ==
  /\ ppc[p] = "layer"
  /\ blobs' = blobs \cup {<<"layer", push[p].layer>>} \/ UNCHANGED blobs
  /\ PGoto(p, "config")
  /\ UNCHANGED <<objects, tag, referrers, changes, push>>

PushLayer(p) ==
  /\ ppc[p] = "layer"
  /\ blobs' = blobs \cup {<<"layer", push[p].layer>>}
  /\ PGoto(p, "config")
  /\ UNCHANGED <<objects, tag, referrers, changes, push>>

PushConfig(p) ==
  /\ ppc[p] = "config"
  /\ blobs' = blobs \cup {<<"config", push[p].layer>>}
  /\ PGoto(p, "manifest")
  /\ UNCHANGED <<objects, tag, referrers, changes, push>>

PushManifest(p) ==
  /\ ppc[p] = "manifest"
  /\ objects' = objects \cup {Pushed(p)}
  /\ PGoto(p, "tag")
  /\ UNCHANGED <<blobs, tag, referrers, changes, push>>

TagManifest(p) ==
  /\ ppc[p] = "tag"
  /\ tag' = [tag EXCEPT ![push[p].tag] = Pushed(p)]
  /\ PGoto(p, IF p \in Signs THEN "readback" ELSE "pushed")
  /\ UNCHANGED <<blobs, objects, referrers, changes, push>>

-------------------------------------------------------------------------------
(* signAndStoreReferrer *)

(* A bug: the manifest to sign is read by tag. *)
ReadTagBack(p) ==
  /\ ppc[p] = "readback"
  /\ push' = [push EXCEPT ![p].bytes = Deref(push[p].tag)]
  /\ PGoto(p, "bundle")
  /\ UNCHANGED registryVars

ReadManifestBack(p) ==
  /\ ppc[p] = "readback" /\ Deref(Pushed(p)) # NoObject
  /\ push' = [push EXCEPT ![p].bytes = Deref(Pushed(p))]
  /\ PGoto(p, "bundle")
  /\ UNCHANGED registryVars

(* Sign, then PushReferrer uploads the signature. *)
PushBundle(p) ==
  /\ ppc[p] = "bundle"
  /\ blobs' = blobs \cup {<<"bundle", push[p].bytes>>}
  /\ PGoto(p, "subject")
  /\ UNCHANGED <<objects, tag, referrers, changes, push>>

(* The subject is resolved for its size, and the empty config uploaded. *)
ResolveSubject(p) ==
  /\ ppc[p] = "subject" /\ Deref(Pushed(p)) # NoObject
  /\ PGoto(p, "attach")
  /\ UNCHANGED <<registryVars, push>>

AttachSignature(p) ==
  /\ ppc[p] = "attach"
  /\ referrers' = [referrers EXCEPT ![Pushed(p)] =
                     @ \cup {[type |-> "bundle", over |-> push[p].bytes, trusted |-> TRUE]}]
  /\ PGoto(p, "pushed")
  /\ UNCHANGED <<blobs, objects, tag, changes, push>>

(* Any request fails, or the signer does. *)
PushFails(p) ==
  /\ Refusals
  /\ ppc[p] \notin {"idle", "pushed", "error"}
  /\ PGoto(p, "error")
  /\ UNCHANGED <<registryVars, push>>

PushReturns(p) ==
  /\ ppc[p] \in {"pushed", "error"}
  /\ PGoto(p, "idle")
  /\ push' = [push EXCEPT ![p] = NoPush]
  /\ UNCHANGED registryVars

Pusher(p) ==
  \/ \E t \in Tags, l \in Built : StartPush(p, t, l)
  \/ PushLayer(p) \/ PushConfig(p) \/ PushManifest(p) \/ TagManifest(p)
  \/ ReadManifestBack(p) \/ PushBundle(p) \/ ResolveSubject(p) \/ AttachSignature(p)
  \/ PushFails(p) \/ PushReturns(p)
===============================================================================
