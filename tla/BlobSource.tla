------------------------------ MODULE BlobSource ------------------------------
(***************************************************************************)
(* What a caching BlobSource promises its clients (contracts.BlobSource):  *)
(* a call is answered with the blob, refused with an error, or, when it is *)
(* a prefetch, ends without an answer; what is stored is the blob or       *)
(* nothing.  No content but Blob ever shows.                               *)
(***************************************************************************)
CONSTANTS Clients, Blob, Nothing

VARIABLES call,    \* call[c]: idle, pending, served or refused
          got,     \* got[c]: the content behind the handle c holds
          stored   \* the content under the blob's final name

vars == <<call, got, stored>>

TypeOK ==
  /\ call \in [Clients -> {"idle", "pending", "served", "refused"}]
  /\ got \in [Clients -> {Blob, Nothing}]
  /\ stored \in {Blob, Nothing}

Init ==
  /\ call = [c \in Clients |-> "idle"]
  /\ got = [c \in Clients |-> Nothing]
  /\ stored \in {Blob, Nothing}

Call(c) ==
  /\ call[c] = "idle"
  /\ call' = [call EXCEPT ![c] = "pending"]
  /\ UNCHANGED <<got, stored>>

Serve(c) ==
  /\ call[c] = "pending"
  /\ call' = [call EXCEPT ![c] = "served"]
  /\ got' = [got EXCEPT ![c] = Blob]
  /\ UNCHANGED stored

Refuse(c) ==
  /\ call[c] = "pending"
  /\ call' = [call EXCEPT ![c] = "refused"]
  /\ UNCHANGED <<got, stored>>

Finish(c) ==
  /\ call[c] = "pending"
  /\ call' = [call EXCEPT ![c] = "idle"]
  /\ UNCHANGED <<got, stored>>

Release(c) ==
  /\ call[c] \in {"served", "refused"}
  /\ call' = [call EXCEPT ![c] = "idle"]
  /\ got' = [got EXCEPT ![c] = Nothing]
  /\ UNCHANGED stored

Store == stored' = Blob /\ UNCHANGED <<call, got>>
Drop == stored' = Nothing /\ UNCHANGED <<call, got>>

(* The process of some clients is killed. *)
Kill ==
  \E C \in SUBSET Clients :
    /\ call' = [c \in Clients |-> IF c \in C THEN "idle" ELSE call[c]]
    /\ got' = [c \in Clients |-> IF c \in C THEN Nothing ELSE got[c]]
    /\ UNCHANGED stored

Answer(c) == Serve(c) \/ Refuse(c) \/ Finish(c)

Next ==
  \/ \E c \in Clients : Call(c) \/ Answer(c) \/ Release(c)
  \/ Store \/ Drop \/ Kill

Spec == Init /\ [][Next]_vars

(* Every call is answered. *)
FairSpec == Spec /\ \A c \in Clients : WF_vars(Answer(c))
===============================================================================
