---------------------------------- MODULE Tar ----------------------------------
(***************************************************************************)
(* What Builder.Build and Extract know of a tar archive: entries with a    *)
(* name, a type and, for a regular file, a length in chunks.               *)
(***************************************************************************)
EXTENDS Integers, Sequences

CONSTANTS Names,      \* the names of entries, all directly in one directory
          NoName,
          TmpLink,    \* TmpLink[n]: the name n + ".tmp", NoName when nothing else has it
          MaxInt64    \* the largest int64

ASSUME MaxIntAssumption == MaxInt64 \in Nat \ {0}
ASSUME TmpLinkAssumption == NoName \notin Names /\ TmpLink \in [Names -> Names \cup {NoName}]

Types == {"reg", "dir", "link",
          "skipped",     \* stargz.index.json, and types nobody extracts
          "refused"}     \* hard links and devices, and names ValidatePath refuses

Sizes == -1..MaxInt64    \* a malformed header may say a negative size

Entry == [name : Names, type : Types, size : Sizes]
===============================================================================
