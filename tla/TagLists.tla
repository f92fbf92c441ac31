------------------------------- MODULE TagLists -------------------------------
(***************************************************************************)
(* Cache.ListTags in several processes on one cache directory: a list is   *)
(* served from its file within the TTL, else asked of the registry and     *)
(* saved.  The save is the one of entries and references too: a temporary  *)
(* file, whose name all processes share, is written and renamed.           *)
(***************************************************************************)
EXTENDS Integers, FiniteSets

CONSTANTS Listers,     \* processes that list tags
          Lists,       \* tag lists; a list is the length of its file, in pieces
          ListTTL,     \* cacheTTL, or DefaultTagListTTL
          MaxNow,      \* bound: time stops here
          MaySaveFail

ASSUME ListsAssumption == Lists \subseteq Nat \ {0} /\ Lists # {}
ASSUME ListTTLAssumption == ListTTL \in Nat \ {0} /\ MaxNow \in Nat

VARIABLES file,      \* the pieces of the file and of its .tmp, where they exist
          lpc,       \* where each process is: idle, fetch, create, write, rename, remove
          open,      \* open[a]: what the file that a writes is called now, if anything
          list,      \* list[a]: the TagListEntry of a: its tags and ValidatedAt
          current,   \* the registry: the tags of the repository
          had,       \* history: when the registry last had a list
          now

tagVars == <<file, lpc, open, list, current, had, now>>

Moments == 0..MaxNow
Document == [tags : Lists, validated : Moments]
MaxPieces == CHOOSE n \in Lists : \A m \in Lists : m <= n
NoPiece == [tags |-> 0, validated |-> 0]
Empty == [i \in 1..MaxPieces |-> NoPiece]
NoFile == <<>>

TagInit ==
  /\ file = [n \in {"saved", "temp"} |-> NoFile]
  /\ lpc = [a \in Listers |-> "idle"]
  /\ open = [a \in Listers |-> "gone"]
  /\ list \in [Listers -> {[tags |-> CHOOSE l \in Lists : TRUE, validated |-> 0]}]
  /\ current \in Lists
  /\ had = [l \in Lists |-> IF l = current THEN 0 ELSE -1]
  /\ now = 0

LGoto(a, label) == lpc' = [lpc EXCEPT ![a] = label]
World == <<current, had, now>>

(* A bug: what two processes wrote into one file is read as one list. *)
Patchwork(text) ==
  {[tags |-> d.tags, validated |-> text[1].validated] :
     d \in {text[i] : i \in DOMAIN text} \ {NoPiece}}

(* What a text says: a list that is all there, and nothing after it. *)
Documents(text) ==
  {d \in {text[i] : i \in DOMAIN text} \ {NoPiece} :
     \A i \in DOMAIN text : text[i] = IF i <= d.tags THEN d ELSE NoPiece}

Valid(d) == now - d.validated <= ListTTL

(* What a call is served from the file, if anything. *)
Hits == {d \in Documents(file["saved"]) : Valid(d)}

(* The file is missing, broken or too old. *)
MissTags(a) ==
  /\ lpc[a] = "idle" /\ Hits = {}
  /\ LGoto(a, "fetch")
  /\ UNCHANGED <<file, open, list, World>>

(* The registry answers and the answer is stamped, or the call returns an error. *)
FetchTags(a) ==
  /\ lpc[a] = "fetch"
  /\ \/ /\ list' = [list EXCEPT ![a] = [tags |-> current, validated |-> now]]
        /\ LGoto(a, "create")
     \/ /\ LGoto(a, "idle")
        /\ UNCHANGED list
  /\ UNCHANGED <<file, open, World>>

-------------------------------------------------------------------------------
(* saveTagList, saveRefEntry, saveEntry *)

CreateTemp(a) ==
  /\ lpc[a] = "create"
  /\ file' = [file EXCEPT !["temp"] = Empty]
  /\ open' = [open EXCEPT ![a] = "temp"]
  /\ LGoto(a, "write")
  /\ UNCHANGED <<list, World>>

(* One write from the start of the file; what was longer keeps its end.  A disk that is *)
(* full takes the first piece of an empty file or nothing. *)
WriteTemp(a) ==
  /\ lpc[a] = "write"
  /\ LET old == IF open[a] = "gone" THEN Empty ELSE file[open[a]]
         Puts(n) == file' = IF open[a] = "gone" THEN file
                            ELSE [file EXCEPT ![open[a]] =
                                    [i \in 1..MaxPieces |-> IF i <= n THEN list[a] ELSE old[i]]]
     IN \/ Puts(list[a].tags) /\ LGoto(a, "rename")
        \/ MaySaveFail /\ Puts(IF old = Empty THEN 1 ELSE 0) /\ LGoto(a, "remove")
        \/ MaySaveFail /\ UNCHANGED file /\ LGoto(a, "remove")
  /\ open' = [open EXCEPT ![a] = "gone"]
  /\ UNCHANGED <<list, World>>

(* Whatever has the temporary name is renamed; another process may have renamed it before. *)
RenameTemp(a) ==
  /\ lpc[a] = "rename"
  /\ \/ /\ file["temp"] # NoFile
        /\ file' = [n \in {"saved", "temp"} |-> IF n = "saved" THEN file["temp"] ELSE NoFile]
        /\ open' = [b \in Listers |-> IF open[b] = "temp" THEN "saved" ELSE "gone"]
        /\ LGoto(a, "idle")
     \/ /\ file["temp"] = NoFile \/ MaySaveFail
        /\ LGoto(a, "remove")
        /\ UNCHANGED <<file, open>>
  /\ UNCHANGED <<list, World>>

RemoveTemp(a) ==
  /\ lpc[a] = "remove"
  /\ file' = [file EXCEPT !["temp"] = NoFile]
  /\ open' = [b \in Listers |-> IF open[b] = "temp" THEN "gone" ELSE open[b]]
  /\ LGoto(a, "idle")
  /\ UNCHANGED <<list, World>>

(* The process is killed. *)
KillLister(a) ==
  /\ lpc[a] \in {"write", "rename", "remove"}
  /\ open' = [open EXCEPT ![a] = "gone"]
  /\ LGoto(a, "idle")
  /\ UNCHANGED <<file, list, World>>

Lister(a) ==
  \/ MissTags(a) \/ FetchTags(a)
  \/ CreateTemp(a) \/ WriteTemp(a) \/ RenameTemp(a) \/ RemoveTemp(a) \/ KillLister(a)

(* Somebody pushes or deletes a tag. *)
ChangeTags ==
  /\ \E l \in Lists \ {current} : current' = l /\ had' = [had EXCEPT ![l] = now]
  /\ UNCHANGED <<file, lpc, open, list, now>>

PassTime ==
  /\ now < MaxNow
  /\ now' = now + 1
  /\ had' = [had EXCEPT ![current] = now + 1]
  /\ UNCHANGED <<file, lpc, open, list, current>>

TagNext == (\E a \in Listers : Lister(a)) \/ ChangeTags \/ PassTime

TagSpec == TagInit /\ [][TagNext]_tagVars

-------------------------------------------------------------------------------
(* tagindex.go:98-99: a list that a call would be served from the file is one that the *)
(* registry had within the TTL, whatever processes wrote over each other's file. *)
TagsFresh == \A d \in Hits : had[d.tags] + ListTTL >= now

(* What makes it inductive: the registry had every list that is in a file or on its way *)
(* there, not before it was stamped. *)
Had(d) == d.tags \in Lists /\ d.validated \in Moments /\ d.validated <= had[d.tags]

TagInv ==
  /\ now \in Moments
  /\ current \in Lists /\ had \in [Lists -> -1..now] /\ had[current] = now
  /\ lpc \in [Listers -> {"idle", "fetch", "create", "write", "rename", "remove"}]
  /\ open \in [Listers -> {"temp", "saved", "gone"}] /\ list \in [Listers -> Document]
  /\ DOMAIN file = {"saved", "temp"}
  /\ \A n \in {"saved", "temp"} : \A i \in DOMAIN file[n] : file[n][i] = NoPiece \/ Had(file[n][i])
  /\ \A a \in Listers : /\ open[a] # "gone" => DOMAIN file[open[a]] = 1..MaxPieces
                        /\ lpc[a] \in {"create", "write"} => Had(list[a])
===============================================================================
