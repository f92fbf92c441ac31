-------------------------------- MODULE ByteSet --------------------------------
(***************************************************************************)
(* What the ranges of an entry stand for: the set of bytes that are on     *)
(* disk.  It only grows, and a read that succeeds leaves its bytes in it.  *)
(***************************************************************************)
CONSTANT AllBytes

VARIABLES present,  \* bytes recorded as downloaded
          reading,  \* bytes of the read under way, or {}
          failed    \* whether the last read returned an error

Init == present \in SUBSET AllBytes /\ reading = {} /\ failed = FALSE

Start == /\ reading = {}
         /\ reading' \in (SUBSET AllBytes) \ {{}}
         /\ UNCHANGED <<present, failed>>

(* Only bytes that the read asked for and that were missing are fetched. *)
Fetch == /\ \E new \in SUBSET (reading \ present) : present' = present \cup new
         /\ UNCHANGED <<reading, failed>>

Succeed == /\ reading # {} /\ reading \subseteq present
           /\ reading' = {} /\ failed' = FALSE
           /\ UNCHANGED present

Fail == /\ reading # {}
        /\ reading' = {} /\ failed' = TRUE
        /\ UNCHANGED present

Spec == Init /\ [][Start \/ Fetch \/ Succeed \/ Fail]_<<present, reading, failed>>
===============================================================================
