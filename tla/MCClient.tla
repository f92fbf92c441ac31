------------------------------- MODULE MCClient --------------------------------
(***************************************************************************)
(* An instance of Client: one tag, layers a, b and c with their            *)
(* manifests, and an index of the first two for two platforms.             *)
(***************************************************************************)
EXTENDS Client, TLC

CONSTANTS t1, a, b, c, ma, mb, mc, both, p1, c1

MCLayersOf == (ma :> <<a>>) @@ (mb :> <<b>>) @@ (mc :> <<c>>)
MCEntriesOf ==
  both :> << [manifest |-> ma, local |-> FALSE], [manifest |-> mb, local |-> TRUE] >>

(* The locals and the history a call still uses: what led to the reference it resolves *)
(* is forgotten once it is pinned, and the others are set again before they are read. *)
MCView ==
  <<registryVars, pushVars, opts, vpc, memo,
    [v \in Pullers |->
       IF vpc[v] \in {"resolve", "blob", "extract", "ok"}
       THEN [call[v] EXCEPT !.top = NoObject, !.plat = NoObject, !.todo = {}, !.left = {},
                            !.bad = FALSE, !.failed = FALSE]
       ELSE call[v]],
    [v \in Pullers |-> IF vpc[v] \in {"nosignature", "invalid", "error"} THEN {} ELSE asked[v]],
    [v \in Pullers |-> IF vpc[v] \in {"top", "pin", "platform", "referrers", "signature",
                                     "nosignature", "invalid"}
                       THEN known[v] ELSE NoneKnown]>>

===============================================================================
