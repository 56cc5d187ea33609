------------------------------- MODULE MCPhi -------------------------------
(***************************************************************************)
(* Three levels of inner nodes: the root has the inner node x and a leaf,  *)
(* x has the inner node y and a leaf at the depth limit, y has one leaf.   *)
(* One permit for all of them.  With keywords, no chunk is left, only the  *)
(* branch x, some leaf of every branch, or everything.                     *)
(***************************************************************************)
EXTENDS Phi, TLC

CONSTANTS x, y, l1, l2, l3

MCNodes == {Root, x, y, l1, l2, l3}
MCKids == Root :> <<x, l3>> @@ x :> <<y, l2>> @@ y :> <<l1>>
          @@ l1 :> <<>> @@ l2 :> <<>> @@ l3 :> <<>>
MCSource == <<l1, l2, l3>>
MCDeepLeaves == {l2}

Call(t, leaves) == [task |-> t, matching |-> leaves]

MCSetups ==
  {Call("classify", {}), Call("summarise", {}), Call("search", {l1, l2, l3}),
   Call("search", {l1, l2}), Call("search", {}), Call("multi_hop", {l1, l3})}

=============================================================================
