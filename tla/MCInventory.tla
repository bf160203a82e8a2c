---------------------------- MODULE MCInventory ----------------------------
(* Instances of Inventory: every agent posts its own name and one that both   *)
(* post, like the WorkGroupTest names of OnBnClickedPostResource.             *)
EXTENDS Inventory, TLC

CONSTANTS a1, a2, n1, n2, g1, g2

MCScript == (a1 :> <<n1, n2>>) @@ (a2 :> <<n2>>)
MCMaxPosts == (a1 :> 2) @@ (a2 :> 1)
=============================================================================
