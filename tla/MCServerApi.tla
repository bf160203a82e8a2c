----------------------------- MODULE MCServerApi -----------------------------
(* Instances of ServerApi: two listeners of one address, one of another; the  *)
(* user of l3 does not wait, and gets one call less.                          *)
EXTENDS ServerApi

CONSTANTS l1, l2, l3, here, there

MCAddress == [l \in Listeners |-> IF l = l2 THEN there ELSE here]
\* Bounds.
MCMaxCalls == [l \in Listeners |-> IF l = l3 THEN 2 ELSE 3]
=============================================================================
