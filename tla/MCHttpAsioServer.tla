-------------------------- MODULE MCHttpAsioServer --------------------------
(* Instances of HttpAsioServer: requests that follow each other on a          *)
(* connection, one with everything that may happen to it, two connections,    *)
(* and listeners whose paths differ, or not.                                  *)
EXTENDS HttpAsioServer, TLC

CONSTANTS c1, c2, a, b

With(y, opens, may, n1, n2) ==
    [path |-> a :> "x" @@ b :> y, opens |-> opens, may |-> c1 :> may @@ c2 :> {},
     limit |-> c1 :> n1 @@ c2 :> n2]

Follow == {With("y", {a}, {"throws", "closes"}, 2, 0)}
Everything == {With("y", {a}, Features, 1, 0)}
TwoListeners == {With("y", {a, b}, {"body"}, 1, 0)}
SamePath == {With("x", {a, b}, {"keeps"}, 1, 0)}
TwoConns == {With("y", {a}, {"throws"}, 1, 1)}
MCSetups == Follow \cup Everything \cup TwoListeners \cup SamePath \cup TwoConns
=============================================================================
