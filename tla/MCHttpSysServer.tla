--------------------------- MODULE MCHttpSysServer ---------------------------
(* Instances of HttpSysServer: q1 meets every failure and may have a body;    *)
(* the other requests are plain, see Plain.                                   *)
EXTENDS HttpSysServer

CONSTANTS q1, q2
=============================================================================
