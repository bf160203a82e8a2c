---------------------------- MODULE MCHttpClient ----------------------------
(* Instances of HttpClient: small worlds of two requests.                     *)
EXTENDS HttpClient

Reply(keepAlive, length) ==
    [keep |-> keepAlive, length |-> length, encoding |-> "known"]
Unknown(reply) == [reply EXCEPT !.encoding = "unknown"]
World(mode, order, bodies, cancellable, replies, endpoints) ==
    [mode |-> mode, order |-> order, bodies |-> bodies, cancellable |-> cancellable,
     replies |-> replies, endpoints |-> endpoints]
NoBodies == <<"none", "none">>

\* Two requests at a time, over connections that are kept or not.
Together ==
    World("plain", FALSE, NoBodies, {}, {Reply("keep", "zero")}, 1)
\* One at a time, with everything a response may be.
Ordered ==
    World("plain", TRUE, NoBodies, {2},
          {Reply("unsaid", "zero"), Reply("close", "sized"), Reply("unsaid", "chunked"),
           Reply("unsaid", "eof"), Unknown(Reply("unsaid", "zero")),
           Unknown(Reply("keep", "sized"))}, 1)
\* Names of two addresses.
Retried == World("plain", FALSE, NoBodies, {}, {Reply("unsaid", "zero")}, 2)
\* Bodies, with TLS.
Sent == World("ssl", TRUE, <<"sized", "chunked">>, {2}, {Reply("keep", "zero")}, 1)
SentBack == World("plain", TRUE, <<"chunked", "sized">>, {}, {Reply("unsaid", "zero")}, 1)
\* Through a proxy.
Tunnel == World("tunnel", TRUE, NoBodies, {1}, {Reply("unsaid", "zero")}, 2)

MCClients == {Together, Ordered, Retried, Sent, SentBack, Tunnel}
=============================================================================
