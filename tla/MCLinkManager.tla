--------------------------- MODULE MCLinkManager ---------------------------
(***************************************************************************)
(* The server's link management for TLC: one or two client connections.    *)
(***************************************************************************)
EXTENDS LinkManager

CONSTANTS tcp, udp, ipA, ipB, x, y, r1, r2, c1, c2

Up(ip, pport, proto, server) ==
  [proc |-> <<ip, pport>>, proto |-> proto, server |-> server]

\* One client: two processes talk to r1, so they need two local ports; the
\* flow to r2 can share either.
SendsSingle == [c \in Conns |->
  {Up(ipA, x, tcp, r1), Up(ipA, y, tcp, r1), Up(ipA, x, tcp, r2)}]

\* Two tunnels from behind one address: a flow of c2 has the very Uplink of a
\* flow of c1, and a second flow of c1 shares its local port.
SendsShared == [c \in Conns |->
  IF c = c1 THEN {Up(ipA, x, tcp, r1), Up(ipA, x, tcp, r2)}
            ELSE {Up(ipA, x, tcp, r1)}]

\* Two clients behind different addresses, both with a flow to r1; the flow of
\* c1 to r2 can share the local port of either.
SendsApart == [c \in Conns |->
  IF c = c1 THEN {Up(ipA, x, tcp, r1), Up(ipA, x, tcp, r2)} ELSE {Up(ipB, x, tcp, r1)}]
=============================================================================
