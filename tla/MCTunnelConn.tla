---------------------------- MODULE MCTunnelConn ----------------------------
EXTENDS TunnelConn, TLC

CONSTANTS c, s

\* fatun.Client runs an uplink and a downlink service; on the fatun.Server a
\* conn is first used by serveConn, which receives.
CallsFatun == (c :> {"recv", "send"}) @@ (s :> {"recv"})

\* Two packets to the server.
Uplink == (c :> 2) @@ (s :> 0)
=============================================================================
