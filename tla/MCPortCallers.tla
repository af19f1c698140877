---------------------------- MODULE MCPortCallers ----------------------------
(***************************************************************************)
(* ports.Adapter for TLC: two or three callers, two local ports.           *)
(***************************************************************************)
EXTENDS PortCallers

CONSTANTS tcp, udp, icmp, r1, r2, r3, c1, c2, c3

\* No two callers ever ask for the same (protocol, remote) pair.
WantDistinct == [c \in Callers |->
                   CASE c = c1 -> {<<tcp, r1>>}
                     [] c = c2 -> {<<tcp, r2>>, <<udp, r1>>}
                     [] OTHER  -> {<<tcp, r3>>, <<icmp, r1>>}]

\* Two clients of the proxy server ask for the same remote.
WantShared == [c \in Callers |-> {<<tcp, r1>>, <<tcp, r2>>}]
=============================================================================
