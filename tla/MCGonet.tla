------------------------------ MODULE MCGonet ------------------------------
(***************************************************************************)
(* A reader under several deadlines; two readers; two writers that compete *)
(* for the room; a UDP conn; and two acceptors with one listener.          *)
(***************************************************************************)
EXTENDS Gonet, TLC

CONSTANTS r1, r2, w1, w2, a1, a2, p1, p2

Use(o, who, rcv, n) == [obj |-> o, who |-> who, rcv |-> rcv, sets |-> n]
UsesAll == {Use("tcp", {r1}, 1, 3), Use("tcp", {r1, r2}, 2, 2), Use("tcp", {w1, w2}, 0, 1),
            Use("udp", {r1, r2}, 2, 2), Use("udp", {w1, w2}, 0, 1), Use("listener", {a1, a2}, 2, 0)}
=============================================================================
