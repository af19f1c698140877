---------------------------- MODULE MCPacketPath ----------------------------
(***************************************************************************)
(* Bytes of three bits.  Every place of the MSS option in eight bytes of   *)
(* options, and options that are malformed, cut off or of length zero.     *)
(***************************************************************************)
EXTENDS PacketPath, TLC

CONSTANTS c1, c2

Addrs == c1 :> 33 @@ c2 :> 34
Once == c1 :> 1 @@ c2 :> 0

\* The MSS option at offset k of eight bytes; NOPs before it, or one option of
\* length k; the byte after it takes part in the sum when k is odd.
Padded(k, pre, hi, lo, next) ==
  [bytes |-> pre \o <<2, 4, hi, lo>> \o [j \in 1..(4 - k) |-> next], mss |-> k]

Values == {<<0, 5>>, <<1, 3>>, <<7, 7>>}

MssOptions ==
  {Padded(k, [j \in 1..k |-> 1], v[1], v[2], 1) : k \in 0..4, v \in Values}
  \cup {Padded(3, <<5, 3, 7>>, v[1], v[2], 0) : v \in Values}

\* No MSS option: none at all, hidden behind EOL, of a wrong length, cut off,
\* behind an option that is cut off, and behind one of length zero.
OtherOptions ==
  {[bytes |-> b, mss |-> None] : b \in
     {<<>>, <<1, 0, 2, 4, 3, 3, 1, 1>>, <<2, 3, 7, 7>>, <<1, 1, 2, 4>>, <<1, 1, 1, 5>>, <<5, 0, 2, 4, 7, 7, 1, 1>>}}

Bodies == {0, 9, 62}

Packet(c, proto, dst, options, body, name) ==
  [client |-> c, proto |-> proto, sport |-> 5, dst |-> dst, dport |-> 50,
   options |-> options, body |-> body, name |-> name]

Plain == [bytes |-> <<>>, mss |-> None]

\* Both clients use the same process port and the same remotes.
Sent ==
  {Packet(c, 6, 8, o, b, "game") : c \in Clients, o \in MssOptions \cup OtherOptions, b \in Bodies}
  \cup {Packet(c, 17, d, Plain, b, "game") : c \in Clients, d \in {8, 13}, b \in Bodies}
  \cup {Packet(c, 6, 13, Plain, 0, "other") : c \in Clients}
  \cup {Packet(c, 17, 60, Plain, 0, "game") : c \in Clients}

Answers == {[proto |-> 6, options |-> o, body |-> b] : o \in MssOptions \cup OtherOptions, b \in Bodies}
           \cup {[proto |-> 17, options |-> Plain, body |-> b] : b \in Bodies}

\* ssh, the tunnel's own port, strays, and ICMP.
Others == {[proto |-> p, src |-> 8, sport |-> 50, dport |-> d] : p \in {1, 6, 17}, d \in {20, 22, 31, 62}}

Skip == 6 :> <<22, 20, 22>> @@ 17 :> <<31>>
=============================================================================
