----------------------------- MODULE MCLinkList -----------------------------
EXTENDS LinkList

CONSTANTS r1, r2, d1, d2

\* The server: one reader per tunnel, each for its own address.
FilterServer == [r \in Readers |-> IF r = r1 THEN {d1} ELSE {d2}]

\* The client: one tunnel, and every packet is for its remote address.
FilterClient == [r \in Readers |-> Dsts]
=============================================================================
