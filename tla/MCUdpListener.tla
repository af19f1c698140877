---------------------------- MODULE MCUdpListener ----------------------------
EXTENDS UdpListener, TLC

\* Services, peers and buffers are interchangeable.
UdpSymmetry == Permutations(Services) \cup Permutations(Peers) \cup Permutations(Segs)
=============================================================================
