------------------------------- MODULE MCHeap -------------------------------
(***************************************************************************)
(* links.Heap for TLC.  A ring that starts with one slot grows three times *)
(* before MaxSize, from every position of `sart'.                          *)
(***************************************************************************)
EXTENDS Heap
=============================================================================
