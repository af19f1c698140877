-------------------------------- MODULE Fifo --------------------------------
(***************************************************************************)
(* What links.Heap promises its only user, the ttl queue of the link       *)
(* manager: despite its name it is an unbounded first-in first-out queue.  *)
(* `out' is the value the last Pop or Peek returned; on an empty queue     *)
(* both return the zero value of the element type.                         *)
(***************************************************************************)
EXTENDS Sequences

CONSTANTS Elem,   \* the values a caller puts
          Zero    \* *new(T), the zero value of the element type

VARIABLES q, out

vars == <<q, out>>

Init == q = <<>> /\ out = Zero

Put(e) == q' = Append(q, e) /\ UNCHANGED out

Pop == \/ q = <<>> /\ out' = Zero /\ UNCHANGED q
       \/ q # <<>> /\ out' = Head(q) /\ q' = Tail(q)

Peek == /\ out' = IF q = <<>> THEN Zero ELSE Head(q)
        /\ UNCHANGED q

Next == (\E e \in Elem : Put(e)) \/ Pop \/ Peek

Spec == Init /\ [][Next]_vars
=============================================================================
