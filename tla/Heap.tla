-------------------------------- MODULE Heap --------------------------------
(***************************************************************************)
(* links.Heap (src/links/links.go): a growable ring buffer.  `vals' is the *)
(* backing array of length `cap', `sart' the index of the oldest element   *)
(* and `size' the number of stored elements (the source's field names).    *)
(* Slots are never cleared by Pop, so stale values stay in the array.      *)
(***************************************************************************)
EXTENDS Naturals

CONSTANTS Elem,      \* the values a caller puts
          Zero,      \* *new(T)
          InitCap,   \* NewHeap's argument; the link manager passes 64
          MaxSize    \* bound on the number of stored elements

ASSUME HeapAssumption == /\ InitCap \in Nat \ {0}
                         /\ MaxSize \in Nat

VARIABLES vals, cap, sart, size, out

vars == <<vals, cap, sart, size, out>>

\* Mutant of Wrap: the index is compared with > instead of >=.
WrapLate(i, n) == IF i > n THEN i - n ELSE i

\* The source subtracts the length once instead of taking a remainder.
Wrap(i, n) == IF i >= n THEN i - n ELSE i

Init == /\ vals = [i \in 0..(InitCap - 1) |-> Zero]
        /\ cap = InitCap
        /\ sart = 0
        /\ size = 0
        /\ out = Zero

\* Mutant of Grown: the array is copied as it lies, without rotating it.
GrownUnrotated == [i \in 0..(2 * cap - 1) |-> IF i < cap THEN vals[i] ELSE Zero]

\* The array grow() allocates: the part from sart on first, then the wrapped part.
Grown == [i \in 0..(2 * cap - 1) |->
            IF i < cap - sart THEN vals[sart + i]
            ELSE IF i < size THEN vals[i - (cap - sart)]
            ELSE Zero]

PutInto(arr, n, s, e) == /\ vals' = [arr EXCEPT ![Wrap(s + size, n)] = e]
                         /\ cap' = n
                         /\ sart' = s

Put(e) == /\ size < MaxSize
          /\ \/ cap = size /\ PutInto(Grown, 2 * cap, 0, e)
             \/ cap # size /\ PutInto(vals, cap, sart, e)
          /\ size' = size + 1
          /\ UNCHANGED out

Pop == \/ /\ size = 0
          /\ out' = Zero
          /\ UNCHANGED <<vals, cap, sart, size>>
       \/ /\ size # 0
          /\ out' = vals[sart]
          /\ size' = size - 1
          /\ sart' = Wrap(sart + 1, cap)
          /\ UNCHANGED <<vals, cap>>

Peek == /\ out' = IF size = 0 THEN Zero ELSE vals[sart]
        /\ UNCHANGED <<vals, cap, sart, size>>

Next == (\E e \in Elem : Put(e)) \/ Pop \/ Peek

Spec == Init /\ [][Next]_vars

(***************************************************************************)
(* Properties.                                                             *)
(***************************************************************************)

\* Type invariant: the start index stays inside the backing array and the
\* number of elements never exceeds its length (Put, Pop and grow).
TypeOK == /\ cap \in Nat \ {0}
          /\ vals \in [0..(cap - 1) -> Elem \cup {Zero}]
          /\ sart \in 0..(cap - 1)
          /\ size \in 0..cap
          /\ out \in Elem \cup {Zero}

\* The queue the ring buffer stands for, oldest element first.
Content == [k \in 1..size |-> vals[Wrap(sart + k - 1, cap)]]

Queue == INSTANCE Fifo WITH q <- Content

\* Refinement: through any mix of wrap-around and growth the ring buffer
\* returns exactly what an unbounded FIFO queue returns.
ImplementsFifo == Queue!Spec
=============================================================================
