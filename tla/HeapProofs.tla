----------------------------- MODULE HeapProofs -----------------------------
(***************************************************************************)
(* links.Heap keeps its index arithmetic in bounds and implements the FIFO *)
(* queue, for every element type, initial capacity and size.               *)
(***************************************************************************)
EXTENDS Heap, SequenceTheorems, TLAPS

\* The capacity, start and size stay consistent through Put, Pop and grow.
THEOREM HeapTypeCorrect == Spec => []TypeOK
<1>1. Init => TypeOK
  BY HeapAssumption DEF Init, TypeOK
<1>2. TypeOK /\ [Next]_vars => TypeOK'
  <2> SUFFICES ASSUME TypeOK, [Next]_vars PROVE TypeOK'
    OBVIOUS
  <2> USE DEF TypeOK
  <2>1. ASSUME NEW e \in Elem, Put(e) PROVE TypeOK'
    <3>1. CASE cap = size /\ PutInto(Grown, 2 * cap, 0, e)
      <4>1. Grown \in [0..(2 * cap - 1) -> Elem \cup {Zero}]
        BY <3>1 DEF Grown
      <4>2. Wrap(0 + size, 2 * cap) \in 0..(2 * cap - 1)
        BY <3>1 DEF Wrap
      <4> QED BY <2>1, <3>1, <4>1, <4>2 DEF Put, PutInto
    <3>2. CASE cap # size /\ PutInto(vals, cap, sart, e)
      <4>1. Wrap(sart + size, cap) \in 0..(cap - 1)
        BY <3>2 DEF Wrap
      <4> QED BY <2>1, <3>2, <4>1 DEF Put, PutInto
    <3> QED BY <2>1, <3>1, <3>2 DEF Put
  <2>2. CASE Pop
    BY <2>2 DEF Pop, Wrap
  <2>3. CASE Peek
    BY <2>3 DEF Peek
  <2>4. CASE UNCHANGED vars
    BY <2>4 DEF vars
  <2> QED BY <2>1, <2>2, <2>3, <2>4 DEF Next
<1> QED BY <1>1, <1>2, PTL DEF Spec

\* What Content is, said in a form that can be primed.
ContentIsSeq == /\ Content \in Seq(Elem \cup {Zero})
                /\ Len(Content) = size
                /\ \A k \in 1..size : Content[k] = vals[Wrap(sart + k - 1, cap)]

\* The abstract queue is a sequence with one element per occupied slot.
LEMMA ContentSeq == TypeOK => ContentIsSeq
<1> SUFFICES ASSUME TypeOK PROVE ContentIsSeq
  OBVIOUS
<1>1. \A k \in 1..size : vals[Wrap(sart + k - 1, cap)] \in Elem \cup {Zero}
  BY DEF TypeOK, Wrap
<1>2. Content \in [1..size -> Elem \cup {Zero}]
  BY <1>1 DEF Content
<1>3. size \in Nat
  BY DEF TypeOK
<1>4. Content \in Seq(Elem \cup {Zero})
  BY <1>2, <1>3, SeqDef
<1>5. Len(Content) = size
  BY <1>2, <1>3, <1>4, LenProperties
<1> QED BY <1>4, <1>5 DEF Content, ContentIsSeq

\* A Put of the ring appends to the abstract queue, whether it grows or not.
LEMMA PutAppends ==
  ASSUME TypeOK, TypeOK', NEW e \in Elem, Put(e)
  PROVE  Content' = Append(Content, e)
<1> USE DEF TypeOK
<1>1. size' = size + 1
  BY DEF Put
<1>2. ASSUME NEW k \in 1..size
      PROVE  vals'[Wrap(sart' + k - 1, cap')] = vals[Wrap(sart + k - 1, cap)]
  <2>1. CASE cap = size /\ PutInto(Grown, 2 * cap, 0, e)
    <3>1. sart' = 0 /\ cap' = 2 * cap
      BY <2>1 DEF PutInto
    <3>2. Wrap(sart' + k - 1, cap') = k - 1
      BY <2>1, <3>1 DEF Wrap
    <3>3. vals'[k - 1] = Grown[k - 1]
      BY <2>1 DEF PutInto, Wrap, Grown
    <3>4. Grown[k - 1] = vals[Wrap(sart + k - 1, cap)]
      BY <2>1 DEF Grown, Wrap
    <3> QED BY <3>2, <3>3, <3>4
  <2>2. CASE cap # size /\ PutInto(vals, cap, sart, e)
    BY <2>2 DEF PutInto, Wrap
  <2> QED BY <2>1, <2>2 DEF Put
<1>3. vals'[Wrap(sart' + (size + 1) - 1, cap')] = e
  <2>1. CASE cap = size /\ PutInto(Grown, 2 * cap, 0, e)
    BY <2>1 DEF PutInto, Wrap, Grown
  <2>2. CASE cap # size /\ PutInto(vals, cap, sart, e)
    BY <2>2 DEF PutInto, Wrap
  <2> QED BY <2>1, <2>2 DEF Put
<1>4. ContentIsSeq /\ ContentIsSeq'
  BY ContentSeq, PTL
<1>5. ASSUME NEW k \in 1..(size + 1) PROVE Content'[k] = Append(Content, e)[k]
  <2>1. Content'[k] = vals'[Wrap(sart' + k - 1, cap')]
    BY <1>1, <1>4 DEF ContentIsSeq
  <2>2. CASE k \in 1..size
    <3>1. Append(Content, e)[k] = Content[k]
      BY <2>2, <1>4 DEF ContentIsSeq
    <3>2. Content[k] = vals[Wrap(sart + k - 1, cap)]
      BY <2>2, <1>4 DEF ContentIsSeq
    <3> QED BY <2>1, <2>2, <3>1, <3>2, <1>2
  <2>3. CASE k = size + 1
    <3>1. Append(Content, e)[k] = e
      <4>1. Append(Content, e)[Len(Content) + 1] = e
        <5> HIDE DEF Content
        <5>1. Content \in Seq(Elem \cup {Zero}) /\ e \in Elem \cup {Zero}
          BY <1>4 DEF ContentIsSeq
        <5> QED BY ONLY <5>1, AppendProperties
      <4> QED BY <2>3, <1>4, <4>1 DEF ContentIsSeq
    <3> QED BY <2>1, <2>3, <3>1, <1>3
  <2>4. k \in 1..size \/ k = size + 1
    OBVIOUS
  <2> QED BY <2>2, <2>3, <2>4
<1>6. Append(Content, e) \in Seq(Elem \cup {Zero}) /\ Len(Append(Content, e)) = size + 1
  BY <1>4 DEF ContentIsSeq
<1> QED BY <1>1, <1>4, <1>5, <1>6, SeqEqual DEF ContentIsSeq

\* A Pop of a non-empty ring removes the head of the abstract queue.
LEMMA PopTakesHead ==
  ASSUME TypeOK, TypeOK', Pop, size # 0
  PROVE  Content # <<>> /\ out' = Head(Content) /\ Content' = Tail(Content)
<1> USE DEF TypeOK
<1>1. ContentIsSeq /\ ContentIsSeq'
  BY ContentSeq, PTL
<1>2. Content # <<>> /\ Head(Content) = vals[sart]
  BY <1>1 DEF ContentIsSeq, Wrap
<1>3. size' = size - 1 /\ vals' = vals /\ cap' = cap /\ out' = vals[sart]
  BY DEF Pop
<1>4. ASSUME NEW k \in 1..(size - 1)
      PROVE  Wrap(sart' + k - 1, cap) = Wrap(sart + (k + 1) - 1, cap)
  <2>1. sart' = IF sart + 1 >= cap THEN sart + 1 - cap ELSE sart + 1
    BY DEF Pop, Wrap
  <2>2. sart \in Nat /\ cap \in Nat /\ k \in Nat /\ k >= 1 /\ k < cap /\ sart < cap
    OBVIOUS
  <2> QED BY <2>1, <2>2 DEF Wrap
<1>5. /\ Tail(Content) \in Seq(Elem \cup {Zero})
      /\ Len(Tail(Content)) = size - 1
      /\ \A k \in 1..(size - 1) : Tail(Content)[k] = Content[k + 1]
  BY <1>1, <1>2, HeadTailProperties DEF ContentIsSeq
<1>6. ASSUME NEW k \in 1..(size - 1) PROVE Content'[k] = Tail(Content)[k]
  <2>1. Content'[k] = vals[Wrap(sart' + k - 1, cap)]
    BY <1>1, <1>3 DEF ContentIsSeq
  <2>2. Content[k + 1] = vals[Wrap(sart + (k + 1) - 1, cap)]
    BY <1>1 DEF ContentIsSeq
  <2> QED BY <2>1, <2>2, <1>4, <1>5
<1> QED BY <1>1, <1>2, <1>3, <1>5, <1>6, SeqEqual DEF ContentIsSeq

\* The ring buffer implements the unbounded FIFO queue: whatever mix of wraps
\* and growth, Pop and Peek return what the queue would.
THEOREM HeapImplementsFifo == Spec => ImplementsFifo
<1>1. Init => Queue!Init
  BY HeapAssumption DEF Init, Queue!Init, Content
<1>2. TypeOK /\ TypeOK' /\ [Next]_vars => [Queue!Next]_(Queue!vars)
  <2> SUFFICES ASSUME TypeOK, TypeOK', [Next]_vars
               PROVE  Queue!Next \/ UNCHANGED <<Content, out>>
    BY DEF Queue!vars
  <2>0. ContentIsSeq
    BY ContentSeq
  <2>1. ASSUME NEW e \in Elem, Put(e) PROVE Queue!Next
    BY <2>1, PutAppends DEF Queue!Next, Queue!Put, Put
  <2>2. CASE Pop
    <3>1. CASE size = 0
      <4>1. Content = <<>> /\ Content' = Content
        BY <2>2, <3>1 DEF Pop, Content
      <4> QED BY <2>2, <3>1, <4>1 DEF Pop, Queue!Next, Queue!Pop
    <3>2. CASE size # 0
      BY <2>2, <3>2, PopTakesHead DEF Queue!Next, Queue!Pop
    <3> QED BY <3>1, <3>2
  <2>3. CASE Peek
    <3>1. Content' = Content
      BY <2>3 DEF Peek, Content
    <3>2. size = 0 => Content = <<>>
      BY DEF Content
    <3>3. size # 0 => Content # <<>> /\ Head(Content) = vals[sart]
      BY <2>0 DEF ContentIsSeq, TypeOK, Wrap
    <3> QED BY <2>3, <3>1, <3>2, <3>3 DEF Peek, Queue!Next, Queue!Peek
  <2>4. CASE UNCHANGED vars
    BY <2>4 DEF vars, Content
  <2> QED BY <2>1, <2>2, <2>3, <2>4 DEF Next
<1> QED BY <1>1, <1>2, HeapTypeCorrect, PTL DEF Spec, ImplementsFifo, Queue!Spec
=============================================================================
