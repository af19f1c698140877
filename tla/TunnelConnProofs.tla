--------------------------- MODULE TunnelConnProofs ---------------------------
(***************************************************************************)
(* The two ends of a tunnel for any bounds on the packets sent and lost,   *)
(* any capacity of handshakeRecvedPackets and any set of calls.            *)
(***************************************************************************)
EXTENDS TunnelConn, SequenceTheorems, FiniteSetTheorems, TLAPS

(***************************************************************************)
(* The data packets on their way to one side: q on the network, p kept by  *)
(* the handshake, g returned by Recv, out of s that were sent.             *)
(***************************************************************************)

Packet == [kind : {"syn", "synack", "ack", "probe", "data"}, n : Nat]

\* All of them were sent; the network and the handshake keep them in order, and
\* what the handshake kept was sent before what is on its way.
Flow(q, p, g, s) ==
  /\ \A i \in 1..Len(q) : ~IsBuiltin(q[i]) => q[i].n \in 1..s
  /\ \A i \in 1..Len(p) : p[i] \in 1..s
  /\ \A i \in 1..Len(g) : g[i] \in 1..s
  /\ \A i, j \in 1..Len(q) : i < j /\ ~IsBuiltin(q[i]) /\ ~IsBuiltin(q[j]) => q[i].n < q[j].n
  /\ Increasing(p)
  /\ \A i \in 1..Len(p), j \in 1..Len(q) : ~IsBuiltin(q[j]) => p[i] < q[j].n

\* What was returned was sent before all the others.
Order(q, p, g) ==
  /\ Increasing(g)
  /\ \A i \in 1..Len(g), j \in 1..Len(p) : g[i] < p[j]
  /\ \A i \in 1..Len(g), j \in 1..Len(q) : ~IsBuiltin(q[j]) => g[i] < q[j].n

\* Packet m is in one of the three places.
Somewhere(m, q, p, g) ==
  \/ \E i \in 1..Len(g) : g[i] = m
  \/ \E i \in 1..Len(p) : p[i] = m
  \/ \E i \in 1..Len(q) : ~IsBuiltin(q[i]) /\ q[i].n = m

\* A TCP packet joins the network.
LEMMA TcpJoins ==
  ASSUME NEW q \in Seq(Packet), NEW p \in Seq(Nat), NEW g \in Seq(Nat), NEW s \in Nat,
         NEW b \in Packet, IsBuiltin(b), Flow(q, p, g, s)
  PROVE  LET r == Append(q, b) IN
         /\ Flow(r, p, g, s)
         /\ Order(q, p, g) => Order(r, p, g)
         /\ \A m \in Nat : Somewhere(m, r, p, g) <=> Somewhere(m, q, p, g)
<1> DEFINE r == Append(q, b)
<1>1. /\ r \in Seq(Packet) /\ Len(r) = Len(q) + 1
      /\ \A i \in 1..Len(q) : r[i] = q[i]
      /\ r[Len(q) + 1] = b
  BY AppendProperties
<1>2. Len(q) \in Nat /\ Len(p) \in Nat /\ Len(g) \in Nat
  OBVIOUS
<1> HIDE DEF r
<1>3. \A i \in 1..Len(r) : ~IsBuiltin(r[i]) => i \in 1..Len(q) /\ r[i] = q[i]
  BY <1>1, <1>2
<1>4. \A i \in 1..Len(q) : i \in 1..Len(r)
  BY <1>1, <1>2
<1>5. Flow(r, p, g, s)
  BY <1>3 DEF Flow
<1>6. Order(q, p, g) => Order(r, p, g)
  BY <1>3 DEF Order
<1>7. \A m \in Nat : Somewhere(m, r, p, g) <=> Somewhere(m, q, p, g)
  BY <1>1, <1>3, <1>4 DEF Somewhere
<1> QED BY <1>5, <1>6, <1>7 DEF r

\* The next data packet joins it.
LEMMA DataJoins ==
  ASSUME NEW q \in Seq(Packet), NEW p \in Seq(Nat), NEW g \in Seq(Nat), NEW s \in Nat,
         Flow(q, p, g, s)
  PROVE  LET r == Append(q, Data(s + 1)) IN
         /\ Flow(r, p, g, s + 1)
         /\ Order(q, p, g) => Order(r, p, g)
         /\ \A m \in Nat : Somewhere(m, r, p, g) <=> Somewhere(m, q, p, g) \/ m = s + 1
<1> DEFINE r == Append(q, Data(s + 1))
<1>1. Data(s + 1) \in Packet /\ ~IsBuiltin(Data(s + 1)) /\ Data(s + 1).n = s + 1
  BY DEF Data, Packet, IsBuiltin
<1>2. /\ r \in Seq(Packet) /\ Len(r) = Len(q) + 1
      /\ \A i \in 1..Len(q) : r[i] = q[i]
      /\ r[Len(q) + 1] = Data(s + 1)
  BY <1>1, AppendProperties
<1>3. Len(q) \in Nat /\ Len(p) \in Nat /\ Len(g) \in Nat
  OBVIOUS
<1> HIDE DEF r
<1>4. \A i \in 1..Len(r) : \/ i \in 1..Len(q) /\ r[i] = q[i]
                           \/ i = Len(q) + 1 /\ ~IsBuiltin(r[i]) /\ r[i].n = s + 1
  BY <1>1, <1>2, <1>3
<1>5. \A i \in 1..Len(q) : i \in 1..Len(r) /\ r[i] = q[i]
  BY <1>2, <1>3
<1>6. Len(q) + 1 \in 1..Len(r) /\ ~IsBuiltin(r[Len(q) + 1]) /\ r[Len(q) + 1].n = s + 1
  BY <1>1, <1>2, <1>3
<1>7. Flow(r, p, g, s + 1)
  <2>1. ASSUME NEW i \in 1..Len(r), ~IsBuiltin(r[i]) PROVE r[i].n \in 1..(s + 1)
    <3>1. CASE i \in 1..Len(q) /\ r[i] = q[i]
      <4>1. q[i].n \in 1..s
        BY <2>1, <3>1 DEF Flow
      <4> QED BY <3>1, <4>1
    <3>2. CASE r[i].n = s + 1
      BY <3>2
    <3> QED BY <1>4, <3>1, <3>2
  <2>2. \A i \in 1..Len(p) : p[i] \in 1..(s + 1)
    BY DEF Flow
  <2>3. \A i \in 1..Len(g) : g[i] \in 1..(s + 1)
    BY DEF Flow
  <2>4. \A i, j \in 1..Len(r) : i < j /\ ~IsBuiltin(r[i]) /\ ~IsBuiltin(r[j]) => r[i].n < r[j].n
    <3> SUFFICES ASSUME NEW i \in 1..Len(r), NEW j \in 1..Len(r), i < j,
                        ~IsBuiltin(r[i]), ~IsBuiltin(r[j])
                 PROVE  r[i].n < r[j].n
      OBVIOUS
    <3>1. i \in 1..Len(q) /\ r[i] = q[i] /\ q[i].n \in 1..s
      BY <1>2, <1>3, <1>4 DEF Flow
    <3>2. CASE j \in 1..Len(q) /\ r[j] = q[j]
      BY <3>1, <3>2 DEF Flow
    <3>3. CASE r[j].n = s + 1
      BY <3>1, <3>3
    <3> QED BY <1>4, <3>2, <3>3
  <2>5. ASSUME NEW i \in 1..Len(p), NEW j \in 1..Len(r), ~IsBuiltin(r[j]) PROVE p[i] < r[j].n
    <3>1. p[i] \in 1..s
      BY DEF Flow
    <3>2. CASE j \in 1..Len(q) /\ r[j] = q[j]
      BY <2>5, <3>2 DEF Flow
    <3> QED BY <1>4, <3>1, <3>2
  <2> QED BY <2>1, <2>2, <2>3, <2>4, <2>5 DEF Flow
<1>8. Order(q, p, g) => Order(r, p, g)
  <2> SUFFICES ASSUME Order(q, p, g), NEW i \in 1..Len(g), NEW j \in 1..Len(r), ~IsBuiltin(r[j])
               PROVE  g[i] < r[j].n
    BY DEF Order
  <2>1. g[i] \in 1..s
    BY DEF Flow
  <2>2. CASE j \in 1..Len(q) /\ r[j] = q[j]
    BY <2>2 DEF Order
  <2> QED BY <1>4, <2>1, <2>2
<1>9. \A m \in Nat : Somewhere(m, r, p, g) <=> Somewhere(m, q, p, g) \/ m = s + 1
  BY <1>4, <1>5, <1>6 DEF Somewhere
<1> QED BY <1>7, <1>8, <1>9 DEF r

\* The network gives up its first packet, which goes nowhere: a TCP packet goes to
\* the stack, a data packet is gone.
LEMMA FirstGoes ==
  ASSUME NEW q \in Seq(Packet), NEW p \in Seq(Nat), NEW g \in Seq(Nat), NEW s \in Nat,
         Len(q) > 0, Flow(q, p, g, s)
  PROVE  LET r == Tail(q) IN
         /\ r \in Seq(Packet) /\ Flow(r, p, g, s)
         /\ Order(q, p, g) => Order(r, p, g)
         /\ IsBuiltin(Head(q)) =>
              \A m \in Nat : Somewhere(m, r, p, g) <=> Somewhere(m, q, p, g)
<1> DEFINE r == Tail(q)
<1>1. /\ r \in Seq(Packet) /\ Len(r) = Len(q) - 1 /\ Head(q) = q[1]
      /\ \A i \in 1..(Len(q) - 1) : r[i] = q[i + 1]
  BY HeadTailProperties, ElementOfSeq
<1>2. Len(q) \in Nat /\ Len(p) \in Nat /\ Len(g) \in Nat
  OBVIOUS
<1> HIDE DEF r
<1>3. \A i \in 1..Len(r) : i + 1 \in 1..Len(q) /\ r[i] = q[i + 1]
  BY <1>1, <1>2
<1>4. \A i \in 1..Len(q) : i = 1 \/ (i - 1 \in 1..Len(r) /\ r[i - 1] = q[i])
  <2> SUFFICES ASSUME NEW i \in 1..Len(q), i # 1 PROVE i - 1 \in 1..Len(r) /\ r[i - 1] = q[i]
    OBVIOUS
  <2>1. i - 1 \in 1..Len(r) /\ (i - 1) + 1 = i
    BY <1>1, <1>2
  <2> QED BY <1>3, <2>1
<1>5. Flow(r, p, g, s)
  <2>1. \A i, j \in 1..Len(r) : i < j /\ ~IsBuiltin(r[i]) /\ ~IsBuiltin(r[j]) => r[i].n < r[j].n
    <3> SUFFICES ASSUME NEW i \in 1..Len(r), NEW j \in 1..Len(r), i < j,
                        ~IsBuiltin(r[i]), ~IsBuiltin(r[j])
                 PROVE  r[i].n < r[j].n
      OBVIOUS
    <3>1. i + 1 \in 1..Len(q) /\ j + 1 \in 1..Len(q) /\ i + 1 < j + 1
          /\ r[i] = q[i + 1] /\ r[j] = q[j + 1]
      BY <1>3
    <3> QED BY <3>1 DEF Flow
  <2> QED BY <1>3, <2>1 DEF Flow
<1>6. Order(q, p, g) => Order(r, p, g)
  BY <1>3 DEF Order
<1>7. ASSUME IsBuiltin(Head(q)), NEW m \in Nat PROVE Somewhere(m, r, p, g) <=> Somewhere(m, q, p, g)
  <2>1. (\E i \in 1..Len(r) : ~IsBuiltin(r[i]) /\ r[i].n = m)
          <=> (\E i \in 1..Len(q) : ~IsBuiltin(q[i]) /\ q[i].n = m)
    BY <1>1, <1>3, <1>4, <1>7
  <2> QED BY <2>1 DEF Somewhere
<1> QED BY <1>1, <1>5, <1>6, <1>7 DEF r

\* The handshake keeps the first packet of the network.
LEMMA FirstKept ==
  ASSUME NEW q \in Seq(Packet), NEW p \in Seq(Nat), NEW g \in Seq(Nat), NEW s \in Nat,
         Len(q) > 0, ~IsBuiltin(Head(q)), Flow(q, p, g, s)
  PROVE  LET r == Tail(q)  t == Append(p, Head(q).n) IN
         /\ t \in Seq(Nat) /\ Flow(r, t, g, s)
         /\ Order(q, p, g) => Order(r, t, g)
         /\ \A m \in Nat : Somewhere(m, r, t, g) <=> Somewhere(m, q, p, g)
<1> DEFINE r == Tail(q)
           h == Head(q).n
           t == Append(p, h)
<1>1. /\ r \in Seq(Packet) /\ Len(r) = Len(q) - 1 /\ Head(q) = q[1] /\ Head(q) \in Packet
      /\ \A i \in 1..(Len(q) - 1) : r[i] = q[i + 1]
  BY HeadTailProperties, ElementOfSeq
<1>2. Len(q) \in Nat /\ Len(p) \in Nat /\ Len(g) \in Nat
  OBVIOUS
<1>3. h \in Nat /\ h = q[1].n /\ ~IsBuiltin(q[1]) /\ 1 \in 1..Len(q)
  BY <1>1, <1>2 DEF Packet
<1> HIDE DEF r, h
<1>4. /\ t \in Seq(Nat) /\ Len(t) = Len(p) + 1
      /\ \A i \in 1..Len(p) : t[i] = p[i]
      /\ t[Len(p) + 1] = h
  BY <1>3, AppendProperties
<1> HIDE DEF t
<1>5. \A i \in 1..Len(r) : i + 1 \in 1..Len(q) /\ r[i] = q[i + 1] /\ 1 < i + 1
  BY <1>1, <1>2
<1>6. \A i \in 1..Len(q) : i = 1 \/ (i - 1 \in 1..Len(r) /\ r[i - 1] = q[i])
  <2> SUFFICES ASSUME NEW i \in 1..Len(q), i # 1 PROVE i - 1 \in 1..Len(r) /\ r[i - 1] = q[i]
    OBVIOUS
  <2>1. i - 1 \in 1..Len(r) /\ (i - 1) + 1 = i
    BY <1>1, <1>2
  <2> QED BY <1>5, <2>1
<1>7. \A i \in 1..Len(t) : (i \in 1..Len(p) /\ t[i] = p[i]) \/ (i = Len(p) + 1 /\ t[i] = h)
  BY <1>2, <1>4
<1>8. \A i \in 1..Len(p) : i \in 1..Len(t) /\ t[i] = p[i]
  BY <1>2, <1>4
<1>9. Flow(r, p, g, s) /\ (Order(q, p, g) => Order(r, p, g))
  BY FirstGoes DEF r
<1>10. h \in 1..s
  BY <1>3 DEF Flow
<1>11. \A i \in 1..Len(p) : p[i] < h
  BY <1>3 DEF Flow
<1>12. \A j \in 1..Len(r) : ~IsBuiltin(r[j]) => h < r[j].n
  <2> SUFFICES ASSUME NEW j \in 1..Len(r), ~IsBuiltin(r[j]) PROVE h < r[j].n
    OBVIOUS
  <2>1. j + 1 \in 1..Len(q) /\ r[j] = q[j + 1] /\ 1 < j + 1
    BY <1>5
  <2> QED BY <1>3, <2>1 DEF Flow
<1>13. Flow(r, t, g, s)
  <2>1. \A i \in 1..Len(t) : t[i] \in 1..s
    BY <1>7, <1>10 DEF Flow
  <2>2. ASSUME NEW i \in 1..Len(t), NEW j \in 1..Len(t), i < j PROVE t[i] < t[j]
    <3>1. i \in 1..Len(p) /\ t[i] = p[i]
      BY <1>2, <1>4, <1>7, <2>2
    <3>2. CASE j \in 1..Len(p) /\ t[j] = p[j]
      BY <2>2, <3>1, <3>2 DEF Flow, Increasing
    <3>3. CASE t[j] = h
      BY <1>11, <3>1, <3>3
    <3> QED BY <1>7, <3>2, <3>3
  <2>3. ASSUME NEW i \in 1..Len(t), NEW j \in 1..Len(r), ~IsBuiltin(r[j]) PROVE t[i] < r[j].n
    <3>1. CASE i \in 1..Len(p) /\ t[i] = p[i]
      BY <1>9, <2>3, <3>1 DEF Flow
    <3> QED BY <1>7, <1>12, <2>3, <3>1
  <2> QED BY <1>9, <2>1, <2>2, <2>3 DEF Flow, Increasing
<1>14. ASSUME Order(q, p, g) PROVE Order(r, t, g)
  <2>1. ASSUME NEW i \in 1..Len(g), NEW j \in 1..Len(t) PROVE g[i] < t[j]
    <3>1. g[i] < h
      BY <1>3, <1>14 DEF Order
    <3>2. CASE j \in 1..Len(p) /\ t[j] = p[j]
      BY <1>14, <3>2 DEF Order
    <3> QED BY <1>7, <3>1, <3>2
  <2> QED BY <1>9, <1>14, <2>1 DEF Order
<1>15. ASSUME NEW m \in Nat PROVE Somewhere(m, r, t, g) <=> Somewhere(m, q, p, g)
  <2>1. (\E i \in 1..Len(t) : t[i] = m) <=> (\E i \in 1..Len(p) : p[i] = m) \/ m = h
    <3>1. Len(p) + 1 \in 1..Len(t)
      BY <1>2, <1>4
    <3> QED BY <1>4, <1>7, <1>8, <3>1
  <2>2. (\E i \in 1..Len(q) : ~IsBuiltin(q[i]) /\ q[i].n = m)
          <=> (\E i \in 1..Len(r) : ~IsBuiltin(r[i]) /\ r[i].n = m) \/ m = h
    BY <1>3, <1>5, <1>6
  <2> QED BY <2>1, <2>2 DEF Somewhere
<1> QED BY <1>4, <1>13, <1>14, <1>15 DEF r, t, h

\* Recv returns the first of those the handshake kept.
LEMMA KeptReturned ==
  ASSUME NEW q \in Seq(Packet), NEW p \in Seq(Nat), NEW g \in Seq(Nat), NEW s \in Nat,
         Len(p) > 0, Flow(q, p, g, s)
  PROVE  LET r == Tail(p)  t == Append(g, Head(p)) IN
         /\ r \in Seq(Nat) /\ Len(r) = Len(p) - 1 /\ t \in Seq(Nat) /\ Flow(q, r, t, s)
         /\ Order(q, p, g) => Order(q, r, t)
         /\ \A m \in Nat : Somewhere(m, q, r, t) <=> Somewhere(m, q, p, g)
<1> DEFINE r == Tail(p)
           h == Head(p)
           t == Append(g, h)
<1>1. /\ r \in Seq(Nat) /\ Len(r) = Len(p) - 1 /\ h = p[1] /\ h \in Nat
      /\ \A i \in 1..(Len(p) - 1) : r[i] = p[i + 1]
  BY HeadTailProperties, ElementOfSeq
<1>2. Len(q) \in Nat /\ Len(p) \in Nat /\ Len(g) \in Nat /\ 1 \in 1..Len(p)
  OBVIOUS
<1> HIDE DEF r, h
<1>3. /\ t \in Seq(Nat) /\ Len(t) = Len(g) + 1
      /\ \A i \in 1..Len(g) : t[i] = g[i]
      /\ t[Len(g) + 1] = h
  BY <1>1, AppendProperties
<1> HIDE DEF t
<1>4. \A i \in 1..Len(r) : i + 1 \in 1..Len(p) /\ r[i] = p[i + 1] /\ 1 < i + 1
  BY <1>1, <1>2
<1>5. \A i \in 1..Len(p) : i = 1 \/ (i - 1 \in 1..Len(r) /\ r[i - 1] = p[i])
  <2> SUFFICES ASSUME NEW i \in 1..Len(p), i # 1 PROVE i - 1 \in 1..Len(r) /\ r[i - 1] = p[i]
    OBVIOUS
  <2>1. i - 1 \in 1..Len(r) /\ (i - 1) + 1 = i
    BY <1>1, <1>2
  <2> QED BY <1>4, <2>1
<1>6. \A i \in 1..Len(t) : (i \in 1..Len(g) /\ t[i] = g[i]) \/ (i = Len(g) + 1 /\ t[i] = h)
  BY <1>2, <1>3
<1>7. \A i \in 1..Len(g) : i \in 1..Len(t) /\ t[i] = g[i]
  BY <1>2, <1>3
<1>8. h \in 1..s /\ \A j \in 1..Len(q) : ~IsBuiltin(q[j]) => h < q[j].n
  BY <1>1, <1>2 DEF Flow
<1>9. \A j \in 1..Len(r) : h < r[j]
  <2> SUFFICES ASSUME NEW j \in 1..Len(r) PROVE h < r[j]
    OBVIOUS
  <2>1. j + 1 \in 1..Len(p) /\ r[j] = p[j + 1] /\ 1 < j + 1
    BY <1>4
  <2> QED BY <1>1, <1>2, <2>1 DEF Flow, Increasing
<1>10. Flow(q, r, t, s)
  <2>1. \A i \in 1..Len(t) : t[i] \in 1..s
    BY <1>6, <1>8 DEF Flow
  <2>2. ASSUME NEW i \in 1..Len(r), NEW j \in 1..Len(r), i < j PROVE r[i] < r[j]
    <3>1. i + 1 \in 1..Len(p) /\ r[i] = p[i + 1]
      BY <1>4
    <3>2. j + 1 \in 1..Len(p) /\ r[j] = p[j + 1]
      BY <1>4
    <3>3. i + 1 < j + 1
      BY <2>2
    <3> QED BY <3>1, <3>2, <3>3 DEF Flow, Increasing
  <2>3. \A i \in 1..Len(r) : r[i] \in 1..s
    BY <1>4 DEF Flow
  <2>4. \A i \in 1..Len(r), j \in 1..Len(q) : ~IsBuiltin(q[j]) => r[i] < q[j].n
    BY <1>4 DEF Flow
  <2> QED BY <2>1, <2>2, <2>3, <2>4 DEF Flow, Increasing
<1>11. ASSUME Order(q, p, g) PROVE Order(q, r, t)
  <2>1. ASSUME NEW i \in 1..Len(t), NEW j \in 1..Len(t), i < j PROVE t[i] < t[j]
    <3>1. i \in 1..Len(g) /\ t[i] = g[i]
      <4>1. i # Len(g) + 1
        BY <1>2, <1>3, <2>1
      <4> QED BY <1>6, <4>1
    <3>2. CASE j \in 1..Len(g) /\ t[j] = g[j]
      BY <1>11, <2>1, <3>1, <3>2 DEF Order, Increasing
    <3>3. CASE t[j] = h
      BY <1>1, <1>2, <1>11, <3>1, <3>3 DEF Order
    <3> QED BY <1>6, <3>2, <3>3
  <2>2. ASSUME NEW i \in 1..Len(t), NEW j \in 1..Len(r) PROVE t[i] < r[j]
    <3>1. CASE i \in 1..Len(g) /\ t[i] = g[i]
      BY <1>4, <1>11, <3>1 DEF Order
    <3> QED BY <1>6, <1>9, <3>1
  <2>3. ASSUME NEW i \in 1..Len(t), NEW j \in 1..Len(q), ~IsBuiltin(q[j]) PROVE t[i] < q[j].n
    <3>1. CASE i \in 1..Len(g) /\ t[i] = g[i]
      BY <1>11, <2>3, <3>1 DEF Order
    <3> QED BY <1>6, <1>8, <2>3, <3>1
  <2> QED BY <2>1, <2>2, <2>3 DEF Order, Increasing
<1>12. ASSUME NEW m \in Nat PROVE Somewhere(m, q, r, t) <=> Somewhere(m, q, p, g)
  <2>1. (\E i \in 1..Len(t) : t[i] = m) <=> (\E i \in 1..Len(g) : g[i] = m) \/ m = h
    <3>1. Len(g) + 1 \in 1..Len(t)
      BY <1>2, <1>3
    <3> QED BY <1>3, <1>6, <1>7, <3>1
  <2>2. (\E i \in 1..Len(p) : p[i] = m) <=> (\E i \in 1..Len(r) : r[i] = m) \/ m = h
    BY <1>1, <1>2, <1>4, <1>5
  <2> QED BY <2>1, <2>2 DEF Somewhere
<1> QED BY <1>1, <1>3, <1>10, <1>11, <1>12 DEF r, t, h

\* Recv returns the first packet of the network; in order if nothing was kept.
LEMMA FirstReturned ==
  ASSUME NEW q \in Seq(Packet), NEW p \in Seq(Nat), NEW g \in Seq(Nat), NEW s \in Nat,
         Len(q) > 0, ~IsBuiltin(Head(q)), Flow(q, p, g, s)
  PROVE  LET r == Tail(q)  t == Append(g, Head(q).n) IN
         /\ t \in Seq(Nat) /\ Flow(r, p, t, s)
         /\ Order(q, p, g) /\ p = <<>> => Order(r, p, t)
         /\ \A m \in Nat : Somewhere(m, r, p, t) <=> Somewhere(m, q, p, g)
<1> DEFINE r == Tail(q)
           h == Head(q).n
           t == Append(g, h)
<1>1. /\ r \in Seq(Packet) /\ Len(r) = Len(q) - 1 /\ Head(q) = q[1] /\ Head(q) \in Packet
      /\ \A i \in 1..(Len(q) - 1) : r[i] = q[i + 1]
  BY HeadTailProperties, ElementOfSeq
<1>2. Len(q) \in Nat /\ Len(p) \in Nat /\ Len(g) \in Nat
  OBVIOUS
<1>3. h \in Nat /\ h = q[1].n /\ ~IsBuiltin(q[1]) /\ 1 \in 1..Len(q)
  BY <1>1, <1>2 DEF Packet
<1> HIDE DEF r, h
<1>4. /\ t \in Seq(Nat) /\ Len(t) = Len(g) + 1
      /\ \A i \in 1..Len(g) : t[i] = g[i]
      /\ t[Len(g) + 1] = h
  BY <1>3, AppendProperties
<1> HIDE DEF t
<1>5. \A i \in 1..Len(r) : i + 1 \in 1..Len(q) /\ r[i] = q[i + 1] /\ 1 < i + 1
  BY <1>1, <1>2
<1>6. \A i \in 1..Len(q) : i = 1 \/ (i - 1 \in 1..Len(r) /\ r[i - 1] = q[i])
  <2> SUFFICES ASSUME NEW i \in 1..Len(q), i # 1 PROVE i - 1 \in 1..Len(r) /\ r[i - 1] = q[i]
    OBVIOUS
  <2>1. i - 1 \in 1..Len(r) /\ (i - 1) + 1 = i
    BY <1>1, <1>2
  <2> QED BY <1>5, <2>1
<1>7. \A i \in 1..Len(t) : (i \in 1..Len(g) /\ t[i] = g[i]) \/ (i = Len(g) + 1 /\ t[i] = h)
  BY <1>2, <1>4
<1>8. \A i \in 1..Len(g) : i \in 1..Len(t) /\ t[i] = g[i]
  BY <1>2, <1>4
<1>9. Flow(r, p, g, s) /\ (Order(q, p, g) => Order(r, p, g))
  BY FirstGoes DEF r
<1>10. h \in 1..s
  BY <1>3 DEF Flow
<1>11. \A j \in 1..Len(r) : ~IsBuiltin(r[j]) => h < r[j].n
  <2> SUFFICES ASSUME NEW j \in 1..Len(r), ~IsBuiltin(r[j]) PROVE h < r[j].n
    OBVIOUS
  <2>1. j + 1 \in 1..Len(q) /\ r[j] = q[j + 1] /\ 1 < j + 1
    BY <1>5
  <2> QED BY <1>3, <2>1 DEF Flow
<1>12. Flow(r, p, t, s)
  <2>1. \A i \in 1..Len(t) : t[i] \in 1..s
    BY <1>7, <1>10 DEF Flow
  <2> QED BY <1>9, <2>1 DEF Flow
<1>13. ASSUME Order(q, p, g), p = <<>> PROVE Order(r, p, t)
  <2>1. ASSUME NEW i \in 1..Len(t), NEW j \in 1..Len(t), i < j PROVE t[i] < t[j]
    <3>1. i \in 1..Len(g) /\ t[i] = g[i]
      BY <1>2, <1>4, <1>7, <2>1
    <3>2. CASE j \in 1..Len(g) /\ t[j] = g[j]
      BY <1>13, <2>1, <3>1, <3>2 DEF Order, Increasing
    <3>3. CASE t[j] = h
      BY <1>3, <1>13, <3>1, <3>3 DEF Order
    <3> QED BY <1>7, <3>2, <3>3
  <2>2. ASSUME NEW i \in 1..Len(t), NEW j \in 1..Len(r), ~IsBuiltin(r[j]) PROVE t[i] < r[j].n
    <3>1. CASE i \in 1..Len(g) /\ t[i] = g[i]
      BY <1>9, <1>13, <2>2, <3>1 DEF Order
    <3> QED BY <1>7, <1>11, <2>2, <3>1
  <2>3. Len(p) = 0
    BY <1>13
  <2> QED BY <2>1, <2>2, <2>3 DEF Order, Increasing
<1>14. ASSUME NEW m \in Nat PROVE Somewhere(m, r, p, t) <=> Somewhere(m, q, p, g)
  <2>1. (\E i \in 1..Len(t) : t[i] = m) <=> (\E i \in 1..Len(g) : g[i] = m) \/ m = h
    <3>1. Len(g) + 1 \in 1..Len(t)
      BY <1>2, <1>4
    <3> QED BY <1>4, <1>7, <1>8, <3>1
  <2>2. (\E i \in 1..Len(q) : ~IsBuiltin(q[i]) /\ q[i].n = m)
          <=> (\E i \in 1..Len(r) : ~IsBuiltin(r[i]) /\ r[i].n = m) \/ m = h
    BY <1>3, <1>5, <1>6
  <2> QED BY <2>1, <2>2 DEF Somewhere
<1> QED BY <1>4, <1>12, <1>13, <1>14 DEF r, t, h

(***************************************************************************)
(* What a step does to the packets on their way to side y.                 *)
(***************************************************************************)

DataTypes ==
  /\ net \in [Sides -> Seq(Packet)]
  /\ pend \in [Sides -> Seq(Nat)] /\ got \in [Sides -> Seq(Nat)]
  /\ sent \in [Sides -> Nat]

\* The variables stay functions on the sides.
DataShapes ==
  /\ net' = [y \in Sides |-> net'[y]] /\ pend' = [y \in Sides |-> pend'[y]]
  /\ got' = [y \in Sides |-> got'[y]] /\ sent' = [y \in Sides |-> sent'[y]]

First(y) == Head(net[y])

Same(y) ==
  /\ net'[y] = net[y] /\ pend'[y] = pend[y] /\ got'[y] = got[y]
  /\ sent'[Other(y)] = sent[Other(y)]

\* A TCP packet leaves for y.
AddsTcp(y) ==
  /\ \E b \in Packet : IsBuiltin(b) /\ net'[y] = Append(net[y], b)
  /\ pend'[y] = pend[y] /\ got'[y] = got[y] /\ sent'[Other(y)] = sent[Other(y)]

\* The first packet is taken and is neither kept nor returned: it is TCP, or lost,
\* or handshakeRecvedPackets was full.
Drops(y) ==
  /\ Len(net[y]) > 0 /\ net'[y] = Tail(net[y])
  /\ pend'[y] = pend[y] /\ got'[y] = got[y] /\ sent'[Other(y)] = sent[Other(y)]
  /\ IsBuiltin(First(y)) \/ lost' = lost + 1 \/ Len(pend[y]) >= PendCap

\* handshakeInboundService keeps it.
Keeps(y) ==
  /\ Len(net[y]) > 0 /\ ~IsBuiltin(First(y)) /\ net'[y] = Tail(net[y])
  /\ hpc[y] = "read" /\ Len(pend[y]) < PendCap
  /\ pend'[y] = Append(pend[y], First(y).n)
  /\ got'[y] = got[y] /\ sent'[Other(y)] = sent[Other(y)]

\* Recv returns a packet that was kept.
Returns(y) ==
  /\ Len(pend[y]) > 0 /\ pc[y]["recv"] = "ready"
  /\ pend'[y] = Tail(pend[y]) /\ got'[y] = Append(got[y], Head(pend[y]))
  /\ net'[y] = net[y] /\ sent'[Other(y)] = sent[Other(y)]

\* Recv returns a packet of the network.
Receives(y) ==
  /\ Len(net[y]) > 0 /\ ~IsBuiltin(First(y)) /\ net'[y] = Tail(net[y])
  /\ pc[y]["recv"] = "read"
  /\ got'[y] = Append(got[y], First(y).n)
  /\ pend'[y] = pend[y] /\ sent'[Other(y)] = sent[Other(y)]

\* The other side sends one.
Sends(y) ==
  /\ net'[y] = Append(net[y], Data(sent[Other(y)] + 1))
  /\ sent'[Other(y)] = sent[Other(y)] + 1 /\ sent[Other(y)] < MaxData[Other(y)]
  /\ pc[Other(y)]["send"] = "ready"
  /\ pend'[y] = pend[y] /\ got'[y] = got[y]

DataStep(y) == Same(y) \/ AddsTcp(y) \/ Drops(y) \/ Keeps(y) \/ Returns(y) \/ Receives(y) \/ Sends(y)

\* The other side of the other side.
LEMMA TwoSides ==
  ASSUME NEW x \in Sides
  PROVE  /\ Other(x) \in Sides /\ Other(x) # x /\ Other(Other(x)) = x
         /\ \A y \in Sides : y = x \/ y = Other(x)
BY TunnelAssumption DEF Sides, Other

\* The answers of the TCP are TCP packets.
LEMMA RepliesAreTcp ==
  ASSUME NEW x \in Sides, NEW p
  PROVE  \/ Reply(x, p) = <<>>
         \/ \E b \in Packet : IsBuiltin(b) /\ Reply(x, p) = <<b>>
<1>1. \A k \in {"syn", "synack", "ack", "probe"} : Tcp(k) \in Packet /\ IsBuiltin(Tcp(k))
  BY DEF Tcp, Packet, IsBuiltin
<1>2. \/ Reply(x, p) = <<>> \/ Reply(x, p) = <<Tcp("synack")>> \/ Reply(x, p) = <<Tcp("ack")>>
  BY DEF Reply
<1> QED BY <1>1, <1>2

\* A packet given to the TCP leaves the network, and the answer joins the other way.
LEMMA InboundMoves ==
  ASSUME DataTypes, NEW x \in Sides, Len(net[x]) > 0, Inbound(x, First(x)),
         IsBuiltin(First(x)), UNCHANGED dataVars
  PROVE  DataShapes /\ \A y \in Sides : DataStep(y)
<1> DEFINE z == Other(x)
           q == Reply(x, First(x))
<1>1. z \in Sides /\ z # x /\ \A y \in Sides : y = x \/ y = z
  BY TwoSides
<1>2. net' = [net EXCEPT ![x] = Tail(net[x]), ![z] = Carry(z, q)]
  BY DEF Inbound
<1> HIDE DEF z, q
<1>3. net'[x] = Tail(net[x]) /\ net'[z] = Carry(z, q) /\ net' = [y \in Sides |-> net'[y]]
  BY <1>1, <1>2 DEF DataTypes
<1>4. pend' = pend /\ got' = got /\ sent' = sent
  BY DEF dataVars
<1>5. DataShapes
  BY <1>3, <1>4 DEF DataShapes, DataTypes
<1>6. Drops(x)
  BY <1>3, <1>4 DEF Drops
<1>7. Carry(z, q) = net[z] \/ Carry(z, q) = net[z] \o q
  BY DEF Carry
<1>8. net[z] \in Seq(Packet)
  BY <1>1 DEF DataTypes
<1>9. CASE Carry(z, q) = net[z] \/ q = <<>>
  <2>1. net'[z] = net[z]
    BY <1>3, <1>7, <1>8, <1>9, ConcatEmptySeq
  <2> QED BY <1>1, <1>4, <1>5, <1>6, <2>1 DEF DataStep, Same
<1>10. CASE Carry(z, q) = net[z] \o q /\ \E b \in Packet : IsBuiltin(b) /\ q = <<b>>
  <2>1. PICK b \in Packet : IsBuiltin(b) /\ q = <<b>>
    BY <1>10
  <2>2. net[z] \o <<b>> = Append(net[z], b)
    BY <1>8, AppendIsConcat
  <2> QED BY <1>1, <1>3, <1>4, <1>5, <1>6, <1>10, <2>1, <2>2 DEF DataStep, AddsTcp
<1> QED BY <1>7, <1>9, <1>10, RepliesAreTcp DEF q

\* A TCP packet of its own that x puts on the network.
LEMMA TcpLeaves ==
  ASSUME DataTypes, NEW x \in Sides, NEW b \in Packet, IsBuiltin(b),
         net' = [net EXCEPT ![Other(x)] = Append(net[Other(x)], b)], UNCHANGED dataVars
  PROVE  DataShapes /\ \A y \in Sides : DataStep(y)
<1>1. Other(x) \in Sides /\ Other(x) # x /\ \A y \in Sides : y = x \/ y = Other(x)
  BY TwoSides
<1>2. /\ net'[x] = net[x] /\ net'[Other(x)] = Append(net[Other(x)], b)
      /\ net' = [y \in Sides |-> net'[y]]
  BY <1>1 DEF DataTypes
<1>3. pend' = pend /\ got' = got /\ sent' = sent
  BY DEF dataVars
<1>4. DataShapes
  BY <1>2, <1>3 DEF DataShapes, DataTypes
<1>5. Same(x)
  BY <1>2, <1>3 DEF Same
<1>6. AddsTcp(Other(x))
  BY <1>2, <1>3 DEF AddsTcp
<1> QED BY <1>1, <1>4, <1>5, <1>6 DEF DataStep

\* Only the packets on their way to x move.
OneSide(x, A, B, C) ==
  /\ net' = [net EXCEPT ![x] = A] /\ pend' = [pend EXCEPT ![x] = B]
  /\ got' = [got EXCEPT ![x] = C] /\ sent' = sent

\* The other side's are as they were.
LEMMA OneSideMoves ==
  ASSUME DataTypes, NEW x \in Sides, NEW A, NEW B, NEW C, OneSide(x, A, B, C)
  PROVE  /\ DataShapes /\ net'[x] = A /\ pend'[x] = B /\ got'[x] = C
         /\ sent'[Other(x)] = sent[Other(x)]
         /\ DataStep(x) => \A y \in Sides : DataStep(y)
<1> USE DEF OneSide
<1>1. Other(x) \in Sides /\ Other(x) # x /\ \A y \in Sides : y = x \/ y = Other(x)
  BY TwoSides
<1>2. DataShapes
  BY DEF DataShapes, DataTypes
<1>3. net'[x] = A /\ pend'[x] = B /\ got'[x] = C
  BY DEF DataTypes
<1>4. Same(Other(x))
  BY <1>1 DEF Same, DataTypes
<1> QED BY <1>1, <1>2, <1>3, <1>4 DEF DataStep

\* Every step is, for each side, one of the kinds above.
LEMMA StepMovesData ==
  ASSUME DataTypes, Next
  PROVE  DataShapes /\ \A y \in Sides : DataStep(y)
<1>1. ASSUME UNCHANGED <<net, dataVars>> PROVE DataShapes /\ \A y \in Sides : DataStep(y)
  <2>1. net' = net /\ pend' = pend /\ got' = got /\ sent' = sent
    BY <1>1 DEF dataVars
  <2>2. DataShapes
    BY <2>1 DEF DataShapes, DataTypes
  <2>3. \A y \in Sides : Same(y)
    BY <2>1 DEF Same
  <2> QED BY <2>2, <2>3 DEF DataStep
<1>2. PICK x \in Sides : \/ \E k \in Kinds : Handshake(x, k) \/ Call(x, k)
                         \/ Inner(x) \/ Recv(x) \/ Send(x) \/ SendFails(x)
                         \/ Retransmit(x) \/ Keepalive(x) \/ Lose(x) \/ Close(x)
  BY DEF Next
<1>3. net[x] \in Seq(Packet) /\ pend[x] \in Seq(Nat) /\ got[x] \in Seq(Nat)
  BY DEF DataTypes
<1>4. net[x] # <<>> => Len(net[x]) > 0
  BY <1>3, EmptySeq
<1>5. net = [net EXCEPT ![x] = net[x]] /\ pend = [pend EXCEPT ![x] = pend[x]] /\ got = [got EXCEPT ![x] = got[x]]
  BY DEF DataTypes
<1>6. \A k \in {"syn", "synack", "ack", "probe"} : Tcp(k) \in Packet /\ IsBuiltin(Tcp(k))
  BY DEF Tcp, Packet, IsBuiltin
<1>7. ASSUME NEW k \in Kinds, Handshake(x, k) PROVE DataShapes /\ \A y \in Sides : DataStep(y)
  <2>1. UNCHANGED dataVars /\ (DialTCPWithBind(x) \/ net' = net)
    BY <1>7 DEF Handshake
  <2>2. CASE DialTCPWithBind(x)
    <3>1. net' = [net EXCEPT ![Other(x)] = Append(net[Other(x)], Tcp("syn"))]
      BY <2>2 DEF DialTCPWithBind
    <3> QED BY <1>6, <2>1, <3>1, TcpLeaves
  <2> QED BY <1>1, <2>1, <2>2
<1>8. ASSUME NEW k \in Kinds, Call(x, k) PROVE DataShapes /\ \A y \in Sides : DataStep(y)
  <2>1. UNCHANGED <<net, dataVars>>
    BY <1>8 DEF Call, Waited, Handshaked, HandshakeFails, Retch, netVars
  <2> QED BY <1>1, <2>1
<1>9. ASSUME Inner(x), ~HRead(x) PROVE DataShapes /\ \A y \in Sides : DataStep(y)
  <2>1. UNCHANGED <<net, dataVars>>
    BY <1>9 DEF Inner, HSelect, HReadFails, netVars
  <2> QED BY <1>1, <2>1
<1>10. ASSUME HRead(x) PROVE DataShapes /\ \A y \in Sides : DataStep(y)
  <2>1. /\ hpc[x] = "read" /\ Len(net[x]) > 0 /\ got' = got /\ sent' = sent /\ lost' = lost
    BY <1>4, <1>10 DEF HRead
  <2>2. CASE IsBuiltin(First(x)) /\ Inbound(x, First(x)) /\ UNCHANGED pend
    BY <2>1, <2>2, InboundMoves DEF dataVars
  <2>3. CASE /\ ~IsBuiltin(First(x)) /\ Taken(x)
             /\ pend' = [pend EXCEPT ![x] = IF Len(@) < PendCap THEN Append(@, First(x).n) ELSE @]
    <3> DEFINE B == IF Len(pend[x]) < PendCap THEN Append(pend[x], First(x).n) ELSE pend[x]
    <3>1. /\ net' = [net EXCEPT ![x] = Tail(net[x])] /\ pend' = [pend EXCEPT ![x] = B]
          /\ got' = [got EXCEPT ![x] = got[x]]
      BY <1>5, <2>1, <2>3 DEF Taken
    <3>2. \/ B = Append(pend[x], First(x).n) /\ Len(pend[x]) < PendCap
          \/ B = pend[x] /\ Len(pend[x]) >= PendCap
      <4>1. Len(pend[x]) \in Nat /\ PendCap \in Nat
        BY <1>3, TunnelAssumption
      <4> QED BY <4>1
    <3> HIDE DEF B
    <3>3. OneSide(x, Tail(net[x]), B, got[x])
      BY <2>1, <3>1 DEF OneSide
    <3>4. /\ DataShapes /\ net'[x] = Tail(net[x]) /\ pend'[x] = B /\ got'[x] = got[x]
          /\ sent'[Other(x)] = sent[Other(x)]
          /\ DataStep(x) => \A y \in Sides : DataStep(y)
      BY <3>3, OneSideMoves
    <3>5. DataStep(x)
      BY <2>1, <2>3, <3>2, <3>4 DEF DataStep, Keeps, Drops
    <3> QED BY <3>4, <3>5
  <2> QED BY <1>10, <2>2, <2>3 DEF HRead, First
<1>11. ASSUME RecvPend(x) PROVE DataShapes /\ \A y \in Sides : DataStep(y)
  <2>1. /\ pc[x]["recv"] = "ready" /\ Len(pend[x]) > 0 /\ sent' = sent
        /\ net' = [net EXCEPT ![x] = net[x]] /\ pend' = [pend EXCEPT ![x] = Tail(pend[x])]
        /\ got' = [got EXCEPT ![x] = Append(got[x], Head(pend[x]))]
    BY <1>3, <1>5, <1>11, EmptySeq DEF RecvPend, netVars
  <2> DEFINE C == Append(got[x], Head(pend[x]))
  <2>2. OneSide(x, net[x], Tail(pend[x]), C)
    BY <2>1 DEF OneSide
  <2> HIDE DEF C
  <2>3. /\ DataShapes /\ net'[x] = net[x] /\ pend'[x] = Tail(pend[x])
        /\ got'[x] = C /\ sent'[Other(x)] = sent[Other(x)]
        /\ DataStep(x) => \A y \in Sides : DataStep(y)
    BY <2>2, OneSideMoves
  <2>4. Returns(x)
    BY <2>1, <2>3 DEF Returns, C
  <2> QED BY <2>3, <2>4 DEF DataStep
<1>12. ASSUME RecvEnter(x) \/ RecvFails(x) \/ SendFails(x) \/ Close(x)
       PROVE  DataShapes /\ \A y \in Sides : DataStep(y)
  <2>1. UNCHANGED <<net, dataVars>>
    BY <1>12 DEF RecvEnter, RecvFails, SendFails, Close, netVars
  <2> QED BY <1>1, <2>1
<1>13. ASSUME RecvRead(x) PROVE DataShapes /\ \A y \in Sides : DataStep(y)
  <2>1. /\ pc[x]["recv"] = "read" /\ Len(net[x]) > 0 /\ pend' = pend /\ sent' = sent
    BY <1>4, <1>13 DEF RecvRead
  <2>2. CASE IsBuiltin(First(x)) /\ Inbound(x, First(x)) /\ UNCHANGED got
    BY <2>1, <2>2, InboundMoves DEF dataVars
  <2>3. CASE ~IsBuiltin(First(x)) /\ Taken(x) /\ got' = [got EXCEPT ![x] = Append(@, First(x).n)]
    <3>1. /\ net' = [net EXCEPT ![x] = Tail(net[x])] /\ pend' = [pend EXCEPT ![x] = pend[x]]
          /\ got' = [got EXCEPT ![x] = Append(got[x], First(x).n)]
      BY <1>5, <2>1, <2>3 DEF Taken
    <3> DEFINE C == Append(got[x], First(x).n)
    <3>2. OneSide(x, Tail(net[x]), pend[x], C)
      BY <2>1, <3>1 DEF OneSide
    <3> HIDE DEF C
    <3>3. /\ DataShapes /\ net'[x] = Tail(net[x]) /\ pend'[x] = pend[x]
          /\ got'[x] = C /\ sent'[Other(x)] = sent[Other(x)]
          /\ DataStep(x) => \A y \in Sides : DataStep(y)
      BY <3>2, OneSideMoves
    <3>4. Receives(x)
      BY <2>1, <2>3, <3>3 DEF Receives, C
    <3> QED BY <3>3, <3>4 DEF DataStep
  <2> QED BY <1>13, <2>2, <2>3 DEF RecvRead, First
<1>14. ASSUME Send(x) PROVE DataShapes /\ \A y \in Sides : DataStep(y)
  <2>1. /\ Other(x) \in Sides /\ Other(x) # x /\ Other(Other(x)) = x
        /\ \A y \in Sides : y = x \/ y = Other(x)
    BY TwoSides
  <2>2. /\ sent' = [sent EXCEPT ![x] = sent[x] + 1] /\ sent[x] < MaxData[x]
        /\ net' = [net EXCEPT ![Other(x)] = Append(net[Other(x)], Data(sent[x] + 1))]
        /\ pend' = pend /\ got' = got /\ pc[x]["send"] = "ready"
    BY <1>14 DEF Send
  <2>3. DataShapes
    BY <2>2 DEF DataShapes, DataTypes
  <2>4. Same(x)
    BY <2>1, <2>2 DEF Same, DataTypes
  <2>5. Sends(Other(x))
    BY <2>1, <2>2 DEF Sends, DataTypes
  <2> QED BY <2>1, <2>3, <2>4, <2>5 DEF DataStep
<1>15. ASSUME Retransmit(x) PROVE DataShapes /\ \A y \in Sides : DataStep(y)
  <2>1. PICK p \in {"syn", "synack"} :
          net' = [net EXCEPT ![Other(x)] = Append(net[Other(x)], Tcp(p))]
    BY <1>15 DEF Retransmit
  <2>2. UNCHANGED dataVars
    BY <1>15 DEF Retransmit
  <2> QED BY <1>6, <2>1, <2>2, TcpLeaves
<1>16. ASSUME Keepalive(x) PROVE DataShapes /\ \A y \in Sides : DataStep(y)
  <2>1. net[Other(x)] = <<>> /\ net' = [net EXCEPT ![Other(x)] = <<Tcp("probe")>>] /\ UNCHANGED dataVars
    BY <1>16 DEF Keepalive
  <2>2. <<Tcp("probe")>> = Append(net[Other(x)], Tcp("probe"))
    BY <2>1
  <2>3. net' = [net EXCEPT ![Other(x)] = Append(net[Other(x)], Tcp("probe"))]
    BY <2>1, <2>2
  <2> QED BY <1>6, <2>1, <2>3, TcpLeaves
<1>17. ASSUME Lose(x) PROVE DataShapes /\ \A y \in Sides : DataStep(y)
  <2>1. /\ Len(net[x]) > 0 /\ lost' = lost + 1 /\ sent' = sent
        /\ net' = [net EXCEPT ![x] = Tail(net[x])] /\ pend' = [pend EXCEPT ![x] = pend[x]]
        /\ got' = [got EXCEPT ![x] = got[x]]
    BY <1>4, <1>5, <1>17 DEF Lose, dataVars
  <2>2. OneSide(x, Tail(net[x]), pend[x], got[x])
    BY <2>1 DEF OneSide
  <2>3. /\ DataShapes /\ net'[x] = Tail(net[x]) /\ pend'[x] = pend[x]
        /\ got'[x] = got[x] /\ sent'[Other(x)] = sent[Other(x)]
        /\ DataStep(x) => \A y \in Sides : DataStep(y)
    BY <2>2, OneSideMoves
  <2>4. Drops(x)
    BY <2>1, <2>3 DEF Drops
  <2> QED BY <2>3, <2>4 DEF DataStep
<1> QED BY <1>2, <1>7, <1>8, <1>9, <1>10, <1>11, <1>12, <1>13, <1>14, <1>15, <1>16, <1>17 DEF Recv

(***************************************************************************)
(* The handshake.  Its winner does not return before the inbound service   *)
(* has ended; the others not before handshakedNotify is closed, which is   *)
(* after the keys are set.                                                 *)
(***************************************************************************)

ControlTypes ==
  /\ pc \in [Sides -> [Kinds -> Places]]
  /\ won \in [Sides -> Kinds \cup {None}]
  /\ notified \in [Sides -> BOOLEAN] /\ keyed \in [Sides -> BOOLEAN]
  /\ hpc \in [Sides -> {"none", "select", "read", "done"}]
  /\ tcp \in [Sides -> {"closed", "listen", "synsent", "synrcvd", "estab"}]
  /\ lost \in 0..MaxLoss
  /\ open \in [Sides -> BOOLEAN]

HsSide(x) ==
  /\ keyed[x] => won[x] # None
  /\ notified[x] => keyed[x]
  /\ \A k \in Kinds : pc[x][k] # "idle" => won[x] # None
  /\ \A k \in Kinds : pc[x][k] \in {"retch", "ready", "read"} => keyed[x]
  /\ \A k \in Kinds : won[x] = k =>
       /\ pc[x][k] \notin {"idle", "wait"}
       /\ pc[x][k] \in {"ready", "read"} => hpc[x] = "done"

HsInv == \A x \in Sides : HsSide(x)

\* What later steps rely on: the keys and the winner stay, and Recv goes to the
\* network only when nothing is kept.
Steady(y) ==
  /\ keyed[y] => keyed'[y]
  /\ won[y] # None => won'[y] = won[y]
  /\ pc[y]["recv"] # "read" /\ pc'[y]["recv"] = "read" => pend[y] = <<>> /\ pend'[y] = <<>>

\* Call k of side x goes to place w.
LEMMA PcMoves ==
  ASSUME ControlTypes, NEW x \in Sides, NEW k \in Kinds, NEW w \in Places, Goto(x, k, w)
  PROVE  /\ pc' \in [Sides -> [Kinds -> Places]]
         /\ pc'[x][k] = w /\ \A j \in Kinds : j # k => pc'[x][j] = pc[x][j]
         /\ \A y \in Sides : y # x => pc'[y] = pc[y]
BY DEF Goto, ControlTypes

\* A side whose part of the handshake a step leaves alone.
Apart(y) == /\ pc'[y] = pc[y] /\ won'[y] = won[y] /\ notified'[y] = notified[y]
            /\ keyed'[y] = keyed[y] /\ hpc'[y] = hpc[y]

\* It stays as it was.
LEMMA ApartKeeps ==
  ASSUME NEW y \in Sides, Apart(y), HsSide(y)
  PROVE  HsSide(y)' /\ Steady(y)
BY DEF Apart, HsSide, Steady

\* The first call takes the handshake; a later one waits.
LEMMA HandshakeKeeps ==
  ASSUME ControlTypes, HsInv, NEW x \in Sides, NEW k \in Kinds, Handshake(x, k)
  PROVE  ControlTypes' /\ \A y \in Sides : HsSide(y)' /\ Steady(y)
<1>1. /\ pc[x][k] = "idle" /\ UNCHANGED <<notified, keyed, lost, open>>
      /\ tcp' = tcp \/ tcp' = [tcp EXCEPT ![x] = "synsent"]
  BY DEF Handshake, DialTCPWithBind
<1>2. None \notin Kinds
  BY TunnelAssumption DEF Kinds
<1>3. HsSide(x)
  BY DEF HsInv
<1>4. tcp' \in [Sides -> {"closed", "listen", "synsent", "synrcvd", "estab"}]
  BY <1>1 DEF ControlTypes
<1>5. CASE won[x] = None /\ won' = [won EXCEPT ![x] = k] /\ HGoto(x, "select") /\ Goto(x, k, "factory")
  <2>1. /\ pc' \in [Sides -> [Kinds -> Places]]
        /\ pc'[x][k] = "factory" /\ \A j \in Kinds : j # k => pc'[x][j] = pc[x][j]
        /\ \A y \in Sides : y # x => pc'[y] = pc[y]
    BY <1>5, PcMoves DEF Places
  <2>2. /\ won'[x] = k /\ won' \in [Sides -> Kinds \cup {None}]
        /\ \A y \in Sides : y # x => won'[y] = won[y]
    BY <1>5 DEF ControlTypes
  <2>3. /\ hpc' \in [Sides -> {"none", "select", "read", "done"}]
        /\ \A y \in Sides : y # x => hpc'[y] = hpc[y]
    BY <1>5 DEF ControlTypes, HGoto
  <2>4. ControlTypes'
    BY <1>1, <1>4, <2>1, <2>2, <2>3 DEF ControlTypes
  <2>5. \A j \in Kinds : pc[x][j] = "idle"
    BY <1>3, <1>5 DEF HsSide
  <2>6. HsSide(x)' /\ Steady(x)
    BY <1>1, <1>2, <1>3, <1>5, <2>1, <2>2, <2>5 DEF HsSide, Steady, Kinds
  <2>7. \A y \in Sides : y # x => Apart(y)
    BY <1>1, <2>1, <2>2, <2>3 DEF Apart
  <2> QED BY <2>4, <2>6, <2>7, ApartKeeps DEF HsInv
<1>6. CASE won[x] # None /\ Goto(x, k, "wait") /\ UNCHANGED <<won, hpc>>
  <2>1. /\ pc' \in [Sides -> [Kinds -> Places]]
        /\ pc'[x][k] = "wait" /\ \A j \in Kinds : j # k => pc'[x][j] = pc[x][j]
        /\ \A y \in Sides : y # x => pc'[y] = pc[y]
    BY <1>6, PcMoves DEF Places
  <2>2. ControlTypes'
    BY <1>1, <1>4, <1>6, <2>1 DEF ControlTypes
  <2>3. won[x] # k
    BY <1>1, <1>3 DEF HsSide
  <2>4. HsSide(x)' /\ Steady(x)
    BY <1>1, <1>3, <1>6, <2>1, <2>3 DEF HsSide, Steady, Kinds
  <2>5. \A y \in Sides : y # x => Apart(y)
    BY <1>1, <1>6, <2>1 DEF Apart
  <2> QED BY <2>2, <2>4, <2>5, ApartKeeps DEF HsInv
<1> QED BY <1>5, <1>6 DEF Handshake

\* The steps by which calls get through the handshake, or fail in it.
LEMMA CallKeeps ==
  ASSUME ControlTypes, HsInv, NEW x \in Sides, NEW k \in Kinds, Call(x, k)
  PROVE  ControlTypes' /\ \A y \in Sides : HsSide(y)' /\ Steady(y)
<1>1. HsSide(x)
  BY DEF HsInv
<1>2. won' = won /\ hpc' = hpc /\ lost' = lost
  BY DEF Call, Waited, Handshaked, HandshakeFails, Retch, hsVars, netVars
<1>3. None \notin Kinds
  BY TunnelAssumption DEF Kinds
<1>4. CASE Waited(x, k)
  <2>1. /\ pc[x][k] = "wait" /\ notified[x] /\ Goto(x, k, "ready")
        /\ UNCHANGED <<notified, keyed, tcp, open>>
    BY <1>4 DEF Waited, hsVars, netVars
  <2>2. /\ pc' \in [Sides -> [Kinds -> Places]]
        /\ pc'[x][k] = "ready" /\ \A j \in Kinds : j # k => pc'[x][j] = pc[x][j]
        /\ \A y \in Sides : y # x => pc'[y] = pc[y]
    BY <2>1, PcMoves DEF Places
  <2>3. ControlTypes'
    BY <1>2, <2>1, <2>2 DEF ControlTypes
  <2>4. HsSide(x)' /\ Steady(x)
    BY <1>1, <1>2, <2>1, <2>2 DEF HsSide, Steady, Kinds
  <2>5. \A y \in Sides : y # x => Apart(y)
    BY <1>2, <2>1, <2>2 DEF Apart
  <2> QED BY <2>3, <2>4, <2>5, ApartKeeps DEF HsInv
<1>5. CASE Handshaked(x, k)
  <2>1. /\ pc[x][k] = "factory" /\ Goto(x, k, "retch") /\ UNCHANGED <<tcp, open>>
        /\ keyed' = [keyed EXCEPT ![x] = TRUE] /\ notified' = [notified EXCEPT ![x] = TRUE]
    BY <1>5 DEF Handshaked, netVars
  <2>2. /\ pc' \in [Sides -> [Kinds -> Places]]
        /\ pc'[x][k] = "retch" /\ \A j \in Kinds : j # k => pc'[x][j] = pc[x][j]
        /\ \A y \in Sides : y # x => pc'[y] = pc[y]
    BY <2>1, PcMoves DEF Places
  <2>3. /\ keyed' \in [Sides -> BOOLEAN] /\ notified' \in [Sides -> BOOLEAN]
        /\ keyed'[x] /\ notified'[x]
        /\ \A y \in Sides : y # x => keyed'[y] = keyed[y] /\ notified'[y] = notified[y]
    BY <2>1 DEF ControlTypes
  <2>4. ControlTypes'
    BY <1>2, <2>1, <2>2, <2>3 DEF ControlTypes
  <2>5. HsSide(x)' /\ Steady(x)
    BY <1>1, <1>2, <2>1, <2>2, <2>3 DEF HsSide, Steady, Kinds
  <2>6. \A y \in Sides : y # x => Apart(y)
    BY <1>2, <2>2, <2>3 DEF Apart
  <2> QED BY <2>4, <2>5, <2>6, ApartKeeps DEF HsInv
<1>6. CASE HandshakeFails(x, k)
  <2>1. /\ pc[x][k] = "factory" /\ Goto(x, k, "failing") /\ UNCHANGED <<notified, keyed, tcp, open>>
    BY <1>6 DEF HandshakeFails, hsVars, netVars
  <2>2. /\ pc' \in [Sides -> [Kinds -> Places]]
        /\ pc'[x][k] = "failing" /\ \A j \in Kinds : j # k => pc'[x][j] = pc[x][j]
        /\ \A y \in Sides : y # x => pc'[y] = pc[y]
    BY <2>1, PcMoves DEF Places
  <2>3. ControlTypes'
    BY <1>2, <2>1, <2>2 DEF ControlTypes
  <2>4. HsSide(x)' /\ Steady(x)
    BY <1>1, <1>2, <2>1, <2>2 DEF HsSide, Steady, Kinds
  <2>5. \A y \in Sides : y # x => Apart(y)
    BY <1>2, <2>1, <2>2 DEF Apart
  <2> QED BY <2>3, <2>4, <2>5, ApartKeeps DEF HsInv
<1>7. CASE Retch(x, k)
  <2> DEFINE w == IF pc[x][k] = "retch" THEN "ready" ELSE "failed"
  <2>1. /\ pc[x][k] \in {"retch", "failing"} /\ hpc[x] = "done"
        /\ Goto(x, k, w) /\ UNCHANGED <<notified, keyed>>
    BY <1>7 DEF Retch, hsVars
  <2>2. /\ pc' \in [Sides -> [Kinds -> Places]]
        /\ pc'[x][k] = w /\ \A j \in Kinds : j # k => pc'[x][j] = pc[x][j]
        /\ \A y \in Sides : y # x => pc'[y] = pc[y]
    <3>1. w \in Places
      BY DEF Places
    <3> HIDE DEF w
    <3> QED BY <2>1, <3>1, PcMoves
  <2>3. open' \in [Sides -> BOOLEAN]
    BY <1>7 DEF Retch, ControlTypes
  <2>4. tcp' \in [Sides -> {"closed", "listen", "synsent", "synrcvd", "estab"}]
    BY <1>7 DEF Retch, Torn, ControlTypes
  <2>5. ControlTypes'
    BY <1>2, <2>1, <2>2, <2>3, <2>4 DEF ControlTypes
  <2>6. HsSide(x)' /\ Steady(x)
    BY <1>1, <1>2, <2>1, <2>2 DEF HsSide, Steady, Kinds
  <2>7. \A y \in Sides : y # x => Apart(y)
    BY <1>2, <2>1, <2>2 DEF Apart
  <2> QED BY <2>5, <2>6, <2>7, ApartKeeps DEF HsInv
<1> QED BY <1>4, <1>5, <1>6, <1>7 DEF Call

\* A packet given to the TCP leaves it in one of its states.
LEMMA InboundTyped ==
  ASSUME ControlTypes, NEW x \in Sides, NEW p, Inbound(x, p)
  PROVE  tcp' \in [Sides -> {"closed", "listen", "synsent", "synrcvd", "estab"}]
<1>1. NewTcp(x, p) \in {"closed", "listen", "synsent", "synrcvd", "estab"}
  BY DEF NewTcp, ControlTypes
<1> QED BY <1>1 DEF Inbound, ControlTypes

\* The inbound service ends only by itself, and no winner has returned before.
LEMMA InnerKeeps ==
  ASSUME ControlTypes, HsInv, NEW x \in Sides, Inner(x)
  PROVE  ControlTypes' /\ \A y \in Sides : HsSide(y)' /\ Steady(y)
<1>1. HsSide(x)
  BY DEF HsInv
<1>2. /\ hpc[x] \in {"select", "read"} /\ UNCHANGED <<pc, won, notified, keyed, lost, open>>
      /\ \E w \in {"done", "read", "select"} : HGoto(x, w)
  BY DEF Inner, HSelect, HRead, HReadFails, hsVars, netVars
<1>3. /\ hpc' \in [Sides -> {"none", "select", "read", "done"}]
      /\ \A y \in Sides : y # x => hpc'[y] = hpc[y]
  BY <1>2 DEF HGoto, ControlTypes
<1>4. tcp' = tcp \/ \E p \in {First(x)} : Inbound(x, p)
  BY DEF Inner, HSelect, HRead, HReadFails, Taken, netVars, First
<1>5. tcp' \in [Sides -> {"closed", "listen", "synsent", "synrcvd", "estab"}]
  BY <1>4, InboundTyped DEF ControlTypes
<1>6. ControlTypes'
  BY <1>2, <1>3, <1>5 DEF ControlTypes
<1>7. HsSide(x)' /\ Steady(x)
  BY <1>1, <1>2 DEF HsSide, Steady
<1>8. \A y \in Sides : y # x => Apart(y)
  BY <1>2, <1>3 DEF Apart
<1> QED BY <1>6, <1>7, <1>8, ApartKeeps DEF HsInv

\* Recv and Send past the handshake.
LEMMA TransferKeeps ==
  ASSUME ControlTypes, HsInv, NEW x \in Sides, Recv(x) \/ Send(x) \/ SendFails(x)
  PROVE  ControlTypes' /\ \A y \in Sides : HsSide(y)' /\ Steady(y)
<1>1. HsSide(x)
  BY DEF HsInv
<1>2. UNCHANGED <<won, notified, keyed, hpc, lost, open>>
  BY DEF Recv, RecvPend, RecvEnter, RecvRead, RecvFails, Send, SendFails, hsVars, netVars
<1>3. tcp' = tcp \/ \E p \in {First(x)} : Inbound(x, p)
  BY DEF Recv, RecvPend, RecvEnter, RecvRead, RecvFails, Send, SendFails, Taken, netVars, First
<1>4. tcp' \in [Sides -> {"closed", "listen", "synsent", "synrcvd", "estab"}]
  BY <1>3, InboundTyped DEF ControlTypes
<1>5. "recv" \in Kinds /\ "send" \in Kinds
  BY DEF Kinds
<1>6. CASE RecvPend(x) \/ Send(x)
  <2>1. pc' = pc
    BY <1>6 DEF RecvPend, Send
  <2>2. ControlTypes'
    BY <1>2, <1>4, <2>1 DEF ControlTypes
  <2>3. \A y \in Sides : Apart(y)
    BY <1>2, <2>1 DEF Apart
  <2> QED BY <2>2, <2>3, ApartKeeps DEF HsInv
<1>7. ASSUME NEW k \in Kinds, NEW w \in Places, Goto(x, k, w),
             pc[x][k] \in {"ready", "read"}, w \in {"ready", "read", "failed"},
             w = "read" => pend[x] = <<>> /\ pend' = pend
      PROVE  ControlTypes' /\ \A y \in Sides : HsSide(y)' /\ Steady(y)
  <2>1. /\ pc' \in [Sides -> [Kinds -> Places]]
        /\ pc'[x][k] = w /\ \A j \in Kinds : j # k => pc'[x][j] = pc[x][j]
        /\ \A y \in Sides : y # x => pc'[y] = pc[y]
    BY <1>7, PcMoves
  <2>2. ControlTypes'
    BY <1>2, <1>4, <2>1 DEF ControlTypes
  <2>3. HsSide(x)' /\ Steady(x)
    BY <1>1, <1>2, <1>5, <1>7, <2>1 DEF HsSide, Steady
  <2>4. \A y \in Sides : y # x => Apart(y)
    BY <1>2, <2>1 DEF Apart
  <2> QED BY <2>2, <2>3, <2>4, ApartKeeps DEF HsInv
<1>8. {"ready", "read", "failed"} \subseteq Places
  BY DEF Places
<1>9. CASE RecvEnter(x)
  BY <1>5, <1>7, <1>8, <1>9 DEF RecvEnter, dataVars
<1>10. CASE RecvRead(x)
  BY <1>5, <1>7, <1>8, <1>10 DEF RecvRead
<1>11. CASE RecvFails(x)
  BY <1>5, <1>7, <1>8, <1>11 DEF RecvFails
<1>12. CASE SendFails(x)
  BY <1>5, <1>7, <1>8, <1>12 DEF SendFails
<1> QED BY <1>6, <1>9, <1>10, <1>11, <1>12 DEF Recv

\* The network, the timers of the TCP, and Close.
LEMMA OutsideKeeps ==
  ASSUME ControlTypes, HsInv, NEW x \in Sides, Retransmit(x) \/ Keepalive(x) \/ Lose(x) \/ Close(x)
  PROVE  ControlTypes' /\ \A y \in Sides : HsSide(y)' /\ Steady(y)
<1>1. UNCHANGED <<pc, won, notified, keyed, hpc>>
  BY DEF Retransmit, Keepalive, Lose, Close, hsVars
<1>2. lost' \in 0..MaxLoss
  BY TunnelAssumption DEF Retransmit, Keepalive, Lose, Close, ControlTypes
<1>3. open' \in [Sides -> BOOLEAN]
  BY DEF Retransmit, Keepalive, Lose, Close, ControlTypes
<1>4. tcp' \in [Sides -> {"closed", "listen", "synsent", "synrcvd", "estab"}]
  BY DEF Retransmit, Keepalive, Lose, Close, Torn, ControlTypes
<1>5. ControlTypes'
  BY <1>1, <1>2, <1>3, <1>4 DEF ControlTypes
<1>6. \A y \in Sides : Apart(y)
  BY <1>1 DEF Apart
<1> QED BY <1>5, <1>6, ApartKeeps DEF HsInv

\* Every step of either side keeps the handshake's invariant.
LEMMA StepKeepsHandshake ==
  ASSUME ControlTypes, HsInv, Next
  PROVE  ControlTypes' /\ HsInv' /\ \A y \in Sides : Steady(y)
BY HandshakeKeeps, CallKeeps, InnerKeeps, TransferKeeps, OutsideKeeps DEF Next, HsInv

(***************************************************************************)
(* The whole invariant.                                                    *)
(***************************************************************************)

FlowSide(y) ==
  /\ Flow(net[y], pend[y], got[y], sent[Other(y)])
  /\ Len(pend[y]) <= PendCap
  /\ sent[Other(y)] <= MaxData[Other(y)]
  /\ got[y] # <<>> => keyed[y]
  /\ sent[Other(y)] > 0 => keyed[Other(y)]

OrderSide(y) == won[y] = "recv" =>
  /\ Order(net[y], pend[y], got[y])
  /\ pc[y]["recv"] = "read" => pend[y] = <<>>

TunnelInv == /\ ControlTypes /\ HsInv /\ DataTypes
             /\ \A y \in Sides : FlowSide(y) /\ OrderSide(y)

\* The packets on their way to y stay typed and in their order.
LEMMA DataStepKeeps ==
  ASSUME TunnelInv, NEW y \in Sides, DataStep(y), Steady(y), Steady(Other(y))
  PROVE  /\ net'[y] \in Seq(Packet) /\ pend'[y] \in Seq(Nat) /\ got'[y] \in Seq(Nat)
         /\ sent'[Other(y)] \in Nat
         /\ FlowSide(y)' /\ OrderSide(y)'
<1> DEFINE q == net[y]
           p == pend[y]
           g == got[y]
           s == sent[Other(y)]
<1>1. q \in Seq(Packet) /\ p \in Seq(Nat) /\ g \in Seq(Nat) /\ s \in Nat /\ Other(y) \in Sides
  BY TwoSides DEF TunnelInv, DataTypes
<1>2. /\ Flow(q, p, g, s) /\ Len(p) <= PendCap /\ s <= MaxData[Other(y)]
      /\ (g # <<>> => keyed[y]) /\ (s > 0 => keyed[Other(y)])
  BY DEF TunnelInv, FlowSide
<1>3. /\ MaxData[Other(y)] \in Nat /\ PendCap \in Nat /\ Len(p) \in Nat
  BY <1>1, TunnelAssumption
<1>4. /\ HsSide(y) /\ HsSide(Other(y)) /\ OrderSide(y) /\ "recv" \in Kinds /\ "send" \in Kinds /\ None \notin Kinds
  BY <1>1, TunnelAssumption DEF TunnelInv, HsInv, Kinds
<1> DEFINE nq == net'[y]
           np == pend'[y]
           ng == got'[y]
           ns == sent'[Other(y)]
           Done == /\ nq \in Seq(Packet) /\ np \in Seq(Nat) /\ ng \in Seq(Nat) /\ ns \in Nat
                   /\ FlowSide(y)' /\ OrderSide(y)'
\* What each kind of step has to show.
<1>5. ASSUME nq \in Seq(Packet), np \in Seq(Nat), ng \in Seq(Nat), ns \in Nat,
             Flow(nq, np, ng, ns), Len(np) <= PendCap, ns <= MaxData[Other(y)],
             ng # <<>> => keyed[y], ns > 0 => keyed[Other(y)],
             Order(q, p, g) /\ (pc[y]["recv"] = "read" => p = <<>>) => Order(nq, np, ng),
             won[y] = None => ng = <<>>,
             won[y] = "recv" /\ pc[y]["recv"] = "read" /\ p = <<>> => np = <<>>
      PROVE  Done
  <2>1. FlowSide(y)'
    BY <1>5 DEF FlowSide, Steady
  <2>2. OrderSide(y)'
    <3> SUFFICES ASSUME won'[y] = "recv"
                 PROVE  Order(nq, np, ng) /\ (pc'[y]["recv"] = "read" => np = <<>>)
      BY DEF OrderSide
    <3>1. CASE won[y] = None
      <4>1. ng = <<>> /\ Len(ng) = 0
        BY <1>5, <3>1
      <4>2. Order(nq, np, ng)
        BY <4>1 DEF Order, Increasing
      <4>3. pc[y]["recv"] # "read"
        BY <1>4, <3>1 DEF HsSide
      <4> QED BY <4>2, <4>3 DEF Steady
    <3>2. CASE won[y] # None
      <4>1. won[y] = "recv"
        BY <3>2 DEF Steady
      <4>2. Order(q, p, g) /\ (pc[y]["recv"] = "read" => p = <<>>)
        BY <1>4, <4>1 DEF OrderSide
      <4> QED BY <1>5, <4>1, <4>2 DEF Steady
    <3> QED BY <3>1, <3>2
  <2> QED BY <1>5, <2>1, <2>2
<1>6. won[y] = None => g = <<>> /\ pc[y]["recv"] = "idle"
  BY <1>2, <1>4 DEF HsSide
<1> HIDE DEF q, p, g, s, nq, np, ng, ns, Done
<1>7. ASSUME Same(y) PROVE Done
  <2>1. nq = q /\ np = p /\ ng = g /\ ns = s
    BY <1>7 DEF Same, nq, np, ng, ns, q, p, g, s
  <2> QED BY <1>1, <1>2, <1>5, <1>6, <2>1
<1>8. ASSUME AddsTcp(y) PROVE Done
  <2>1. PICK b \in Packet : IsBuiltin(b) /\ nq = Append(q, b)
    BY <1>8 DEF AddsTcp, nq, q
  <2>2. np = p /\ ng = g /\ ns = s
    BY <1>8 DEF AddsTcp, np, ng, ns, p, g, s
  <2>3. nq \in Seq(Packet)
    BY <1>1, <2>1, AppendProperties
  <2>4. Flow(nq, p, g, s) /\ (Order(q, p, g) => Order(nq, p, g))
    BY <1>1, <1>2, <2>1, TcpJoins
  <2> QED BY <1>1, <1>2, <1>5, <1>6, <2>2, <2>3, <2>4
<1>9. ASSUME Drops(y) PROVE Done
  <2>1. Len(q) > 0 /\ nq = Tail(q) /\ np = p /\ ng = g /\ ns = s
    BY <1>9 DEF Drops, nq, np, ng, ns, q, p, g, s
  <2>2. nq \in Seq(Packet) /\ Flow(nq, p, g, s) /\ (Order(q, p, g) => Order(nq, p, g))
    BY <1>1, <1>2, <2>1, FirstGoes
  <2> QED BY <1>1, <1>2, <1>5, <1>6, <2>1, <2>2
<1>10. ASSUME Keeps(y) PROVE Done
  <2>1. /\ Len(q) > 0 /\ ~IsBuiltin(Head(q)) /\ nq = Tail(q) /\ np = Append(p, Head(q).n)
        /\ ng = g /\ ns = s /\ Len(p) < PendCap /\ hpc[y] = "read"
    BY <1>10 DEF Keeps, First, nq, np, ng, ns, q, p, g, s
  <2>2. /\ np \in Seq(Nat) /\ Flow(nq, np, g, s)
        /\ Order(q, p, g) => Order(nq, np, g)
    BY <1>1, <1>2, <2>1, FirstKept
  <2>3. nq \in Seq(Packet)
    BY <1>1, <2>1, HeadTailProperties, ElementOfSeq
  <2>4. Len(np) <= PendCap
    <3>1. Head(q) \in Packet
      BY <1>1, <2>1, HeadTailProperties, ElementOfSeq
    <3>2. Head(q).n \in Nat
      BY <3>1 DEF Packet
    <3>3. Len(np) = Len(p) + 1
      BY <1>1, <2>1, <3>2, AppendProperties
    <3> QED BY <1>3, <2>1, <3>3
  <2>5. ~(won[y] = "recv" /\ pc[y]["recv"] = "read")
    BY <1>4, <2>1 DEF HsSide
  <2> QED BY <1>1, <1>2, <1>5, <1>6, <2>1, <2>2, <2>3, <2>4, <2>5
<1>11. ASSUME Returns(y) PROVE Done
  <2>1. /\ Len(p) > 0 /\ pc[y]["recv"] = "ready" /\ np = Tail(p) /\ ng = Append(g, Head(p))
        /\ nq = q /\ ns = s
    BY <1>11 DEF Returns, nq, np, ng, ns, q, p, g, s
  <2>2. /\ np \in Seq(Nat) /\ Len(np) = Len(p) - 1 /\ ng \in Seq(Nat) /\ Flow(q, np, ng, s)
        /\ Order(q, p, g) => Order(q, np, ng)
    BY <1>1, <1>2, <2>1, KeptReturned
  <2>3. keyed[y]
    BY <1>4, <2>1 DEF HsSide
  <2>4. Len(np) <= PendCap
    BY <1>2, <1>3, <2>2
  <2> QED BY <1>1, <1>2, <1>5, <1>6, <2>1, <2>2, <2>3, <2>4
<1>12. ASSUME Receives(y) PROVE Done
  <2>1. /\ Len(q) > 0 /\ ~IsBuiltin(Head(q)) /\ nq = Tail(q) /\ ng = Append(g, Head(q).n)
        /\ np = p /\ ns = s /\ pc[y]["recv"] = "read"
    BY <1>12 DEF Receives, First, nq, np, ng, ns, q, p, g, s
  <2>2. /\ ng \in Seq(Nat) /\ Flow(nq, p, ng, s)
        /\ Order(q, p, g) /\ p = <<>> => Order(nq, p, ng)
    BY <1>1, <1>2, <2>1, FirstReturned
  <2>3. nq \in Seq(Packet)
    BY <1>1, <2>1, HeadTailProperties, ElementOfSeq
  <2>4. keyed[y]
    BY <1>4, <2>1 DEF HsSide
  <2> QED BY <1>1, <1>2, <1>5, <1>6, <2>1, <2>2, <2>3, <2>4
<1>13. ASSUME Sends(y) PROVE Done
  <2>1. /\ nq = Append(q, Data(s + 1)) /\ ns = s + 1 /\ s < MaxData[Other(y)]
        /\ np = p /\ ng = g /\ pc[Other(y)]["send"] = "ready"
    BY <1>13 DEF Sends, nq, np, ng, ns, q, p, g, s
  <2>2. Flow(nq, p, g, s + 1) /\ (Order(q, p, g) => Order(nq, p, g))
    BY <1>1, <1>2, <2>1, DataJoins
  <2>3. nq \in Seq(Packet)
    <3>1. Data(s + 1) \in Packet
      BY <1>1 DEF Data, Packet
    <3> QED BY <1>1, <2>1, <3>1, AppendProperties
  <2>4. keyed[Other(y)]
    BY <1>4, <2>1 DEF HsSide
  <2>5. ns \in Nat /\ ns <= MaxData[Other(y)]
    BY <1>1, <1>3, <2>1
  <2> QED BY <1>1, <1>2, <1>5, <1>6, <2>1, <2>2, <2>3, <2>4, <2>5
<1> QED BY <1>7, <1>8, <1>9, <1>10, <1>11, <1>12, <1>13 DEF DataStep, Done, nq, np, ng, ns

\* The tunnel starts in the invariant.
LEMMA TunnelInvInit == Init => TunnelInv
<1> SUFFICES ASSUME Init PROVE TunnelInv
  OBVIOUS
<1>1. ControlTypes
  BY TunnelAssumption DEF Init, ControlTypes, Places, InitTcp
<1>2. HsInv
  BY TunnelAssumption DEF Init, HsInv, HsSide, Kinds
<1>3. DataTypes
  BY DEF Init, DataTypes
<1>4. ASSUME NEW y \in Sides PROVE FlowSide(y) /\ OrderSide(y)
  <2>1. net[y] = <<>> /\ pend[y] = <<>> /\ got[y] = <<>> /\ sent[Other(y)] = 0 /\ won[y] = None
    BY TwoSides DEF Init
  <2>2. Flow(net[y], pend[y], got[y], sent[Other(y)])
    BY <2>1 DEF Flow, Increasing
  <2>3. FlowSide(y)
    BY <2>1, <2>2, TwoSides, TunnelAssumption DEF FlowSide
  <2>4. OrderSide(y)
    BY <2>1, TunnelAssumption DEF OrderSide
  <2> QED BY <2>3, <2>4
<1> QED BY <1>1, <1>2, <1>3, <1>4 DEF TunnelInv

\* Every step keeps it.
LEMMA TunnelInvStep == TunnelInv /\ [Next]_vars => TunnelInv'
<1>1. ASSUME TunnelInv, Next PROVE TunnelInv'
  <2>1. ControlTypes' /\ HsInv' /\ \A y \in Sides : Steady(y)
    BY <1>1, StepKeepsHandshake DEF TunnelInv
  <2>2. DataShapes /\ \A y \in Sides : DataStep(y)
    BY <1>1, StepMovesData DEF TunnelInv
  <2>3. \A y \in Sides : /\ net'[y] \in Seq(Packet) /\ pend'[y] \in Seq(Nat) /\ got'[y] \in Seq(Nat)
                         /\ sent'[Other(y)] \in Nat
                         /\ FlowSide(y)' /\ OrderSide(y)'
    BY <1>1, <2>1, <2>2, DataStepKeeps, TwoSides
  <2>4. \A y \in Sides : sent'[y] \in Nat
    BY <2>3, TwoSides
  <2>5. DataTypes'
    <3>1. net' \in [Sides -> Seq(Packet)]
      BY <2>2, <2>3 DEF DataShapes
    <3>2. pend' \in [Sides -> Seq(Nat)]
      BY <2>2, <2>3 DEF DataShapes
    <3>3. got' \in [Sides -> Seq(Nat)]
      BY <2>2, <2>3 DEF DataShapes
    <3>4. sent' \in [Sides -> Nat]
      BY <2>2, <2>4 DEF DataShapes
    <3> QED BY <3>1, <3>2, <3>3, <3>4 DEF DataTypes
  <2> QED BY <2>1, <2>3, <2>5 DEF TunnelInv
<1>2. ASSUME TunnelInv, UNCHANGED vars PROVE TunnelInv'
  BY <1>2 DEF TunnelInv, ControlTypes, HsInv, HsSide, DataTypes, FlowSide, OrderSide,
              vars, hsVars, dataVars, netVars
<1> QED BY <1>1, <1>2

\* The tunnel is always in the invariant.
THEOREM TunnelInvariant == Spec => []TunnelInv
BY TunnelInvInit, TunnelInvStep, PTL DEF Spec

\* A sequence of numbers out of a set.
LEMMA SeqOf ==
  ASSUME NEW q \in Seq(Nat), NEW T, \A i \in 1..Len(q) : q[i] \in T
  PROVE  q \in Seq(T)
<1>1. Len(q) \in Nat /\ q \in [1..Len(q) -> Nat]
  BY LenProperties
<1>2. q \in [1..Len(q) -> T]
  BY <1>1
<1> QED BY <1>1, <1>2, SeqDef

\* Type correctness: the packets kept and returned are packets that were sent, and
\* handshakeRecvedPackets is never above its capacity.
THEOREM TunnelTypeCorrect == Spec => []TypeOK
<1>1. TunnelInv => TypeOK
  <2> SUFFICES ASSUME TunnelInv PROVE TypeOK
    OBVIOUS
  <2>1. ASSUME NEW x \in Sides
        PROVE  /\ pend[x] \in Seq(1..MaxData[Other(x)]) /\ Len(pend[x]) <= PendCap
               /\ got[x] \in Seq(1..MaxData[Other(x)])
    <3>1. /\ pend[x] \in Seq(Nat) /\ got[x] \in Seq(Nat) /\ sent[Other(x)] \in Nat
          /\ MaxData[Other(x)] \in Nat
      BY TwoSides, TunnelAssumption DEF TunnelInv, DataTypes
    <3>2. FlowSide(x)
      BY DEF TunnelInv
    <3>3. 1..sent[Other(x)] \subseteq 1..MaxData[Other(x)]
      BY <3>1, <3>2 DEF FlowSide
    <3>4. \A i \in 1..Len(pend[x]) : pend[x][i] \in 1..MaxData[Other(x)]
      BY <3>2, <3>3 DEF FlowSide, Flow
    <3>5. \A i \in 1..Len(got[x]) : got[x][i] \in 1..MaxData[Other(x)]
      BY <3>2, <3>3 DEF FlowSide, Flow
    <3> QED BY <3>1, <3>2, <3>4, <3>5, SeqOf DEF FlowSide
  <2>2. ASSUME NEW x \in Sides PROVE sent[x] \in 0..MaxData[x]
    <3>1. FlowSide(Other(x)) /\ Other(Other(x)) = x /\ sent[x] \in Nat /\ MaxData[x] \in Nat
      BY TwoSides, TunnelAssumption DEF TunnelInv, DataTypes
    <3> QED BY <3>1 DEF FlowSide
  <2> QED BY <2>1, <2>2 DEF TunnelInv, ControlTypes, TypeOK
<1> QED BY <1>1, TunnelInvariant, PTL

\* No data before the keys: a call gets past the handshake, and data goes out or to
\* the program, only on a side whose key exchange is over.
THEOREM KeysComeFirst == Spec => []NoDataBeforeKeys
<1>1. TunnelInv => NoDataBeforeKeys
  <2> SUFFICES ASSUME TunnelInv, NEW x \in Sides
               PROVE  /\ \A k \in Kinds : pc[x][k] \in {"ready", "read"} => keyed[x]
                      /\ sent[x] > 0 \/ got[x] # <<>> => keyed[x]
    BY DEF NoDataBeforeKeys
  <2>1. HsSide(x) /\ FlowSide(x) /\ FlowSide(Other(x)) /\ Other(Other(x)) = x
    BY TwoSides DEF TunnelInv, HsInv
  <2> QED BY <2>1 DEF HsSide, FlowSide
<1> QED BY <1>1, TunnelInvariant, PTL

\* Recv returns the data packets in the order they were sent when it ran the
\* handshake itself, those that came during the handshake included.
THEOREM RecvKeepsOrder == Spec => []RecvInOrder
<1>1. TunnelInv => RecvInOrder
  BY DEF TunnelInv, OrderSide, Order, RecvInOrder
<1> QED BY <1>1, TunnelInvariant, PTL
(***************************************************************************)
(* No early data is lost.                                                  *)
(***************************************************************************)

\* The packets, out of s that were sent, that are in one of the three places.
Present(q, p, g, s) == {m \in 1..s : Somewhere(m, q, p, g)}

\* All of them are there, or as many as handshakeRecvedPackets holds.
AllOrMany(q, p, g, s) ==
  \/ \A m \in 1..s : Somewhere(m, q, p, g)
  \/ Cardinality(Present(q, p, g, s)) >= PendCap

KeptSide(y) == lost = 0 => AllOrMany(net[y], pend[y], got[y], sent[Other(y)])

KeptInv == TunnelInv /\ \A y \in Sides : KeptSide(y)

\* The set is finite.
LEMMA PresentFinite ==
  ASSUME NEW q, NEW p, NEW g, NEW s \in Nat
  PROVE  IsFiniteSet(Present(q, p, g, s)) /\ Cardinality(Present(q, p, g, s)) \in Nat
<1>1. IsFiniteSet(1..s)
  BY FS_Interval
<1>2. Present(q, p, g, s) \in SUBSET (1..s)
  BY DEF Present
<1> QED BY <1>1, <1>2, FS_Subset, FS_CardinalityType

\* A step after which nothing is gone.
LEMMA NothingGone ==
  ASSUME NEW q, NEW p, NEW g, NEW s \in Nat, NEW nq, NEW np, NEW ng, NEW ns \in Nat, s <= ns,
         \A m \in 1..s : Somewhere(m, q, p, g) => Somewhere(m, nq, np, ng),
         \A m \in 1..ns : m \in 1..s \/ Somewhere(m, nq, np, ng),
         AllOrMany(q, p, g, s)
  PROVE  AllOrMany(nq, np, ng, ns)
<1>1. CASE \A m \in 1..s : Somewhere(m, q, p, g)
  BY <1>1 DEF AllOrMany
<1>2. CASE Cardinality(Present(q, p, g, s)) >= PendCap
  <2> DEFINE S == Present(q, p, g, s)
             T == Present(nq, np, ng, ns)
  <2>1. S \in SUBSET T
    BY DEF Present
  <2>2. IsFiniteSet(T) /\ Cardinality(T) \in Nat /\ Cardinality(S) \in Nat
    BY PresentFinite
  <2>3. Cardinality(S) <= Cardinality(T)
    <3> HIDE DEF S, T
    <3> QED BY <2>1, <2>2, FS_Subset
  <2> QED BY <1>2, <2>2, <2>3, TunnelAssumption DEF AllOrMany
<1> QED BY <1>1, <1>2 DEF AllOrMany

\* handshakeRecvedPackets holds as many different packets as it is long.
LEMMA FullIsMany ==
  ASSUME NEW q \in Seq(Packet), NEW p \in Seq(Nat), NEW g \in Seq(Nat), NEW s \in Nat,
         Flow(q, p, g, s), Len(p) >= PendCap
  PROVE  AllOrMany(q, p, g, s)
<1> DEFINE T == Present(q, p, g, s)
<1>1. Len(p) \in Nat /\ p \in [1..Len(p) -> Nat]
  BY LenProperties
<1>2. \A i \in 1..Len(p) : p[i] \in T
  BY DEF Flow, Present, Somewhere
<1>3. IsFiniteSet(T) /\ Cardinality(T) \in Nat
  BY PresentFinite
<1> HIDE DEF T
<1>4. \A i, j \in 1..Len(p) : p[i] = p[j] => i = j
  <2> SUFFICES ASSUME NEW i \in 1..Len(p), NEW j \in 1..Len(p), p[i] = p[j], i # j PROVE FALSE
    OBVIOUS
  <2>1. p[i] \in Nat /\ p[j] \in Nat /\ (i < j \/ j < i)
    BY <1>1
  <2>2. (i < j => p[i] < p[j]) /\ (j < i => p[j] < p[i])
    BY DEF Flow, Increasing
  <2> QED BY <2>1, <2>2
<1>5. p \in Injection(1..Len(p), T)
  BY <1>1, <1>2, <1>4 DEF Injection, IsInjective
<1>6. Cardinality(1..Len(p)) <= Cardinality(T)
  BY <1>3, <1>5, FS_Injection
<1>7. Cardinality(1..Len(p)) = Len(p)
  <2>1. 1 \in Int /\ Len(p) \in Int
    BY <1>1
  <2>2. Cardinality(1..Len(p)) = IF 1 > Len(p) THEN 0 ELSE Len(p) - 1 + 1
    BY <2>1, FS_Interval, Zenon
  <2> QED BY <1>1, <2>2
<1> QED BY <1>1, <1>3, <1>6, <1>7, TunnelAssumption DEF AllOrMany, T

\* The network loses one packet at a time.
LEMMA LossCounts == ASSUME ControlTypes, Next PROVE lost' = lost \/ lost' = lost + 1
BY DEF Next, Handshake, Call, Waited, Handshaked, HandshakeFails, Retch, Inner, HSelect, HRead,
       HReadFails, Recv, RecvPend, RecvEnter, RecvRead, RecvFails, Send, SendFails, Retransmit,
       Keepalive, Lose, Close, netVars

\* The packets on their way to y are still there, or there are many of them.
LEMMA DataStepLosesNothing ==
  ASSUME TunnelInv, NEW y \in Sides, KeptSide(y), DataStep(y), lost' = lost \/ lost' = lost + 1
  PROVE  KeptSide(y)'
<1> DEFINE q == net[y]
           p == pend[y]
           g == got[y]
           s == sent[Other(y)]
           nq == net'[y]
           np == pend'[y]
           ng == got'[y]
           ns == sent'[Other(y)]
           Done == AllOrMany(nq, np, ng, ns)
<1> SUFFICES ASSUME lost' = 0 PROVE Done
  BY DEF KeptSide
<1>1. q \in Seq(Packet) /\ p \in Seq(Nat) /\ g \in Seq(Nat) /\ s \in Nat /\ Flow(q, p, g, s)
  BY TwoSides DEF TunnelInv, DataTypes, FlowSide
<1>2. lost = 0 /\ lost' # lost + 1
  BY DEF TunnelInv, ControlTypes
<1>3. AllOrMany(q, p, g, s)
  BY <1>2 DEF KeptSide
<1>4. ASSUME ns = s, \A m \in Nat : Somewhere(m, nq, np, ng) <=> Somewhere(m, q, p, g)
      PROVE  Done
  <2> HIDE DEF q, p, g, s, nq, np, ng, ns
  <2>1. \A m \in 1..s : Somewhere(m, q, p, g) => Somewhere(m, nq, np, ng)
    BY <1>4
  <2> QED BY <1>1, <1>3, <1>4, <2>1, NothingGone
<1> HIDE DEF q, p, g, s, nq, np, ng, ns, Done
<1>5. ASSUME Same(y) PROVE Done
  <2>1. nq = q /\ np = p /\ ng = g /\ ns = s
    BY <1>5 DEF Same, nq, np, ng, ns, q, p, g, s
  <2> QED BY <1>4, <2>1
<1>6. ASSUME AddsTcp(y) PROVE Done
  <2>1. PICK b \in Packet : IsBuiltin(b) /\ nq = Append(q, b)
    BY <1>6 DEF AddsTcp, nq, q
  <2>2. np = p /\ ng = g /\ ns = s
    BY <1>6 DEF AddsTcp, np, ng, ns, p, g, s
  <2>3. \A m \in Nat : Somewhere(m, nq, p, g) <=> Somewhere(m, q, p, g)
    BY <1>1, <2>1, TcpJoins
  <2> QED BY <1>4, <2>2, <2>3
<1>7. ASSUME Drops(y) PROVE Done
  <2>1. /\ Len(q) > 0 /\ nq = Tail(q) /\ np = p /\ ng = g /\ ns = s
        /\ IsBuiltin(Head(q)) \/ Len(p) >= PendCap
    BY <1>2, <1>7 DEF Drops, First, nq, np, ng, ns, q, p, g, s
  <2>2. /\ nq \in Seq(Packet) /\ Flow(nq, p, g, s)
        /\ IsBuiltin(Head(q)) => \A m \in Nat : Somewhere(m, nq, p, g) <=> Somewhere(m, q, p, g)
    BY <1>1, <2>1, FirstGoes
  <2>3. CASE IsBuiltin(Head(q))
    BY <1>4, <2>1, <2>2, <2>3
  <2>4. CASE Len(p) >= PendCap
    <3>1. AllOrMany(nq, p, g, s)
      BY <1>1, <2>2, <2>4, FullIsMany
    <3> QED BY <2>1, <3>1 DEF Done
  <2> QED BY <2>1, <2>3, <2>4
<1>8. ASSUME Keeps(y) PROVE Done
  <2>1. /\ Len(q) > 0 /\ ~IsBuiltin(Head(q)) /\ nq = Tail(q) /\ np = Append(p, Head(q).n)
        /\ ng = g /\ ns = s
    BY <1>8 DEF Keeps, First, nq, np, ng, ns, q, p, g, s
  <2>2. \A m \in Nat : Somewhere(m, nq, np, g) <=> Somewhere(m, q, p, g)
    BY <1>1, <2>1, FirstKept
  <2> QED BY <1>4, <2>1, <2>2
<1>9. ASSUME Returns(y) PROVE Done
  <2>1. Len(p) > 0 /\ np = Tail(p) /\ ng = Append(g, Head(p)) /\ nq = q /\ ns = s
    BY <1>9 DEF Returns, nq, np, ng, ns, q, p, g, s
  <2>2. \A m \in Nat : Somewhere(m, q, np, ng) <=> Somewhere(m, q, p, g)
    BY <1>1, <2>1, KeptReturned
  <2> QED BY <1>4, <2>1, <2>2
<1>10. ASSUME Receives(y) PROVE Done
  <2>1. /\ Len(q) > 0 /\ ~IsBuiltin(Head(q)) /\ nq = Tail(q) /\ ng = Append(g, Head(q).n)
        /\ np = p /\ ns = s
    BY <1>10 DEF Receives, First, nq, np, ng, ns, q, p, g, s
  <2>2. \A m \in Nat : Somewhere(m, nq, p, ng) <=> Somewhere(m, q, p, g)
    BY <1>1, <2>1, FirstReturned
  <2> QED BY <1>4, <2>1, <2>2
<1>11. ASSUME Sends(y) PROVE Done
  <2>1. nq = Append(q, Data(s + 1)) /\ ns = s + 1 /\ np = p /\ ng = g
    BY <1>11 DEF Sends, nq, np, ng, ns, q, p, g, s
  <2>2. \A m \in Nat : Somewhere(m, nq, p, g) <=> Somewhere(m, q, p, g) \/ m = s + 1
    BY <1>1, <2>1, DataJoins
  <2>3. ns \in Nat /\ s <= ns
    BY <1>1, <2>1
  <2>4. \A m \in 1..s : Somewhere(m, q, p, g) => Somewhere(m, nq, np, ng)
    BY <2>1, <2>2
  <2>5. \A m \in 1..ns : m \in 1..s \/ Somewhere(m, nq, np, ng)
    BY <1>1, <2>1, <2>2
  <2>6. AllOrMany(nq, np, ng, ns)
    BY <1>1, <1>3, <2>3, <2>4, <2>5, NothingGone
  <2> QED BY <2>6 DEF Done
<1> QED BY <1>5, <1>6, <1>7, <1>8, <1>9, <1>10, <1>11 DEF DataStep

\* What arrived, is kept or is on its way, of the model, is the set above.
LEMMA ArrivedIsPresent ==
  ASSUME TunnelInv, NEW y \in Sides
  PROVE  Arrived(y) = Present(net[y], pend[y], got[y], sent[Other(y)])
<1>1. Flow(net[y], pend[y], got[y], sent[Other(y)])
  BY DEF TunnelInv, FlowSide
<1>2. \A m : m \in Arrived(y) <=> Somewhere(m, net[y], pend[y], got[y])
  BY DEF Arrived, Somewhere
<1>3. \A m \in Arrived(y) : m \in 1..sent[Other(y)]
  BY <1>1 DEF Arrived, Flow
<1> QED BY <1>2, <1>3 DEF Present

\* No early data is lost: as long as the network lost nothing, whatever was sent is
\* on its way, kept by the handshake or returned by Recv, unless the handshake had
\* as many packets to keep as handshakeRecvedPackets holds.
THEOREM EarlyDataIsKept == Spec => []EarlyDataKept
<1>1. Init => KeptInv
  <2> SUFFICES ASSUME Init, NEW y \in Sides PROVE KeptSide(y)
    BY TunnelInvInit DEF KeptInv
  <2>1. sent[Other(y)] = 0
    BY TwoSides DEF Init
  <2> QED BY <2>1 DEF KeptSide, AllOrMany
<1>2. KeptInv /\ [Next]_vars => KeptInv'
  <2>1. ASSUME KeptInv, Next PROVE \A y \in Sides : KeptSide(y)'
    <3>1. \A y \in Sides : DataStep(y)
      BY <2>1, StepMovesData DEF KeptInv, TunnelInv
    <3>2. lost' = lost \/ lost' = lost + 1
      BY <2>1, LossCounts DEF KeptInv, TunnelInv
    <3> QED BY <2>1, <3>1, <3>2, DataStepLosesNothing DEF KeptInv
  <2>2. ASSUME KeptInv, UNCHANGED vars PROVE \A y \in Sides : KeptSide(y)'
    BY <2>2 DEF KeptInv, KeptSide, vars, dataVars, netVars
  <2> QED BY <2>1, <2>2, TunnelInvStep DEF KeptInv
<1>3. KeptInv => EarlyDataKept
  <2> SUFFICES ASSUME KeptInv, lost = 0, NEW x \in Sides
               PROVE  \/ Arrived(x) = 1..sent[Other(x)] \/ Cardinality(Arrived(x)) >= PendCap
    BY DEF EarlyDataKept
  <2>1. AllOrMany(net[x], pend[x], got[x], sent[Other(x)])
    BY DEF KeptInv, KeptSide
  <2>2. Arrived(x) = Present(net[x], pend[x], got[x], sent[Other(x)])
    BY ArrivedIsPresent DEF KeptInv
  <2> QED BY <2>1, <2>2 DEF AllOrMany, Present
<1> QED BY <1>1, <1>2, <1>3, PTL DEF Spec
=============================================================================
