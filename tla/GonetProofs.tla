----------------------------- MODULE GonetProofs -----------------------------
(***************************************************************************)
(* The blocking calls of gonet for any number of goroutines, deadlines,    *)
(* bytes and peers and any size of the send buffer.                        *)
(***************************************************************************)
EXTENDS Gonet, SequenceTheorems, TLAPS

(***************************************************************************)
(* Deadlines.  A channel is closed by one of two: the timer whose function *)
(* captured it, or setDeadline with an expired time.  That they never meet *)
(* on one channel takes the whole invariant: the current channel is always *)
(* the last one made; a timer that has fired, or was stopped for an        *)
(* expired time, marks its channel as one that is closed or will be; and   *)
(* the next setDeadline leaves such a channel behind.                      *)
(***************************************************************************)

TimerTypes ==
  /\ side \in [Dirs -> [ch : Nat, made : Nat, timer : {"nil", "armed", "spent"}]]
  /\ closed \in SUBSET (Dirs \X Nat)
  /\ firing \in SUBSET [dir : Dirs, ch : Nat, set : Nat]
  /\ passed \in [Dirs -> BOOLEAN]
  /\ sets \in Nat

\* No channel beyond the current one has been made, closed or captured.
Newest == \A d \in Dirs :
  /\ side[d].ch = side[d].made
  /\ \A c \in Nat : <<d, c>> \in closed => c <= side[d].ch
  /\ \A f \in firing : f.dir = d => f.ch <= side[d].ch

\* A channel has one timer function at most, which finds it open.
OneCloser ==
  /\ \A f \in firing : <<f.dir, f.ch>> \notin closed
  /\ \A f, g \in firing : f.dir = g.dir /\ f.ch = g.ch => f = g

\* What the timer says of the current channel.
TimerTells == \A d \in Dirs :
  /\ side[d].timer # "spent" => \A f \in firing : ~(f.dir = d /\ f.ch = side[d].ch)
  /\ side[d].timer = "armed" => <<d, side[d].ch>> \notin closed
  /\ side[d].timer = "spent" => Closing(d, side[d].ch)

PassedExact == \A d \in Dirs : Closing(d, side[d].ch) <=> passed[d]

TimerInv == TimerTypes /\ Newest /\ OneCloser /\ TimerTells /\ PassedExact /\ ~panicked

\* The three kinds of step that touch deadlines; the calls and the endpoint leave
\* them alone.
LEMMA TimerSteps ==
  Next => \/ \E D \in SUBSET Dirs, t \in Times : SetDeadlines(D, t)
          \/ \E d \in Dirs : Fire(d)
          \/ AfterFunc
          \/ UNCHANGED timerVars
<1> SUFFICES ASSUME Next
             PROVE  \/ \E D \in SUBSET Dirs, t \in Times : SetDeadlines(D, t)
                    \/ \E d \in Dirs : Fire(d)
                    \/ AfterFunc
                    \/ UNCHANGED timerVars
  OBVIOUS
<1>1. ASSUME NEW g \in Callers, Begin(g) \/ Call(g) \/ Cancel(g) PROVE UNCHANGED timerVars
  BY <1>1 DEF Begin, Call, Check, TryRead, TryWrite, TryWriteTo, TryAccept, Register, Notified,
              Interrupted, Return, Block, Goto, Cancel, EpStep
<1>2. ASSUME \/ Arrive \/ Drain \/ CloseRead \/ CloseWrite \/ Close
             \/ Established \/ Shutdown \/ ListenerClose
      PROVE  UNCHANGED timerVars
  BY <1>2 DEF Arrive, Drain, CloseRead, CloseWrite, Close, Established, Shutdown,
              ListenerClose, EpStep
<1>3. ASSUME NEW t \in Times, SetReadDeadline(t) \/ SetWriteDeadline(t) \/ SetDeadline(t)
      PROVE  \E D \in SUBSET Dirs : SetDeadlines(D, t)
  BY <1>3 DEF SetReadDeadline, SetWriteDeadline, SetDeadline, Dirs
<1> QED BY <1>1, <1>2, <1>3 DEF Next

\* The channel a deadline goes on with is open and no timer has captured it.
LEMMA NewChIsFresh ==
  ASSUME TimerInv, NEW d \in Dirs
  PROVE  /\ NewCh(d) \in Nat /\ side[d].ch <= NewCh(d)
         /\ <<d, NewCh(d)>> \notin closed
         /\ \A f \in firing : ~(f.dir = d /\ f.ch = NewCh(d))
<1>1. side[d].ch \in Nat /\ side[d].made = side[d].ch
      /\ side[d].timer \in {"nil", "armed", "spent"}
  BY DEF TimerInv, TimerTypes, Newest
<1>2. CASE Renews(d)
  <2>1. NewCh(d) = side[d].ch + 1
    BY <1>1, <1>2 DEF NewCh
  <2>2. \A f \in firing : f.dir = d => f.ch <= side[d].ch /\ f.ch \in Nat
    BY DEF TimerInv, TimerTypes, Newest
  <2>3. <<d, side[d].ch + 1>> \notin closed
    BY <1>1 DEF TimerInv, Newest
  <2> QED BY <1>1, <2>1, <2>2, <2>3
<1>3. CASE ~Renews(d)
  BY <1>1, <1>3 DEF NewCh, Renews, TimerInv, TimerTells
<1> QED BY <1>2, <1>3

\* A deadline that is set, whatever timer it finds, keeps the invariant.
LEMMA SetDeadlinesKeeps ==
  ASSUME TimerInv, NEW D \in SUBSET Dirs, NEW t \in Times, SetDeadlines(D, t)
  PROVE  TimerInv'
<1> DEFINE expired == IF t = "past" THEN {<<d, NewCh(d)>> : d \in D} ELSE {}
<1>1. /\ side' = [d \in Dirs |-> IF d \notin D THEN side[d] ELSE
                [ch |-> NewCh(d), timer |-> NewTimer(d, t),
                 made |-> IF Renews(d) THEN side[d].made + 1 ELSE side[d].made]]
      /\ panicked' = (panicked \/ expired \cap closed # {})
      /\ closed' = closed \cup expired
      /\ passed' = [d \in Dirs |-> IF d \in D THEN t = "past" ELSE passed[d]]
      /\ firing' = firing /\ sets' = sets + 1
  BY DEF SetDeadlines
<1>2. \A d \in Dirs : /\ NewCh(d) \in Nat /\ side[d].ch <= NewCh(d)
                      /\ <<d, NewCh(d)>> \notin closed
                      /\ \A f \in firing : ~(f.dir = d /\ f.ch = NewCh(d))
  BY NewChIsFresh
<1>3. \A d \in Dirs : /\ side[d].ch \in Nat /\ side[d].made = side[d].ch
                      /\ side[d].timer \in {"nil", "armed", "spent"}
                      /\ NewTimer(d, t) \in {"nil", "armed", "spent"}
                      /\ NewTimer(d, t) = "armed" => t # "past"
                      /\ NewTimer(d, t) = "spent" => t = "past"
  BY DEF TimerInv, TimerTypes, Newest, NewTimer, Times
<1>4. \A d \in Dirs : d \in D =>
        /\ side'[d].ch = NewCh(d) /\ side'[d].made = NewCh(d) /\ side'[d].timer = NewTimer(d, t)
        /\ passed'[d] = (t = "past")
  BY <1>1, <1>3 DEF NewCh
<1>5. \A d \in Dirs : d \notin D => side'[d] = side[d] /\ passed'[d] = passed[d]
  BY <1>1
<1>6. \A d \in Dirs, c \in Nat :
        <<d, c>> \in closed' <=> <<d, c>> \in closed \/ (t = "past" /\ d \in D /\ c = NewCh(d))
  BY <1>1
<1>7. TimerTypes'
  <2>1. side' \in [Dirs -> [ch : Nat, made : Nat, timer : {"nil", "armed", "spent"}]]
    <3>1. ASSUME NEW d \in Dirs, d \in D
          PROVE  [ch |-> NewCh(d), timer |-> NewTimer(d, t),
                  made |-> IF Renews(d) THEN side[d].made + 1 ELSE side[d].made]
                   \in [ch : Nat, made : Nat, timer : {"nil", "armed", "spent"}]
      <4>1. (IF Renews(d) THEN side[d].made + 1 ELSE side[d].made) \in Nat
        BY <1>3
      <4> QED BY <1>2, <1>3, <4>1
    <3>2. \A d \in Dirs : side[d] \in [ch : Nat, made : Nat, timer : {"nil", "armed", "spent"}]
      BY DEF TimerInv, TimerTypes
    <3> QED BY <1>1, <3>1, <3>2
  <2>2. closed' \in SUBSET (Dirs \X Nat)
    BY <1>1, <1>2 DEF TimerInv, TimerTypes
  <2>3. passed' \in [Dirs -> BOOLEAN]
    BY <1>1 DEF TimerInv, TimerTypes
  <2> QED BY <1>1, <2>1, <2>2, <2>3 DEF TimerInv, TimerTypes
<1>8. ~panicked'
  BY <1>1, <1>2 DEF TimerInv
<1>9. Newest'
  <2> SUFFICES ASSUME NEW d \in Dirs
               PROVE  /\ side'[d].ch = side'[d].made
                      /\ \A c \in Nat : <<d, c>> \in closed' => c <= side'[d].ch
                      /\ \A f \in firing : f.dir = d => f.ch <= side'[d].ch
    BY <1>1 DEF Newest
  <2>1. /\ \A c \in Nat : <<d, c>> \in closed => c <= side[d].ch
        /\ \A f \in firing : f.dir = d => f.ch <= side[d].ch /\ f.ch \in Nat
    BY DEF TimerInv, TimerTypes, Newest
  <2>2. CASE d \in D
    <3>1. side'[d].ch = NewCh(d) /\ side'[d].made = NewCh(d)
      BY <1>4, <2>2
    <3>2. NewCh(d) \in Nat /\ side[d].ch \in Nat /\ side[d].ch <= NewCh(d)
      BY <1>2, <1>3
    <3>3. ASSUME NEW c \in Nat, <<d, c>> \in closed' PROVE c <= NewCh(d)
      <4>1. <<d, c>> \in closed \/ c = NewCh(d)
        BY <1>6, <3>3
      <4>2. <<d, c>> \in closed => c <= side[d].ch
        BY <2>1
      <4> QED BY <3>2, <4>1, <4>2
    <3>4. ASSUME NEW f \in firing, f.dir = d PROVE f.ch <= NewCh(d)
      <4>1. f.ch <= side[d].ch /\ f.ch \in Nat
        BY <2>1, <3>4
      <4> QED BY <3>2, <4>1
    <3> QED BY <3>1, <3>3, <3>4
  <2>3. CASE d \notin D
    BY <1>3, <1>5, <1>6, <2>1, <2>3
  <2> QED BY <2>2, <2>3
<1>10. OneCloser'
  <2>1. ASSUME NEW f \in firing PROVE <<f.dir, f.ch>> \notin closed'
    <3>1. f.dir \in Dirs /\ f.ch \in Nat /\ <<f.dir, f.ch>> \notin closed
      BY DEF TimerInv, TimerTypes, OneCloser
    <3> QED BY <1>2, <1>6, <3>1
  <2> QED BY <1>1, <2>1 DEF TimerInv, OneCloser
<1>11. ASSUME NEW d \in Dirs, d \notin D
       PROVE  \A c \in Nat : Closing(d, c)' <=> Closing(d, c)
  BY <1>1, <1>6, <1>11 DEF Closing
<1>12. ASSUME NEW d \in Dirs, d \in D
       PROVE  \A c \in Nat : c = NewCh(d) => (Closing(d, c)' <=> t = "past")
  BY <1>1, <1>2, <1>6, <1>12 DEF Closing
<1>13. TimerTells' /\ PassedExact'
  <2> SUFFICES ASSUME NEW d \in Dirs, NEW c \in Nat, c = side'[d].ch
               PROVE  /\ side'[d].timer # "spent" => \A f \in firing : ~(f.dir = d /\ f.ch = c)
                      /\ side'[d].timer = "armed" => <<d, c>> \notin closed'
                      /\ side'[d].timer = "spent" => Closing(d, c)'
                      /\ Closing(d, c)' <=> passed'[d]
    BY <1>1, <1>7 DEF TimerTells, PassedExact, TimerTypes, Closing
  <2>1. CASE d \in D
    <3>1. /\ c = NewCh(d) /\ side'[d].timer = NewTimer(d, t) /\ passed'[d] = (t = "past")
      BY <1>4, <2>1
    <3>2. \A f \in firing : ~(f.dir = d /\ f.ch = c)
      BY <1>2, <3>1
    <3>3. NewTimer(d, t) = "armed" => t # "past"
      BY <1>3
    <3>4. NewTimer(d, t) = "spent" => t = "past"
      BY <1>3
    <3>5. <<d, c>> \in closed' => t = "past"
      BY <1>2, <1>6, <3>1
    <3>6. Closing(d, c)' <=> t = "past"
      BY <1>12, <2>1, <3>1
    <3> QED BY <3>1, <3>2, <3>3, <3>4, <3>5, <3>6
  <2>2. CASE d \notin D
    <3>1. /\ side[d].timer # "spent" => \A f \in firing : ~(f.dir = d /\ f.ch = c)
          /\ side[d].timer = "armed" => <<d, c>> \notin closed
          /\ side[d].timer = "spent" => Closing(d, c)
          /\ Closing(d, c) <=> passed[d]
      BY <1>5, <2>2 DEF TimerInv, TimerTells, PassedExact
    <3> QED BY <1>5, <1>6, <1>11, <2>2, <3>1
  <2> QED BY <2>1, <2>2
<1> QED BY <1>7, <1>8, <1>9, <1>10, <1>13 DEF TimerInv

\* A timer expires: it was armed, so its channel is open and has no other function.
LEMMA FireKeeps ==
  ASSUME TimerInv, NEW e \in Dirs, Fire(e)
  PROVE  TimerInv'
<1> DEFINE new == [dir |-> e, ch |-> side[e].ch, set |-> sets]
<1>1. /\ side[e].timer = "armed"
      /\ side' = [side EXCEPT ![e].timer = "spent"]
      /\ firing' = firing \cup {new}
      /\ passed' = [passed EXCEPT ![e] = TRUE]
      /\ closed' = closed /\ sets' = sets /\ panicked' = panicked
  BY DEF Fire
<1>2. /\ <<e, side[e].ch>> \notin closed
      /\ \A f \in firing : ~(f.dir = e /\ f.ch = side[e].ch)
  BY <1>1 DEF TimerInv, TimerTells
<1>3. \A d \in Dirs : /\ side[d] \in [ch : Nat, made : Nat, timer : {"nil", "armed", "spent"}]
                      /\ side[d].ch \in Nat
  BY DEF TimerInv, TimerTypes
<1>4. \A d \in Dirs : side'[d].ch = side[d].ch /\ side'[d].made = side[d].made
  BY <1>1, <1>3 DEF TimerInv, TimerTypes
<1>5. \A d \in Dirs : side'[d].timer = IF d = e THEN "spent" ELSE side[d].timer
  BY <1>1, <1>3 DEF TimerInv, TimerTypes
<1>6. \A d \in Dirs : passed'[d] = IF d = e THEN TRUE ELSE passed[d]
  BY <1>1 DEF TimerInv, TimerTypes
<1>7. /\ new \in [dir : Dirs, ch : Nat, set : Nat]
      /\ new.dir = e /\ new.ch = side[e].ch
  BY <1>3 DEF TimerInv, TimerTypes
<1> HIDE DEF new
<1>8. TimerTypes'
  <2>1. side' \in [Dirs -> [ch : Nat, made : Nat, timer : {"nil", "armed", "spent"}]]
    BY <1>1, <1>3 DEF TimerInv, TimerTypes
  <2>2. firing' \in SUBSET [dir : Dirs, ch : Nat, set : Nat]
    BY <1>1, <1>7 DEF TimerInv, TimerTypes
  <2>3. passed' \in [Dirs -> BOOLEAN]
    BY <1>1 DEF TimerInv, TimerTypes
  <2> QED BY <1>1, <2>1, <2>2, <2>3 DEF TimerInv, TimerTypes
<1>9. Newest'
  <2> SUFFICES ASSUME NEW d \in Dirs
               PROVE  /\ side'[d].ch = side'[d].made
                      /\ \A c \in Nat : <<d, c>> \in closed' => c <= side'[d].ch
                      /\ \A f \in firing' : f.dir = d => f.ch <= side'[d].ch
    BY DEF Newest
  <2>1. /\ side[d].ch = side[d].made
        /\ \A c \in Nat : <<d, c>> \in closed => c <= side[d].ch
        /\ \A f \in firing : f.dir = d => f.ch <= side[d].ch
    BY DEF TimerInv, Newest
  <2>2. new.dir = d => new.ch <= side[d].ch
    BY <1>3, <1>7
  <2> QED BY <1>1, <1>4, <2>1, <2>2
<1>10. OneCloser'
  <2>1. \A f \in firing' : <<f.dir, f.ch>> \notin closed'
    BY <1>1, <1>2, <1>7 DEF TimerInv, OneCloser
  <2>2. \A f, g \in firing' : f.dir = g.dir /\ f.ch = g.ch => f = g
    BY <1>1, <1>2, <1>7 DEF TimerInv, OneCloser
  <2> QED BY <2>1, <2>2 DEF OneCloser
<1>11. \A d \in Dirs, c \in Nat : Closing(d, c)' <=> Closing(d, c) \/ (d = e /\ c = side[e].ch)
  BY <1>1, <1>7 DEF Closing
<1>12. TimerTells' /\ PassedExact'
  <2> SUFFICES ASSUME NEW d \in Dirs, NEW c \in Nat, c = side[d].ch
               PROVE  /\ side'[d].timer # "spent" => \A f \in firing' : ~(f.dir = d /\ f.ch = c)
                      /\ side'[d].timer = "armed" => <<d, c>> \notin closed'
                      /\ side'[d].timer = "spent" => Closing(d, c)'
                      /\ Closing(d, c)' <=> passed'[d]
    BY <1>3, <1>4 DEF TimerTells, PassedExact, Closing
  <2>1. /\ side[d].timer # "spent" => \A f \in firing : ~(f.dir = d /\ f.ch = c)
        /\ side[d].timer = "armed" => <<d, c>> \notin closed
        /\ side[d].timer = "spent" => Closing(d, c)
        /\ Closing(d, c) <=> passed[d]
    BY DEF TimerInv, TimerTells, PassedExact
  <2>2. CASE d = e
    BY <1>5, <1>6, <1>11, <2>2
  <2>3. CASE d # e
    <3>1. \A f \in firing' : f.dir = d => f \in firing
      BY <1>1, <1>7, <2>3
    <3>2. side'[d].timer = side[d].timer /\ passed'[d] = passed[d]
      BY <1>5, <1>6, <2>3
    <3> QED BY <1>1, <1>11, <2>1, <2>3, <3>1, <3>2
  <2> QED BY <2>2, <2>3
<1> QED BY <1>1, <1>8, <1>9, <1>10, <1>12 DEF TimerInv

\* The function of a timer closes its channel, which nobody else has closed or will.
LEMMA AfterFuncKeeps ==
  ASSUME TimerInv, AfterFunc
  PROVE  TimerInv'
<1>1. PICK e \in firing :
        /\ firing' = firing \ {e}
        /\ panicked' = (panicked \/ <<e.dir, e.ch>> \in closed)
        /\ closed' = closed \cup {<<e.dir, e.ch>>}
        /\ side' = side /\ passed' = passed /\ sets' = sets
  BY DEF AfterFunc
<1>2. e.dir \in Dirs /\ e.ch \in Nat /\ <<e.dir, e.ch>> \notin closed
  <2>1. e \in [dir : Dirs, ch : Nat, set : Nat]
    BY DEF TimerInv, TimerTypes
  <2>2. <<e.dir, e.ch>> \notin closed
    BY DEF TimerInv, OneCloser
  <2> QED BY <2>1, <2>2
<1>3. TimerTypes' /\ ~panicked'
  <2>1. closed' \in SUBSET (Dirs \X Nat)
    BY <1>1, <1>2 DEF TimerInv, TimerTypes
  <2>2. firing' \in SUBSET [dir : Dirs, ch : Nat, set : Nat]
    BY <1>1 DEF TimerInv, TimerTypes
  <2>3. ~panicked'
    BY <1>1, <1>2 DEF TimerInv
  <2> QED BY <1>1, <2>1, <2>2, <2>3 DEF TimerInv, TimerTypes
<1>4. Newest'
  <2> SUFFICES ASSUME NEW d \in Dirs
               PROVE  /\ side[d].ch = side[d].made
                      /\ \A c \in Nat : <<d, c>> \in closed' => c <= side[d].ch
                      /\ \A f \in firing' : f.dir = d => f.ch <= side[d].ch
    BY <1>1 DEF Newest
  <2>1. /\ side[d].ch = side[d].made
        /\ \A c \in Nat : <<d, c>> \in closed => c <= side[d].ch
        /\ \A f \in firing : f.dir = d => f.ch <= side[d].ch
    BY DEF TimerInv, Newest
  <2> QED BY <1>1, <1>2, <2>1
<1>5. OneCloser'
  <2>1. ASSUME NEW f \in firing' PROVE <<f.dir, f.ch>> \notin closed'
    <3>1. f \in firing /\ f # e /\ <<f.dir, f.ch>> \notin closed
      BY <1>1 DEF TimerInv, OneCloser
    <3>2. ~(f.dir = e.dir /\ f.ch = e.ch)
      BY <3>1 DEF TimerInv, OneCloser
    <3> QED BY <1>1, <3>1, <3>2
  <2> QED BY <1>1, <2>1 DEF TimerInv, OneCloser
<1>6. \A d \in Dirs, c \in Nat : Closing(d, c)' <=> Closing(d, c)
  BY <1>1 DEF Closing
<1>7. TimerTells' /\ PassedExact'
  <2> SUFFICES ASSUME NEW d \in Dirs, NEW c \in Nat, c = side[d].ch
               PROVE  /\ side[d].timer # "spent" => \A f \in firing' : ~(f.dir = d /\ f.ch = c)
                      /\ side[d].timer = "armed" => <<d, c>> \notin closed'
                      /\ side[d].timer = "spent" => Closing(d, c)'
                      /\ Closing(d, c)' <=> passed[d]
    BY <1>1 DEF TimerInv, TimerTypes, TimerTells, PassedExact, Closing
  <2>1. /\ side[d].timer # "spent" => \A f \in firing : ~(f.dir = d /\ f.ch = c)
        /\ side[d].timer = "armed" => <<d, c>> \notin closed
        /\ side[d].timer = "spent" => Closing(d, c)
        /\ Closing(d, c) <=> passed[d]
    BY DEF TimerInv, TimerTells, PassedExact
  <2> QED BY <1>1, <1>2, <1>6, <2>1
<1> QED BY <1>3, <1>4, <1>5, <1>7 DEF TimerInv

\* Deadlines start exact.
LEMMA TimerInvInit == Init => TimerInv
<1> SUFFICES ASSUME Init PROVE TimerInv
  OBVIOUS
<1>1. /\ side = [d \in Dirs |-> [ch |-> 0, made |-> 0, timer |-> "nil"]]
      /\ closed = {} /\ firing = {} /\ passed = [d \in Dirs |-> FALSE]
      /\ sets = 0 /\ panicked = FALSE
  BY DEF Init
<1> QED BY <1>1 DEF TimerInv, TimerTypes, Newest, OneCloser, TimerTells, PassedExact, Closing

\* Every step of the program keeps them so.
LEMMA TimerInvStep == TimerInv /\ [Next]_vars => TimerInv'
<1>1. ASSUME TimerInv, UNCHANGED timerVars PROVE TimerInv'
  BY <1>1 DEF timerVars, TimerInv, TimerTypes, Newest, OneCloser, TimerTells, PassedExact, Closing
<1>2. UNCHANGED vars => UNCHANGED timerVars
  BY DEF vars, timerVars
<1> QED BY <1>1, <1>2, TimerSteps, SetDeadlinesKeeps, FireKeeps, AfterFuncKeeps

\* A deadline is exact however deadlines, timers and their functions interleave:
\* the current cancel channel is closed, or about to be, just when the deadline in
\* force has passed, and no channel is closed twice.
THEOREM DeadlinesAreExact == Spec => []DeadlineExact
<1>1. TimerInv => DeadlineExact
  BY DEF TimerInv, PassedExact, DeadlineExact
<1> QED BY <1>1, TimerInvInit, TimerInvStep, PTL DEF Spec

(***************************************************************************)
(* The calls.  What a sleeping call relies on is spread over the endpoint, *)
(* the wait queue, its place in the code and the timers, so the invariant  *)
(* ties them: a call that sleeps, or asks again, is registered; a Write    *)
(* that goes on has bytes left, so that an attempt that took none found    *)
(* the buffer full; and the buffer is never fuller than its capacity.      *)
(***************************************************************************)

Places == {"idle", "check", "first", "register", "try", "select", "returned"}

Endpoint == [rcv : Nat, arrived : Nat, eof : BOOLEAN, used : Int, shut : BOOLEAN,
             queue : SUBSET Peers, cancel : BOOLEAN, done : SUBSET Callers]

CallTypes ==
  /\ use \in Uses
  /\ pc \in [Callers -> Places]
  /\ nbytes \in [Writers -> 0..Size]
  /\ ep \in Endpoint

Asleep == \A g \in Callers : pc[g] \in {"try", "select"} => g \in reg

\* A Write that has not returned has bytes left, a WriteTo all of them.
BytesLeft == \A g \in Writers : pc[g] # "returned" =>
  /\ Tcp => nbytes[g] < Size
  /\ use.obj = "udp" => nbytes[g] = 0

Filled == Tcp => ep.used \in 0..SndCap

\* Only those the object is used by are in a call: no acceptor sleeps on a
\* connection.
Invited == \A g \in Callers : InCall(g) => g \in use.who

CallInv == CallTypes /\ Asleep /\ BytesLeft /\ Filled /\ Invited

\* A call's step takes its goroutine from a place inside the call to place w; the
\* others keep their places, their registrations and their notifications.
Moved(g, w) ==
  /\ pc[g] \in Places \ {"idle", "returned"} /\ w \in Places \ {"idle"}
  /\ pc' = [pc EXCEPT ![g] = w]
  /\ w \in {"try", "select"} => g \in reg'
  /\ use' = use /\ dl' = dl /\ UNCHANGED timerVars
  /\ \A h \in Callers : h # g => (h \in reg' <=> h \in reg) /\ (h \in note' <=> h \in note)

\* Every step of a call moves it so.
LEMMA CallMoves ==
  ASSUME CallInv, NEW g \in Callers, Call(g)
  PROVE  \E w \in Places : Moved(g, w)
<1>1. pc[g] = "try" => g \in reg
  BY DEF CallInv, Asleep
<1>2. ASSUME Return(g), pc[g] \in Places \ {"idle", "returned"} PROVE \E w \in Places : Moved(g, w)
  <2>1. Moved(g, "returned")
    BY <1>2 DEF Return, Goto, Moved, Places
  <2> QED BY <2>1 DEF Places
<1>3. ASSUME Block(g), Trying(g) PROVE \E w \in Places : Moved(g, w)
  <2>1. CASE pc[g] = "first"
    <3>1. Moved(g, "register")
      BY <1>3, <2>1 DEF Block, Goto, Moved, Stay, Places
    <3> QED BY <3>1 DEF Places
  <2>2. CASE pc[g] = "try"
    <3>1. Moved(g, "select")
      BY <1>1, <1>3, <2>2 DEF Block, Goto, Moved, Stay, Places
    <3> QED BY <3>1 DEF Places
  <2> QED BY <1>3, <2>1, <2>2 DEF Trying
<1>4. ASSUME Goto(g, pc[g]), Stay, Trying(g) PROVE \E w \in Places : Moved(g, w)
  <2>1. Moved(g, pc[g])
    BY <1>1, <1>4 DEF Trying, Goto, Moved, Stay, Places
  <2> QED BY <1>4, <2>1 DEF Trying, Places
<1>5. Trying(g) => pc[g] \in Places \ {"idle", "returned"}
  BY DEF Trying, Places
<1>6. ASSUME Check(g) PROVE \E w \in Places : Moved(g, w)
  <2>1. pc[g] = "check" /\ pc[g] \in Places \ {"idle", "returned"}
    BY <1>6 DEF Check, Places
  <2>2. ASSUME Goto(g, "first"), Stay PROVE Moved(g, "first")
    BY <2>1, <2>2 DEF Goto, Moved, Stay, Places
  <2>3. Return(g) \/ (Goto(g, "first") /\ Stay)
    BY <1>6 DEF Check
  <2>4. "first" \in Places
    BY DEF Places
  <2> QED BY <1>2, <2>1, <2>2, <2>3, <2>4
<1>7. ASSUME Register(g) PROVE \E w \in Places : Moved(g, w)
  <2>1. Moved(g, Registered(g)) /\ Registered(g) \in Places
    BY <1>7 DEF Register, Registered, Goto, Moved, Places
  <2> QED BY <2>1
<1>8. ASSUME Notified(g) PROVE \E w \in Places : Moved(g, w)
  <2>1. g \in reg
    BY <1>8 DEF Notified, CallInv, Asleep
  <2>2. Moved(g, "try") /\ "try" \in Places
    BY <1>8, <2>1 DEF Notified, Goto, Moved, Places
  <2> QED BY <2>2
<1>9. ASSUME Interrupted(g) PROVE Return(g) /\ pc[g] \in Places \ {"idle", "returned"}
  BY <1>9 DEF Interrupted, Places
<1>10. ASSUME TryRead(g) \/ TryWrite(g) \/ TryWriteTo(g) \/ TryAccept(g)
       PROVE  Trying(g) /\ (Return(g) \/ Block(g) \/ (Goto(g, pc[g]) /\ Stay))
  BY <1>10 DEF TryRead, TryWrite, TryWriteTo, TryAccept
<1> QED BY <1>2, <1>3, <1>4, <1>5, <1>6, <1>7, <1>8, <1>9, <1>10 DEF Call

\* A step is a Begin, a call's step or a Cancel of some goroutine, a step of the
\* deadlines, or one of the endpoint.
CallsApart == UNCHANGED <<use, pc, dl, reg, nbytes, out>>
EpSteps == \/ Arrive \/ Drain \/ CloseRead \/ CloseWrite \/ Close
           \/ Established \/ Shutdown \/ ListenerClose
           \/ \E g \in Callers : Cancel(g)

\* What the endpoint does on its own leaves every call where it is.
LEMMA EpStepsApart == EpSteps => CallsApart /\ UNCHANGED timerVars
BY DEF EpSteps, Arrive, Drain, CloseRead, CloseWrite, Close, Established, Shutdown,
       ListenerClose, Cancel, EpStep, CallsApart

\* So does a deadline that is set or expires.
LEMMA TimersApart ==
  (\E D \in SUBSET Dirs, t \in Times : SetDeadlines(D, t)) \/ (\E d \in Dirs : Fire(d)) \/ AfterFunc
    => CallsApart /\ UNCHANGED <<ep, note>>
BY DEF SetDeadlines, Fire, AfterFunc, callVars, CallsApart

\* The steps of the program, sorted by who takes them.
LEMMA StepKinds ==
  Next => \/ \E g \in Callers : Begin(g) \/ Call(g)
          \/ EpSteps
          \/ \E D \in SUBSET Dirs, t \in Times : SetDeadlines(D, t)
          \/ \E d \in Dirs : Fire(d)
          \/ AfterFunc
<1>1. \A t \in Times : SetReadDeadline(t) \/ SetWriteDeadline(t) \/ SetDeadline(t)
         => \E D \in SUBSET Dirs : SetDeadlines(D, t)
  BY DEF SetReadDeadline, SetWriteDeadline, SetDeadline, Dirs
<1> QED BY <1>1 DEF Next, EpSteps

(***************************************************************************)
(* A deadline reaches the calls that sleep under it.                       *)
(***************************************************************************)

CancelInv == /\ dl \in [Callers -> Nat]
             /\ \A g \in Callers : InCall(g) => dl[g] = side[Dir(g)].ch \/ Closing(Dir(g), dl[g])

\* A channel once closed, or about to be, stays so; and the current one is replaced
\* only then.
LEMMA ClosingStays ==
  ASSUME TimerInv, Next, NEW d \in Dirs, NEW c \in Nat
  PROVE  /\ Closing(d, c) => Closing(d, c)'
         /\ c = side[d].ch => side'[d].ch = c \/ Closing(d, c)'
<1>1. ASSUME NEW D \in SUBSET Dirs, NEW t \in Times, SetDeadlines(D, t)
      PROVE  /\ Closing(d, c) => Closing(d, c)'
             /\ c = side[d].ch => side'[d].ch = c \/ Closing(d, c)'
  <2>1. Closing(d, c) => Closing(d, c)'
    BY <1>1 DEF SetDeadlines, Closing
  <2>2. side'[d].ch = IF d \in D THEN NewCh(d) ELSE side[d].ch
    BY <1>1 DEF SetDeadlines
  <2>3. Renews(d) => Closing(d, side[d].ch)
    BY DEF Renews, Closing, TimerInv, TimerTells
  <2> QED BY <2>1, <2>2, <2>3 DEF NewCh
<1>2. ASSUME NEW e \in Dirs, Fire(e)
      PROVE  /\ Closing(d, c) => Closing(d, c)'
             /\ side'[d].ch = side[d].ch
  <2>1. Closing(d, c) => Closing(d, c)'
    BY <1>2 DEF Fire, Closing
  <2>2. side[d] \in [ch : Nat, made : Nat, timer : {"nil", "armed", "spent"}]
    BY DEF TimerInv, TimerTypes
  <2>3. side'[d].ch = side[d].ch
    BY <1>2, <2>2 DEF Fire, TimerInv, TimerTypes
  <2> QED BY <2>1, <2>3
<1>3. ASSUME AfterFunc
      PROVE  /\ Closing(d, c) => Closing(d, c)'
             /\ side'[d].ch = side[d].ch
  BY <1>3 DEF AfterFunc, Closing
<1>4. ASSUME UNCHANGED timerVars
      PROVE  /\ Closing(d, c) => Closing(d, c)'
             /\ side'[d].ch = side[d].ch
  BY <1>4 DEF timerVars, Closing
<1> QED BY <1>1, <1>2, <1>3, <1>4, TimerSteps

\* A call's cancel channel is the current one or will be closed, whatever happens
\* between its beginning and its end.
LEMMA CancelStep ==
  ASSUME TimerInv, CallInv, CancelInv, Next
  PROVE  CancelInv'
<1> DEFINE Held(g) == InCall(g) => dl[g] = side[Dir(g)].ch \/ Closing(Dir(g), dl[g])
<1>1. \A h \in Callers : Dir(h) \in Dirs /\ dl[h] \in Nat
  BY DEF CancelInv, Dir, Dirs
<1>2. ASSUME NEW h \in Callers, InCall(h)' => InCall(h), dl'[h] = dl[h] PROVE Held(h)'
  <2>1. InCall(h) => dl[h] = side[Dir(h)].ch \/ Closing(Dir(h), dl[h])
    BY DEF CancelInv
  <2>2. PICK c \in Nat : c = dl[h]
    BY <1>1
  <2>3. Closing(Dir(h), c) => Closing(Dir(h), c)'
    BY <1>1, ClosingStays
  <2>4. c = side[Dir(h)].ch => side'[Dir(h)].ch = c \/ Closing(Dir(h), c)'
    BY <1>1, ClosingStays
  <2> QED BY <1>2, <2>1, <2>2, <2>3, <2>4 DEF Closing
<1>3. ASSUME NEW g \in Callers, Begin(g) PROVE CancelInv'
  <2>1. /\ dl' = [dl EXCEPT ![g] = side[Dir(g)].ch]
        /\ pc' = [pc EXCEPT ![g] = IF Listener THEN "first" ELSE "check"]
        /\ UNCHANGED timerVars
    BY <1>3 DEF Begin
  <2>2. side[Dir(g)].ch \in Nat /\ side' = side
    BY <1>1, <2>1 DEF TimerInv, TimerTypes, timerVars
  <2>3. dl' \in [Callers -> Nat]
    BY <2>1, <2>2 DEF CancelInv
  <2>4. Held(g)'
    BY <2>1, <2>2 DEF CancelInv
  <2>5. ASSUME NEW h \in Callers, h # g PROVE Held(h)'
    <3>1. dl'[h] = dl[h] /\ pc'[h] = pc[h]
      BY <2>1, <2>5 DEF CancelInv, CallInv, CallTypes
    <3> HIDE DEF Held
    <3> QED BY <1>2, <3>1 DEF InCall
  <2> QED BY <2>3, <2>4, <2>5 DEF CancelInv
<1>4. ASSUME dl' = dl, \A h \in Callers : InCall(h)' => InCall(h) PROVE CancelInv'
  <2>1. \A h \in Callers : Held(h)'
    BY <1>2, <1>4
  <2> QED BY <1>4, <2>1 DEF CancelInv
<1>5. ASSUME NEW g \in Callers, Call(g)
      PROVE  dl' = dl /\ \A h \in Callers : InCall(h)' => InCall(h)
  <2>1. PICK w \in Places : Moved(g, w)
    BY <1>5, CallMoves
  <2> QED BY <2>1 DEF Moved, InCall, CallInv, CallTypes
<1>6. CallsApart => dl' = dl /\ \A h \in Callers : InCall(h)' => InCall(h)
  BY DEF CallsApart, InCall
<1> QED BY <1>3, <1>4, <1>5, <1>6, StepKinds, EpStepsApart, TimersApart

(***************************************************************************)
(* No wake-up is lost.                                                     *)
(***************************************************************************)

\* What a call's step leaves behind: the bytes and the buffer within their bounds,
\* nothing that another call waits for made ready without a notification, and the
\* call itself asleep only if what it asked for was not there.
TriedWell(g) ==
  /\ nbytes' \in [Writers -> 0..Size] /\ ep' \in Endpoint
  /\ BytesLeft' /\ Filled'
  /\ \A h \in Callers : Ready(h)' => Ready(h)
  /\ pc'[g] = "select" /\ Ready(g)' => g \in note'

\* Nothing but the place of one call, its registration and its notification change.
LEMMA PlaceOnly ==
  ASSUME CallInv, NEW g \in Callers, NEW w \in Places, Moved(g, w),
         UNCHANGED <<nbytes, ep>>,
         w = "select" => ~Ready(g)
  PROVE  TriedWell(g)
<1>1. use' = use /\ nbytes' = nbytes /\ ep' = ep
  BY DEF Moved
<1>2. \A h \in Callers : Ready(h)' <=> Ready(h)
  BY <1>1 DEF Ready, Tcp, Room
<1>3. pc'[g] = w
  BY DEF Moved, CallInv, CallTypes
<1>4. \A h \in Callers : pc'[h] # "returned" => pc[h] # "returned"
  BY DEF Moved, CallInv, CallTypes
<1>5. BytesLeft'
  BY <1>1, <1>4 DEF CallInv, BytesLeft, Tcp, Callers
<1> QED BY <1>1, <1>2, <1>3, <1>5 DEF TriedWell, CallInv, CallTypes, Filled, Tcp

\* A read takes what it finds and sleeps only on an empty queue with no end.
LEMMA TryReadWell ==
  ASSUME CallInv, NEW g \in Callers, TryRead(g)
  PROVE  TriedWell(g)
<1>1. PICK w \in Places : Moved(g, w)
  BY CallMoves DEF Call
<1>2. g \in Readers /\ g \notin Writers /\ g \notin Acceptors /\ UNCHANGED nbytes
  BY GonetAssumption DEF TryRead
<1>3. CASE ep' = ep /\ ep.rcv = 0
  <2>1. w = "select" => ~Ready(g)
    <3>1. ep.eof => pc'[g] = "returned"
      BY <1>3 DEF TryRead, Return, Goto, CallInv, CallTypes
    <3>2. pc'[g] = w
      BY <1>1 DEF Moved, CallInv, CallTypes
    <3> QED BY <1>2, <1>3, <3>1, <3>2 DEF Ready
  <2> QED BY <1>1, <1>2, <1>3, <2>1, PlaceOnly
<1>4. CASE ep.rcv > 0 /\ Return(g) /\ ep' = [ep EXCEPT !.rcv = @ - 1]
  <2>1. ep \in Endpoint /\ use' = use
    BY <1>1 DEF CallInv, CallTypes, Moved
  <2>2. ep' \in Endpoint
    BY <1>4, <2>1 DEF Endpoint
  <2>3. /\ ep'.eof = ep.eof /\ ep'.used = ep.used /\ ep'.shut = ep.shut /\ ep'.queue = ep.queue
    BY <1>4, <2>1 DEF Endpoint
  <2>4. \A h \in Callers : Ready(h)' => Ready(h)
    BY <1>4, <2>1, <2>3 DEF Ready, Tcp, Room
  <2>5. pc' = [pc EXCEPT ![g] = "returned"]
    BY <1>4 DEF Return, Goto
  <2>6. \A h \in Callers : pc'[h] # "returned" => pc[h] # "returned"
    BY <2>5 DEF CallInv, CallTypes
  <2>7. pc'[g] = "returned"
    BY <2>5 DEF CallInv, CallTypes
  <2>8. BytesLeft'
    BY <1>2, <2>1, <2>6 DEF CallInv, BytesLeft, Tcp, Callers
  <2>9. Filled'
    BY <2>1, <2>3 DEF CallInv, Filled, Tcp
  <2> QED BY <1>2, <2>2, <2>4, <2>7, <2>8, <2>9 DEF TriedWell, CallInv, CallTypes
<1> QED BY <1>3, <1>4 DEF TryRead

\* An accept takes one connection and sleeps only if none is for it.
LEMMA TryAcceptWell ==
  ASSUME CallInv, NEW g \in Callers, TryAccept(g)
  PROVE  TriedWell(g)
<1>1. PICK w \in Places : Moved(g, w)
  BY CallMoves DEF Call
<1>2. g \in Acceptors /\ g \notin Writers /\ g \notin Readers /\ UNCHANGED nbytes
  BY GonetAssumption DEF TryAccept
<1>3. CASE ep' = ep /\ ep.queue = {} /\ (IF ep.shut THEN Return(g) ELSE Block(g))
  <2>1. w = "select" => ~Ready(g)
    <3>1. ep.shut => pc'[g] = "returned"
      BY <1>3 DEF Return, Goto, CallInv, CallTypes
    <3>2. pc'[g] = w
      BY <1>1 DEF Moved, CallInv, CallTypes
    <3> QED BY <1>2, <1>3, <3>1, <3>2 DEF Ready
  <2> QED BY <1>1, <1>2, <1>3, <2>1, PlaceOnly
<1>4. CASE \E p \in ep.queue : Return(g) /\ ep' = [ep EXCEPT !.queue = @ \ {p}]
  <2>1. ep \in Endpoint /\ use' = use
    BY <1>1 DEF CallInv, CallTypes, Moved
  <2>2. PICK p \in ep.queue : Return(g) /\ ep' = [ep EXCEPT !.queue = @ \ {p}]
    BY <1>4
  <2>3. ep' \in Endpoint
    BY <2>1, <2>2 DEF Endpoint
  <2>4. /\ ep'.eof = ep.eof /\ ep'.used = ep.used /\ ep'.shut = ep.shut /\ ep'.rcv = ep.rcv
        /\ ep'.queue \subseteq ep.queue
    BY <2>1, <2>2 DEF Endpoint
  <2>5. \A h \in Callers : Ready(h)' => Ready(h)
    BY <2>1, <2>4 DEF Ready, Tcp, Room
  <2>6. pc' = [pc EXCEPT ![g] = "returned"]
    BY <2>2 DEF Return, Goto
  <2>7. \A h \in Callers : pc'[h] # "returned" => pc[h] # "returned"
    BY <2>6 DEF CallInv, CallTypes
  <2>8. pc'[g] = "returned"
    BY <2>6 DEF CallInv, CallTypes
  <2>9. BytesLeft'
    BY <1>2, <2>1, <2>7 DEF CallInv, BytesLeft, Tcp, Callers
  <2>10. Filled'
    BY <2>1, <2>4 DEF CallInv, Filled, Tcp
  <2> QED BY <1>2, <2>3, <2>5, <2>8, <2>9, <2>10 DEF TriedWell, CallInv, CallTypes
<1> QED BY <1>3, <1>4 DEF TryAccept

\* A write takes at most the room and at most what is left, and one that took
\* nothing found the buffer full.
LEMMA TryWriteWell ==
  ASSUME CallInv, NEW g \in Callers, TryWrite(g)
  PROVE  TriedWell(g)
<1> DEFINE n == Least(SndCap - ep.used, Size - nbytes[g])
<1>1. PICK w \in Places : Moved(g, w)
  BY CallMoves DEF Call
<1>2. g \in Writers /\ g \notin Acceptors /\ g \notin Readers /\ Tcp /\ Trying(g) /\ use' = use
  BY <1>1, GonetAssumption DEF TryWrite, Moved
<1>3. /\ ep \in Endpoint /\ ep.used \in 0..SndCap /\ SndCap \in Nat \ {0} /\ Size \in Nat \ {0}
      /\ nbytes[g] \in 0..Size /\ nbytes[g] < Size
  BY <1>2, GonetAssumption DEF CallInv, CallTypes, Filled, BytesLeft, Trying
<1>4. /\ n \in Nat /\ ep.used + n <= SndCap /\ nbytes[g] + n <= Size
      /\ n = 0 => ep.used = SndCap
  BY <1>3 DEF Least
<1>5. pc'[g] = w
  BY <1>1 DEF Moved, CallInv, CallTypes
<1>6. CASE UNCHANGED <<ep, nbytes>>
  <2>1. n > 0 => ep.shut
    <3>1. ASSUME n > 0, ~ep.shut, ep' = [ep EXCEPT !.used = @ + n] PROVE FALSE
      <4>1. ep'.used = ep.used + n
        BY <1>3, <3>1 DEF Endpoint
      <4> QED BY <1>3, <1>4, <1>6, <3>1, <4>1
    <3> QED BY <1>4, <3>1 DEF TryWrite
  <2>2. ep.shut => pc'[g] = "returned"
    BY DEF TryWrite, Return, Goto, CallInv, CallTypes
  <2>3. ~ep.shut => ~Room(ep.used)
    BY <1>2, <1>3, <1>4, <2>1 DEF Room
  <2>4. w = "select" => ~Ready(g)
    BY <1>2, <1>5, <2>2, <2>3 DEF Ready
  <2> QED BY <1>1, <1>6, <2>4, PlaceOnly
<1>7. CASE /\ ~ep.shut /\ n > 0
           /\ ep' = [ep EXCEPT !.used = @ + n]
           /\ nbytes' = [nbytes EXCEPT ![g] = @ + n]
           /\ IF nbytes'[g] = Size THEN Return(g) ELSE Goto(g, pc[g]) /\ Stay
  <2>1. /\ ep'.eof = ep.eof /\ ep'.used = ep.used + n /\ ep'.shut = ep.shut /\ ep'.rcv = ep.rcv
        /\ ep'.queue = ep.queue
    BY <1>3, <1>7 DEF Endpoint
  <2>2. ep' \in Endpoint
    <3>1. ep.used + n \in Int
      BY <1>3, <1>4
    <3> HIDE DEF n
    <3> QED BY <1>3, <1>7, <3>1 DEF Endpoint
  <2>3. nbytes'[g] = nbytes[g] + n /\ \A h \in Writers : h # g => nbytes'[h] = nbytes[h]
    BY <1>2, <1>7 DEF CallInv, CallTypes
  <2>4. nbytes' \in [Writers -> 0..Size]
    <3>1. nbytes[g] + n \in 0..Size
      BY <1>3, <1>4
    <3> HIDE DEF n
    <3> QED BY <1>2, <1>7, <3>1 DEF CallInv, CallTypes
  <2>5. /\ nbytes'[g] = Size => pc'[g] = "returned"
        /\ nbytes'[g] # Size => pc'[g] = pc[g]
    BY <1>7 DEF Return, Goto, CallInv, CallTypes
  <2>6. BytesLeft'
    <3>1. \A h \in Callers : h # g => pc'[h] = pc[h]
      BY <1>1 DEF Moved, CallInv, CallTypes
    <3>2. pc'[g] # "returned" => nbytes'[g] < Size
      BY <1>3, <1>4, <2>3, <2>5
    <3> QED BY <1>2, <2>3, <3>1, <3>2 DEF CallInv, BytesLeft, Tcp, Callers
  <2>7. Filled'
    BY <1>3, <1>4, <2>1 DEF Filled
  <2>8. Room(ep.used)' => Room(ep.used)
    BY <1>2, <1>3, <1>4, <2>1 DEF Room, Tcp
  <2>9. \A h \in Callers : Ready(h)' => Ready(h)
    BY <1>2, <2>1, <2>8 DEF Ready, Tcp
  <2>10. pc'[g] # "select"
    BY <1>2, <2>5 DEF Trying
  <2> QED BY <2>2, <2>4, <2>6, <2>7, <2>9, <2>10 DEF TriedWell
<1> QED BY <1>6, <1>7 DEF TryWrite

\* A datagram goes out whole; WriteTo waits for nothing that a Write waits for.
LEMMA TryWriteToWell ==
  ASSUME CallInv, NEW g \in Callers, TryWriteTo(g)
  PROVE  TriedWell(g)
<1>1. PICK w \in Places : Moved(g, w)
  BY CallMoves DEF Call
<1>2. g \in Writers /\ g \notin Acceptors /\ g \notin Readers /\ ~Tcp /\ use' = use
  BY <1>1, GonetAssumption DEF TryWriteTo, Moved, Tcp
<1>3. CASE UNCHANGED <<ep, nbytes>>
  <2>1. ~Ready(g)
    BY <1>2 DEF Ready
  <2> QED BY <1>1, <1>3, <2>1, PlaceOnly
<1>4. CASE /\ ep' = [ep EXCEPT !.used = @ + Size]
           /\ nbytes' = [nbytes EXCEPT ![g] = Size]
           /\ Return(g)
  <2>1. ep \in Endpoint /\ Size \in Nat /\ ep.used \in Int
    BY GonetAssumption DEF CallInv, CallTypes, Endpoint
  <2>2. /\ ep'.eof = ep.eof /\ ep'.shut = ep.shut /\ ep'.rcv = ep.rcv /\ ep'.queue = ep.queue
    BY <1>4, <2>1 DEF Endpoint
  <2>3. ep' \in Endpoint
    <3>1. ep.used + Size \in Int
      BY <2>1
    <3> QED BY <1>4, <2>1, <3>1 DEF Endpoint
  <2>4. nbytes' \in [Writers -> 0..Size]
    <3>1. Size \in 0..Size
      BY <2>1
    <3> QED BY <1>2, <1>4, <3>1 DEF CallInv, CallTypes
  <2>5. pc' = [pc EXCEPT ![g] = "returned"]
    BY <1>4 DEF Return, Goto
  <2>6. pc'[g] = "returned"
    BY <2>5 DEF CallInv, CallTypes
  <2>7. \A h \in Writers : h # g => pc'[h] = pc[h] /\ nbytes'[h] = nbytes[h]
    BY <1>4, <2>5 DEF CallInv, CallTypes, Callers
  <2>8. BytesLeft'
    BY <1>2, <2>6, <2>7 DEF CallInv, BytesLeft, Tcp
  <2>9. Filled'
    BY <1>2 DEF Filled, Tcp
  <2>10. \A h \in Callers : Ready(h)' => Ready(h)
    BY <1>2, <2>2 DEF Ready, Tcp
  <2> QED BY <2>3, <2>4, <2>6, <2>8, <2>9, <2>10 DEF TriedWell
<1> QED BY <1>3, <1>4 DEF TryWriteTo

\* Every step of a call leaves the endpoint and the bytes well.
LEMMA CallWell ==
  ASSUME CallInv, NEW g \in Callers, Call(g)
  PROVE  TriedWell(g)
<1>1. PICK w \in Places : Moved(g, w)
  BY CallMoves
<1>2. pc'[g] = w
  BY <1>1 DEF Moved, CallInv, CallTypes
<1>3. CASE Check(g)
  <2>1. UNCHANGED <<nbytes, ep>> /\ w # "select"
    BY <1>2, <1>3 DEF Check, Return, Goto, CallInv, CallTypes
  <2> QED BY <1>1, <2>1, PlaceOnly
<1>4. CASE Notified(g)
  <2>1. UNCHANGED <<nbytes, ep>> /\ w # "select"
    BY <1>2, <1>4 DEF Notified, Goto, CallInv, CallTypes
  <2> QED BY <1>1, <2>1, PlaceOnly
<1>5. CASE Interrupted(g)
  <2>1. UNCHANGED <<nbytes, ep>> /\ w # "select"
    BY <1>2, <1>5 DEF Interrupted, Return, Goto, CallInv, CallTypes
  <2> QED BY <1>1, <2>1, PlaceOnly
<1>6. CASE Register(g)
  <2>1. UNCHANGED <<nbytes, ep>> /\ w = Registered(g)
    BY <1>2, <1>6 DEF Register, Goto, CallInv, CallTypes
  <2>2. w = "select" => ~Ready(g)
    BY <2>1, GonetAssumption DEF Registered, Ready, Tcp
  <2> QED BY <1>1, <2>1, <2>2, PlaceOnly
<1> QED BY <1>3, <1>4, <1>5, <1>6, TryReadWell, TryWriteWell, TryWriteToWell, TryAcceptWell DEF Call

\* What the endpoint does on its own wakes every registered call it makes ready.
EpWell ==
  /\ ep' \in Endpoint /\ Filled'
  /\ note \subseteq note'
  /\ \A h \in Callers : Ready(h)' /\ h \in reg /\ h \in use.who => Ready(h) \/ h \in note'

\* Each of its steps, room announced below the half included, does.
LEMMA EpStepsWell ==
  ASSUME CallInv, EpSteps
  PROVE  EpWell
<1>1. /\ use' = use /\ reg' = reg
  BY EpStepsApart DEF CallsApart
<1>2. ep \in Endpoint /\ ep.used \in Int /\ (Tcp => ep.used \in 0..SndCap)
      /\ SndCap \in Nat \ {0} /\ Size \in Nat \ {0}
  BY GonetAssumption DEF CallInv, CallTypes, Filled, Endpoint
<1>3. CASE Arrive
  <2>1. /\ ep'.used = ep.used /\ ep'.shut = ep.shut /\ ep'.queue = ep.queue
        /\ ep' \in Endpoint
    <3>1. /\ ep' = [ep EXCEPT !.rcv = ep.rcv + 1, !.arrived = ep.arrived + 1]
          /\ ep.rcv + 1 \in Nat /\ ep.arrived + 1 \in Nat
      BY <1>2, <1>3 DEF Arrive, Endpoint
    <3> QED BY <1>2, <3>1 DEF Endpoint
  <2>2. note' = note \cup (reg \cap Readers)
    BY <1>3 DEF Arrive, Notify
  <2> QED BY <1>1, <1>2, <2>1, <2>2 DEF EpWell, Filled, Tcp, Ready, Room
<1>4. CASE Drain
  <2>1. /\ ep'.used = ep.used - (IF Tcp THEN 1 ELSE Size) /\ ep'.shut = ep.shut
        /\ ep'.eof = ep.eof /\ ep'.rcv = ep.rcv /\ ep'.queue = ep.queue
    BY <1>2, <1>4 DEF Drain, Endpoint
  <2>2. ep' \in Endpoint
    <3>1. ep.used - (IF Tcp THEN 1 ELSE Size) \in Int
      BY <1>2
    <3> QED BY <1>2, <1>4, <3>1 DEF Drain, Endpoint
  <2>3. Filled'
    BY <1>1, <1>2, <1>4, <2>1 DEF Drain, Filled, Tcp
  <2>4. note \subseteq note' /\ (~Room(ep.used) /\ Room(ep'.used) => note' = note \cup (reg \cap Writers))
    BY <1>4 DEF Drain, Notify
  <2>5. Room(ep.used)' <=> Room(ep'.used)
    BY <1>1 DEF Room, Tcp
  <2>6. \A h \in Callers : Ready(h)' /\ h \in reg /\ h \in use.who => Ready(h) \/ h \in note'
    BY <1>1, <2>1, <2>4, <2>5 DEF Ready, Tcp
  <2> QED BY <2>2, <2>3, <2>4, <2>6 DEF EpWell
<1>5. CASE CloseRead
  <2>1. /\ ep'.used = ep.used /\ ep'.shut = ep.shut /\ ep'.queue = ep.queue
        /\ ep' \in Endpoint
    BY <1>2, <1>5 DEF CloseRead, Endpoint
  <2>2. note' = note \cup (reg \cap Readers)
    BY <1>5 DEF CloseRead, Notify
  <2> QED BY <1>1, <1>2, <2>1, <2>2 DEF EpWell, Filled, Tcp, Ready, Room
<1>6. CASE CloseWrite
  <2>1. /\ ep'.used = ep.used /\ ep'.rcv = ep.rcv /\ ep'.eof = ep.eof /\ ep'.queue = ep.queue
        /\ ep' \in Endpoint
    BY <1>2, <1>6 DEF CloseWrite, Endpoint
  <2>2. note' = note \cup (reg \cap Writers)
    BY <1>6 DEF CloseWrite, Notify
  <2>3. \A h \in use.who : h \notin Acceptors
    BY <1>6, GonetAssumption DEF CloseWrite, Tcp, CallInv, CallTypes
  <2> QED BY <1>1, <1>2, <2>1, <2>2, <2>3 DEF EpWell, Filled, Tcp, Ready, Room
<1>7. CASE Close
  <2>1. ep'.used = ep.used /\ ep' \in Endpoint
    BY <1>2, <1>7 DEF Close, Endpoint
  <2>2. note' = note \cup (reg \cap Callers)
    BY <1>7 DEF Close, Notify
  <2> QED BY <1>1, <1>2, <2>1, <2>2 DEF EpWell, Filled, Tcp
<1>8. CASE Established \/ Shutdown \/ ListenerClose
  <2>1. ~Tcp
    BY <1>8 DEF Established, Shutdown, ListenerClose, Listener, Tcp
  <2>2. ep'.rcv = ep.rcv /\ ep'.eof = ep.eof /\ ep' \in Endpoint
    <3>1. CASE Established
      <4>1. PICK p \in Peers : ep' = [ep EXCEPT !.queue = @ \cup {p}, !.arrived = @ + 1]
        BY <3>1 DEF Established
      <4>2. /\ ep' = [ep EXCEPT !.queue = ep.queue \cup {p}, !.arrived = ep.arrived + 1]
            /\ ep.queue \cup {p} \in SUBSET Peers /\ ep.arrived + 1 \in Nat
        BY <1>2, <4>1 DEF Endpoint
      <4> QED BY <1>2, <4>2 DEF Endpoint
    <3>2. CASE Shutdown
      BY <1>2, <3>2 DEF Shutdown, Endpoint
    <3>3. CASE ListenerClose
      BY <1>2, <3>3 DEF ListenerClose, Endpoint
    <3> QED BY <1>8, <3>1, <3>2, <3>3
  <2>3. note' = note \cup (reg \cap Acceptors)
    BY <1>8 DEF Established, Shutdown, ListenerClose, Notify
  <2> QED BY <1>1, <2>1, <2>2, <2>3 DEF EpWell, Filled, Tcp, Ready
<1>9. CASE \E g \in Callers : Cancel(g)
  <2>1. /\ ep'.used = ep.used /\ ep'.shut = ep.shut /\ ep'.queue = ep.queue
        /\ ep'.rcv = ep.rcv /\ ep'.eof = ep.eof /\ ep' \in Endpoint /\ note' = note
    BY <1>2, <1>9 DEF Cancel, Endpoint
  <2> QED BY <1>1, <1>2, <2>1 DEF EpWell, Filled, Tcp, Ready, Room
<1> QED BY <1>3, <1>4, <1>5, <1>6, <1>7, <1>8, <1>9 DEF EpSteps

\* The calls start well.
LEMMA CallInvInit == Init => CallInv /\ CancelInv /\ NoLostWakeUp
<1> SUFFICES ASSUME Init PROVE CallInv /\ CancelInv /\ NoLostWakeUp
  OBVIOUS
<1>1. /\ use \in Uses /\ pc = [g \in Callers |-> "idle"] /\ dl = [g \in Callers |-> 0]
      /\ nbytes = [g \in Writers |-> 0]
      /\ ep = [rcv |-> 0, arrived |-> 0, eof |-> FALSE, used |-> 0, shut |-> FALSE,
               queue |-> {}, cancel |-> FALSE, done |-> {}]
  BY DEF Init
<1>2. Size \in Nat \ {0} /\ SndCap \in Nat \ {0}
  BY GonetAssumption
<1>3. CallTypes
  BY <1>1, <1>2 DEF CallTypes, Places, Endpoint
<1>4. Asleep /\ Invited /\ CancelInv /\ NoLostWakeUp
  BY <1>1 DEF Asleep, Invited, CancelInv, InCall, NoLostWakeUp
<1>5. BytesLeft
  BY <1>1, <1>2 DEF BytesLeft
<1>6. Filled
  BY <1>1, <1>2 DEF Filled
<1> QED BY <1>3, <1>4, <1>5, <1>6 DEF CallInv

\* Beginning a call, which neither registers nor sleeps.
LEMMA BeginKeeps ==
  ASSUME CallInv, NoLostWakeUp, NEW g \in Callers, Begin(g)
  PROVE  CallInv' /\ NoLostWakeUp'
<1>1. /\ UNCHANGED <<use, note, reg, nbytes, ep>>
      /\ pc' = [pc EXCEPT ![g] = IF Listener THEN "first" ELSE "check"]
      /\ pc[g] = "idle" /\ g \in use.who
  BY DEF Begin
<1>2. /\ pc' \in [Callers -> Places]
      /\ pc'[g] \in {"first", "check"} /\ \A h \in Callers : h # g => pc'[h] = pc[h]
  BY <1>1 DEF CallInv, CallTypes, Places
<1>3. CallTypes' /\ Filled'
  BY <1>1, <1>2 DEF CallInv, CallTypes, Filled, Tcp
<1>4. Asleep' /\ Invited'
  BY <1>1, <1>2 DEF CallInv, Asleep, Invited, InCall
<1>5. BytesLeft'
  <2>1. \A h \in Writers : pc'[h] # "returned" => pc[h] # "returned"
    BY <1>1, <1>2 DEF Callers
  <2> QED BY <1>1, <2>1 DEF CallInv, BytesLeft, Tcp
<1>6. NoLostWakeUp'
  <2>1. \A h \in Callers : Ready(h)' <=> Ready(h)
    BY <1>1 DEF Ready, Tcp, Room
  <2> QED BY <1>1, <1>2, <2>1 DEF NoLostWakeUp
<1> QED BY <1>3, <1>4, <1>5, <1>6 DEF CallInv

\* A step of a call.
LEMMA CallKeeps ==
  ASSUME CallInv, NoLostWakeUp, NEW g \in Callers, Call(g)
  PROVE  CallInv' /\ NoLostWakeUp'
<1>1. PICK w \in Places : Moved(g, w)
  BY CallMoves
<1>2. TriedWell(g)
  BY CallWell
<1>3. /\ pc' \in [Callers -> Places]
      /\ pc'[g] = w /\ \A h \in Callers : h # g => pc'[h] = pc[h]
  BY <1>1 DEF Moved, CallInv, CallTypes
<1>4. CallTypes' /\ BytesLeft' /\ Filled'
  BY <1>1, <1>2, <1>3 DEF Moved, TriedWell, CallInv, CallTypes
<1>5. Asleep' /\ Invited'
  BY <1>1, <1>3 DEF Moved, CallInv, Asleep, Invited, InCall
<1>6. NoLostWakeUp'
  <2> SUFFICES ASSUME NEW h \in Callers, pc'[h] = "select", Ready(h)' PROVE h \in note'
    BY DEF NoLostWakeUp
  <2>1. CASE h = g
    BY <1>2, <2>1 DEF TriedWell
  <2>2. CASE h # g
    <3>1. pc[h] = "select" /\ Ready(h)
      BY <1>2, <1>3, <2>2 DEF TriedWell
    <3>2. h \in note
      BY <3>1 DEF NoLostWakeUp
    <3> QED BY <1>1, <2>2, <3>2 DEF Moved
  <2> QED BY <2>1, <2>2
<1> QED BY <1>4, <1>5, <1>6 DEF CallInv

\* A step of the endpoint.
LEMMA EpKeeps ==
  ASSUME CallInv, NoLostWakeUp, EpSteps
  PROVE  CallInv' /\ NoLostWakeUp'
<1>1. EpWell /\ CallsApart
  BY EpStepsWell, EpStepsApart
<1>2. UNCHANGED <<use, pc, reg, nbytes>>
  BY <1>1 DEF CallsApart
<1>3. CallTypes' /\ Filled'
  BY <1>1, <1>2 DEF EpWell, CallInv, CallTypes
<1>4. Asleep' /\ Invited' /\ BytesLeft'
  BY <1>2 DEF CallInv, Asleep, Invited, InCall, BytesLeft, Tcp
<1>5. NoLostWakeUp'
  <2> SUFFICES ASSUME NEW h \in Callers, pc[h] = "select", Ready(h)' PROVE h \in note'
    BY <1>2 DEF NoLostWakeUp
  <2>1. h \in reg /\ h \in use.who
    BY DEF CallInv, Asleep, Invited, InCall
  <2>2. Ready(h) => h \in note
    BY DEF NoLostWakeUp
  <2> QED BY <1>1, <2>1, <2>2 DEF EpWell
<1> QED BY <1>3, <1>4, <1>5 DEF CallInv

\* Every step of the program keeps the calls well and awake.
LEMMA CallInvStep == CallInv /\ NoLostWakeUp /\ [Next]_vars => CallInv' /\ NoLostWakeUp'
<1> SUFFICES ASSUME CallInv, NoLostWakeUp, [Next]_vars PROVE CallInv' /\ NoLostWakeUp'
  OBVIOUS
<1>1. ASSUME UNCHANGED <<use, pc, reg, nbytes, ep, note>> PROVE CallInv' /\ NoLostWakeUp'
  BY <1>1 DEF CallInv, CallTypes, Asleep, BytesLeft, Filled, Invited, InCall, NoLostWakeUp,
              Ready, Tcp, Room
<1>2. UNCHANGED vars => UNCHANGED <<use, pc, reg, nbytes, ep, note>>
  BY DEF vars, callVars
<1>3. CallsApart /\ UNCHANGED <<ep, note>> => UNCHANGED <<use, pc, reg, nbytes, ep, note>>
  BY DEF CallsApart
<1> QED BY <1>1, <1>2, <1>3, StepKinds, TimersApart, BeginKeeps, CallKeeps, EpKeeps

\* No wake-up is lost, for any mix of readers, writers and acceptors: a call sleeps
\* in its select only while what it waits for is not there, or its notification is.
THEOREM WakeUpsAreKept == Spec => []NoLostWakeUp
<1>1. CallInv /\ NoLostWakeUp /\ [Next]_vars => (CallInv /\ NoLostWakeUp)'
  BY CallInvStep
<1> QED BY <1>1, CallInvInit, PTL DEF Spec

\* A deadline set while calls sleep applies to them: every call holds the current
\* cancel channel, or one that is closed or about to be.
THEOREM SleepersAreCancellable == Spec => []SleepersCancellable
<1> DEFINE Inv == TimerInv /\ CallInv /\ NoLostWakeUp /\ CancelInv
<1>1. Init => Inv
  BY TimerInvInit, CallInvInit
<1>2. Inv /\ [Next]_vars => Inv'
  <2>1. CancelInv /\ UNCHANGED vars => CancelInv'
    BY DEF CancelInv, InCall, Closing, vars, callVars, timerVars
  <2> QED BY <2>1, TimerInvStep, CallInvStep, CancelStep
<1>3. Inv => SleepersCancellable
  BY DEF CancelInv, SleepersCancellable
<1> QED BY <1>1, <1>2, <1>3, PTL DEF Spec

(***************************************************************************)
(* What is written.                                                        *)
(***************************************************************************)

\* WrittenOnce, place by place.
Taken(h) ==
  /\ \A i \in 1..Len(out) : out[i][1] = h => \E k \in 1..nbytes[h] : out[i] = <<h, k>>
  /\ \A k \in 1..nbytes[h] : \E i \in 1..Len(out) : out[i] = <<h, k>>

InOrder == \A i, j \in 1..Len(out) : i < j /\ out[i][1] = out[j][1] => out[i][2] < out[j][2]

OutInv == /\ out \in Seq(Writers \X Nat)
          /\ \A h \in Writers : Taken(h)
          /\ InOrder

\* The two readings of what the endpoint took agree.
LEMMA TakenMeans == (\A h \in Writers : Taken(h)) /\ InOrder => WrittenOnce
<1>1. ASSUME NEW h \in Writers, Taken(h)
      PROVE  {out[i] : i \in {j \in 1..Len(out) : out[j][1] = h}} = {<<h, k>> : k \in 1..nbytes[h]}
  <2> DEFINE A == {out[i] : i \in {j \in 1..Len(out) : out[j][1] = h}}
             B == {<<h, k>> : k \in 1..nbytes[h]}
  <2>1. ASSUME NEW x \in A PROVE x \in B
    <3>1. PICK i \in 1..Len(out) : out[i][1] = h /\ x = out[i]
      OBVIOUS
    <3>2. PICK k \in 1..nbytes[h] : out[i] = <<h, k>>
      BY <1>1, <3>1 DEF Taken
    <3> QED BY <3>1, <3>2
  <2>2. ASSUME NEW x \in B PROVE x \in A
    <3>1. PICK k \in 1..nbytes[h] : x = <<h, k>>
      OBVIOUS
    <3>2. PICK i \in 1..Len(out) : out[i] = <<h, k>>
      BY <1>1, <3>1 DEF Taken
    <3>3. out[i][1] = h
      BY <3>2
    <3> QED BY <3>1, <3>2, <3>3
  <2> QED BY <2>1, <2>2
<1> QED BY <1>1 DEF InOrder, WrittenOnce

\* The bytes that follow those already counted.
LEMMA RestIs ==
  ASSUME NEW g \in Writers, nbytes \in [Writers -> Nat], NEW n \in Nat
  PROVE  /\ Rest(g, n) \in Seq(Writers \X Nat) /\ Len(Rest(g, n)) = n
         /\ \A k \in 1..n : Rest(g, n)[k] = <<g, nbytes[g] + k>>
<1>1. \A k \in 1..n : nbytes[g] + k \in Nat
  OBVIOUS
<1>2. Rest(g, n) \in [1..n -> Writers \X Nat]
  BY <1>1 DEF Rest
<1> QED BY <1>2 DEF Rest

\* Writing the rest of one buffer on, after what any writers wrote before.
LEMMA WritesOn ==
  ASSUME OutInv, nbytes \in [Writers -> Nat], NEW g \in Writers, NEW n \in Nat,
         out' = out \o Rest(g, n), nbytes' = [nbytes EXCEPT ![g] = nbytes[g] + n]
  PROVE  OutInv'
<1> DEFINE r == Rest(g, n)
           a == Len(out)
<1>1. /\ r \in Seq(Writers \X Nat) /\ Len(r) = n
      /\ \A k \in 1..n : r[k] = <<g, nbytes[g] + k>>
  BY RestIs
<1>2. out' = out \o r /\ out \in Seq(Writers \X Nat) /\ a \in Nat
  BY DEF OutInv
<1>3. nbytes'[g] = nbytes[g] + n /\ nbytes[g] \in Nat /\ \A h \in Writers : h # g => nbytes'[h] = nbytes[h]
  OBVIOUS
<1> HIDE DEF r
<1>4. out' \in Seq(Writers \X Nat) /\ Len(out') = a + n
  BY <1>1, <1>2, ConcatProperties
<1>5. \A i \in 1..a : out'[i] = out[i] /\ out[i] \in Writers \X Nat
  <2>1. \A i \in 1..a : out[i] \in Writers \X Nat
    BY <1>2, ElementOfSeq
  <2> QED BY <1>1, <1>2, <2>1, ConcatProperties
<1>6. \A k \in 1..n : out'[a + k] = <<g, nbytes[g] + k>>
  <2> SUFFICES ASSUME NEW k \in 1..n PROVE out'[a + k] = <<g, nbytes[g] + k>>
    OBVIOUS
  <2>1. a + k \in 1..(Len(out) + Len(r)) /\ ~(a + k <= a) /\ (a + k) - a = k
    BY <1>1, <1>2
  <2>2. out'[a + k] = r[(a + k) - a]
    BY <1>1, <1>2, <2>1, ConcatProperties
  <2> QED BY <1>1, <2>1, <2>2
<1> DEFINE L == Len(out')
<1>7. \A i \in 1..L : i \in 1..a \/ \E k \in 1..n : i = a + k
  <2> SUFFICES ASSUME NEW i \in 1..L, i \notin 1..a PROVE \E k \in 1..n : i = a + k
    OBVIOUS
  <2>1. i - a \in 1..n /\ i = a + (i - a)
    BY <1>2, <1>4
  <2> QED BY <2>1
<1>8. 1..a \subseteq 1..L /\ \A k \in 1..n : a + k \in 1..L
  BY <1>2, <1>4
<1> HIDE DEF a, L
<1>9. ASSUME NEW h \in Writers PROVE Taken(h)'
  <2>1. /\ \A i \in 1..a : out[i][1] = h => \E k \in 1..nbytes[h] : out[i] = <<h, k>>
        /\ \A k \in 1..nbytes[h] : \E i \in 1..a : out[i] = <<h, k>>
    BY DEF OutInv, Taken, a
  <2>2. ASSUME NEW i \in 1..L, out'[i][1] = h PROVE \E k \in 1..nbytes'[h] : out'[i] = <<h, k>>
    <3>1. CASE i \in 1..a
      <4>1. PICK k \in 1..nbytes[h] : out[i] = <<h, k>>
        BY <1>5, <2>1, <2>2, <3>1
      <4>2. k \in 1..nbytes'[h]
        BY <1>3
      <4> QED BY <1>5, <3>1, <4>1, <4>2
    <3>2. CASE \E k \in 1..n : i = a + k
      <4>1. PICK k \in 1..n : i = a + k
        BY <3>2
      <4>2. out'[i] = <<g, nbytes[g] + k>>
        BY <1>6, <4>1
      <4>3. h = g
        BY <2>2, <4>2
      <4>4. nbytes[g] + k \in 1..nbytes'[h]
        BY <1>3, <4>3
      <4> QED BY <4>2, <4>3, <4>4
    <3> QED BY <1>7, <3>1, <3>2
  <2>3. ASSUME NEW k \in 1..nbytes'[h] PROVE \E i \in 1..L : out'[i] = <<h, k>>
    <3>1. CASE k \in 1..nbytes[h]
      BY <1>5, <1>8, <2>1, <3>1
    <3>2. CASE k \notin 1..nbytes[h]
      <4>1. h = g
        BY <1>3, <2>3, <3>2
      <4>2. k - nbytes[g] \in 1..n /\ nbytes[g] + (k - nbytes[g]) = k
        BY <1>3, <2>3, <3>2, <4>1
      <4> QED BY <1>6, <1>8, <4>1, <4>2
    <3> QED BY <3>1, <3>2
  <2> QED BY <2>2, <2>3 DEF Taken, L
<1>10. InOrder'
  <2> SUFFICES ASSUME NEW i \in 1..L, NEW j \in 1..L, i < j, out'[i][1] = out'[j][1]
               PROVE  out'[i][2] < out'[j][2]
    BY DEF InOrder, L
  <2>1. CASE i \in 1..a /\ j \in 1..a
    BY <1>5, <2>1 DEF OutInv, InOrder, a
  <2>2. CASE i \in 1..a /\ \E k \in 1..n : j = a + k
    <3>1. PICK k \in 1..n : j = a + k
      BY <2>2
    <3>2. out'[j] = <<g, nbytes[g] + k>>
      BY <1>6, <3>1
    <3>3. out'[i] = out[i]
      BY <1>5, <2>2
    <3>4. out[i][1] = g
      BY <3>2, <3>3
    <3>5. PICK m \in 1..nbytes[g] : out[i] = <<g, m>>
      BY <2>2, <3>4 DEF OutInv, Taken, a
    <3>6. m < nbytes[g] + k
      BY <1>3
    <3> QED BY <3>2, <3>3, <3>5, <3>6
  <2>3. CASE (\E k \in 1..n : i = a + k) /\ (\E k \in 1..n : j = a + k)
    <3>1. PICK k \in 1..n : i = a + k
      BY <2>3
    <3>2. PICK m \in 1..n : j = a + m
      BY <2>3
    <3>3. out'[i] = <<g, nbytes[g] + k>> /\ out'[j] = <<g, nbytes[g] + m>>
      BY <1>6, <3>1, <3>2
    <3>4. nbytes[g] + k < nbytes[g] + m
      BY <1>2, <1>3, <3>1, <3>2
    <3> QED BY <3>3, <3>4
  <2>4. ~(j \in 1..a /\ \E k \in 1..n : i = a + k)
    BY <1>2
  <2> QED BY <1>7, <2>1, <2>2, <2>3, <2>4
<1> QED BY <1>4, <1>9, <1>10 DEF OutInv

\* Only a Write or a WriteTo that found room writes, and it writes its own rest.
LEMMA OutStep == CallInv /\ OutInv /\ [Next]_vars => OutInv'
<1> SUFFICES ASSUME CallInv, OutInv, [Next]_vars PROVE OutInv'
  OBVIOUS
<1>1. ASSUME UNCHANGED <<nbytes, out>> PROVE OutInv'
  BY <1>1 DEF OutInv, Taken, InOrder
<1>2. nbytes \in [Writers -> Nat] /\ Size \in Nat \ {0} /\ SndCap \in Nat
  BY GonetAssumption DEF CallInv, CallTypes
<1>3. ASSUME NEW g \in Callers, TryWrite(g), ~(UNCHANGED <<nbytes, out>>) PROVE OutInv'
  <2> DEFINE n == Least(SndCap - ep.used, Size - nbytes[g])
  <2>1. /\ g \in Writers /\ Tcp /\ Trying(g)
        /\ out' = out \o Rest(g, n) /\ nbytes' = [nbytes EXCEPT ![g] = @ + n]
    BY <1>3 DEF TryWrite
  <2>2. ep.used \in 0..SndCap /\ nbytes[g] < Size
    BY <2>1 DEF CallInv, Filled, BytesLeft, Trying
  <2>3. n \in Nat
    BY <1>2, <2>1, <2>2 DEF Least
  <2>4. nbytes' = [nbytes EXCEPT ![g] = nbytes[g] + n]
    BY <2>1
  <2> HIDE DEF n
  <2> QED BY <1>2, <2>1, <2>3, <2>4, WritesOn
<1>4. ASSUME NEW g \in Callers, TryWriteTo(g), ~(UNCHANGED <<nbytes, out>>) PROVE OutInv'
  <2>1. /\ g \in Writers /\ use.obj = "udp" /\ Trying(g)
        /\ out' = out \o Rest(g, Size) /\ nbytes' = [nbytes EXCEPT ![g] = Size]
    BY <1>4 DEF TryWriteTo
  <2>2. nbytes[g] = 0
    BY <2>1 DEF CallInv, BytesLeft, Trying
  <2>3. nbytes[g] + Size = Size
    BY <1>2, <2>2
  <2>4. nbytes' = [nbytes EXCEPT ![g] = nbytes[g] + Size]
    BY <2>1, <2>3
  <2> QED BY <1>2, <2>1, <2>4, WritesOn
<1>5. ASSUME NEW g \in Callers, Begin(g) \/ Call(g), ~TryWrite(g), ~TryWriteTo(g)
      PROVE  UNCHANGED <<nbytes, out>>
  BY <1>5 DEF Begin, Call, Check, TryRead, TryAccept, Register, Notified, Interrupted
<1>6. CallsApart => UNCHANGED <<nbytes, out>>
  BY DEF CallsApart
<1>7. UNCHANGED vars => UNCHANGED <<nbytes, out>>
  BY DEF vars, callVars
<1> QED BY <1>1, <1>3, <1>4, <1>5, <1>6, <1>7, StepKinds, EpStepsApart, TimersApart

\* Write hands the endpoint exactly the first nbytes of its buffer, each byte once
\* and in order, for any size, room and number of writers.
THEOREM WrittenExactlyOnce == Spec => []WrittenOnce
<1>1. Init => OutInv
  BY DEF Init, OutInv, Taken, InOrder
<1>2. CallInv /\ NoLostWakeUp /\ OutInv /\ [Next]_vars => (CallInv /\ NoLostWakeUp /\ OutInv)'
  BY CallInvStep, OutStep
<1>3. OutInv => WrittenOnce
  BY TakenMeans DEF OutInv
<1> QED BY <1>1, <1>2, <1>3, CallInvInit, PTL DEF Spec
=============================================================================
