-------------------------------- MODULE Gonet --------------------------------
(***************************************************************************)
(* The blocking calls of gonet (src/ustack/gonet/gonet.go): Read and Write *)
(* of a TCPConn or a UDPConn, Accept and AcceptBy of a TCPListener, and    *)
(* the deadlines that interrupt them.                                      *)
(*                                                                         *)
(* A call asks the endpoint; if that would block it registers with the     *)
(* wait queue, asks again, and sleeps in a select on its notification and  *)
(* on the cancel channel it took when it began.  setDeadline renews that   *)
(* channel, and timers close it, while calls sleep.                        *)
(*                                                                         *)
(* A behaviour is one use of one object, a connection of either protocol   *)
(* or a listener, by some goroutines that make one call each.  The         *)
(* endpoint and its wait queue are external.  Times are zero, past or      *)
(* future, and a timer may fire at any moment.  Channel n of a direction   *)
(* is the nth that direction made.                                         *)
(***************************************************************************)
EXTENDS Integers, Sequences, FiniteSets

CONSTANTS Readers, Writers, Acceptors,  \* goroutines
          Peers,     \* remotes that connect to the listener
          Size,      \* bytes a Write is given
          SndCap,    \* the endpoint's send buffer
          Uses,      \* the uses: obj, who calls, and bounds on what arrives (rcv)
                     \* and on the deadlines set (sets)
          None

Callers == Readers \cup Writers \cup Acceptors
Dirs == {"read", "write"}
Dir(g) == IF g \in Writers THEN "write" ELSE "read"

ASSUME GonetAssumption ==
  /\ Readers \cap Writers = {} /\ (Readers \cup Writers) \cap Acceptors = {}
  /\ None \notin Callers
  /\ Size \in Nat \ {0} /\ SndCap \in Nat \ {0}
  /\ \A u \in Uses : /\ u.obj \in {"tcp", "udp", "listener"}
                     /\ u.who \subseteq (IF u.obj = "listener" THEN Acceptors ELSE Readers \cup Writers)

VARIABLES use,      \* use.obj is "tcp", "udp" or "listener"
          pc,       \* pc[g]: where call g stands
          dl,       \* dl[g]: the cancel channel it took
          note,     \* calls whose notifyCh is filled
          reg,      \* calls registered with the wait queue
          readMu,   \* who holds TCPConn.readMu
          nbytes,   \* nbytes[g]: what Write counted
          side,     \* side[d]: cancel channel, channels made, timer
          closed,   \* cancel channels that are closed
          firing,   \* AfterFunc goroutines that have started
          passed,   \* history: passed[d], the deadline in force has passed
          sets,     \* deadlines set so far
          panicked, \* a closed channel was closed
          ep,       \* the endpoint
          out       \* history: bytes the endpoint accepted, <<writer, index>>

callVars == <<pc, dl, note, reg, readMu, nbytes>>
timerVars == <<side, closed, firing, passed, sets, panicked>>
vars == <<use, callVars, timerVars, ep, out>>

Tcp == use.obj = "tcp"
Conn == use.obj \in {"tcp", "udp"}
Listener == use.obj = "listener"

\* *timer is nil, armed, or spent: Stop returns false of the last.
Init == /\ use \in Uses
        /\ pc = [g \in Callers |-> "idle"]
        /\ dl = [g \in Callers |-> 0]
        /\ note = {} /\ reg = {} /\ readMu = None
        /\ nbytes = [g \in Writers |-> 0]
        /\ side = [d \in Dirs |-> [ch |-> 0, made |-> 0, timer |-> "nil"]]
        /\ closed = {} /\ firing = {}
        /\ passed = [d \in Dirs |-> FALSE]
        /\ sets = 0 /\ panicked = FALSE
        /\ ep = [rcv |-> 0, arrived |-> 0, eof |-> FALSE, used |-> 0, shut |-> FALSE,
                 queue |-> {}, cancel |-> FALSE, done |-> {}]
        /\ out = <<>>

(***************************************************************************)
(* deadlineTimer.                                                          *)
(***************************************************************************)

\* Mutant of Renews: only a closed channel is replaced.
RenewsClosed(d) == <<d, side[d].ch>> \in closed

\* Mutant of Renews: a channel is replaced whenever there was a timer.
RenewsAlways(d) == side[d].timer # "nil" \/ <<d, side[d].ch>> \in closed

\* setDeadline makes a new channel if the timer could not be stopped, or if an
\* expired time closed the channel.
Renews(d) == side[d].timer = "spent" \/ <<d, side[d].ch>> \in closed

\* The channel setDeadline goes on with.
NewCh(d) == IF Renews(d) THEN side[d].made + 1 ELSE side[d].ch

\* What setDeadline makes of a timer: nil for no deadline, stopped and left in
\* place for an expired one, else a new one.
NewTimer(d, t) == CASE t = "zero" -> "nil"
                    [] t = "past" -> IF side[d].timer = "nil" THEN "nil" ELSE "spent"
                    [] t = "future" -> "armed"

\* setDeadline for the directions D, under d.mu.
SetDeadlines(D, t) ==
  /\ Conn /\ sets < use.sets
  /\ sets' = sets + 1
  /\ side' = [d \in Dirs |-> IF d \notin D THEN side[d] ELSE
                [ch |-> NewCh(d), timer |-> NewTimer(d, t),
                 made |-> IF Renews(d) THEN side[d].made + 1 ELSE side[d].made]]
  /\ LET expired == IF t = "past" THEN {<<d, NewCh(d)>> : d \in D} ELSE {} IN
       /\ panicked' = (panicked \/ expired \cap closed # {})
       /\ closed' = closed \cup expired
  /\ passed' = [d \in Dirs |-> IF d \in D THEN t = "past" ELSE passed[d]]
  /\ UNCHANGED <<use, callVars, firing, ep, out>>

SetReadDeadline(t) == SetDeadlines({"read"}, t)
SetWriteDeadline(t) == SetDeadlines({"write"}, t)
SetDeadline(t) == SetDeadlines(Dirs, t)

\* The timer expires: its function is started with the channel it captured, which
\* is the current one as long as the timer has not been replaced.
Fire(d) ==
  /\ side[d].timer = "armed"
  /\ side' = [side EXCEPT ![d].timer = "spent"]
  /\ firing' = firing \cup {[dir |-> d, ch |-> side[d].ch, set |-> sets]}
  /\ passed' = [passed EXCEPT ![d] = TRUE]
  /\ UNCHANGED <<use, callVars, closed, sets, panicked, ep, out>>

\* close(ch) in the timer's function.
AfterFunc ==
  \E f \in firing :
    /\ firing' = firing \ {f}
    /\ panicked' = (panicked \/ <<f.dir, f.ch>> \in closed)
    /\ closed' = closed \cup {<<f.dir, f.ch>>}
    /\ UNCHANGED <<use, callVars, side, passed, sets, ep, out>>

(***************************************************************************)
(* The endpoint and its wait queue.                                        *)
(***************************************************************************)

\* Notify: a notifyCh has room for one.
Notify(who) == note' = note \cup (reg \cap who)

EpStep == UNCHANGED <<use, pc, dl, reg, readMu, nbytes, timerVars, out>>

Arrive == /\ Conn /\ ~ep.eof /\ ep.arrived < use.rcv
          /\ ep' = [ep EXCEPT !.rcv = @ + 1, !.arrived = @ + 1]
          /\ Notify(Readers)
          /\ EpStep

\* Room in the send buffer: a TCP has it when its use falls below the half, a UDP
\* when the buffer is no longer full.
Room(used) == IF Tcp THEN 2 * used < SndCap ELSE used < SndCap

\* A byte is acknowledged, or a datagram has left; new room is announced.
Drain == /\ Conn /\ ep.used > 0
         /\ ep' = [ep EXCEPT !.used = @ - (IF Tcp THEN 1 ELSE Size)]
         /\ IF ~Room(ep.used) /\ Room(ep'.used) THEN Notify(Writers) ELSE UNCHANGED note
         /\ EpStep

\* CloseRead, or the peer's FIN.
CloseRead == /\ Tcp /\ ~ep.eof
             /\ ep' = [ep EXCEPT !.eof = TRUE]
             /\ Notify(Readers)
             /\ EpStep

CloseWrite == /\ Tcp /\ ~ep.shut
              /\ ep' = [ep EXCEPT !.shut = TRUE]
              /\ Notify(Writers)
              /\ EpStep

Close == /\ Conn /\ ~(ep.eof /\ ep.shut)
         /\ ep' = [ep EXCEPT !.eof = TRUE, !.shut = TRUE]
         /\ Notify(Callers)
         /\ EpStep

\* A connection is established and waits to be accepted.
Established == /\ Listener /\ ~ep.shut
               /\ \E p \in Peers \ ep.queue :
                    /\ ep.arrived < use.rcv
                    /\ ep' = [ep EXCEPT !.queue = @ \cup {p}, !.arrived = @ + 1]
               /\ Notify(Acceptors)
               /\ EpStep

\* TCPListener.Shutdown, whose cancelOnce makes a second call harmless.
Shutdown == /\ Listener /\ ~ep.cancel
            /\ ep' = [ep EXCEPT !.shut = TRUE, !.queue = {}, !.cancel = TRUE]
            /\ Notify(Acceptors)
            /\ EpStep

\* TCPListener.Close.
ListenerClose == /\ Listener /\ ~ep.shut
                 /\ ep' = [ep EXCEPT !.shut = TRUE, !.queue = {}]
                 /\ Notify(Acceptors)
                 /\ EpStep

\* The context of an acceptor is done.
Cancel(g) == /\ Listener /\ g \in use.who \ ep.done
             /\ ep' = [ep EXCEPT !.done = @ \cup {g}]
             /\ EpStep /\ UNCHANGED note

(***************************************************************************)
(* The calls.                                                              *)
(***************************************************************************)

Goto(g, where) == pc' = [pc EXCEPT ![g] = where] /\ UNCHANGED <<use, dl, timerVars>>

Stay == UNCHANGED <<note, reg, readMu>>

\* Return, with EventUnregister and readMu.Unlock deferred.
Return(g) == /\ Goto(g, "returned")
             /\ reg' = reg \ {g} /\ note' = note \ {g}
             /\ readMu' = IF readMu = g THEN None ELSE readMu

\* Read takes readMu and readCancel, ReadFrom readCancel, Write and WriteTo
\* writeCancel.
Begin(g) ==
  /\ pc[g] = "idle" /\ g \in use.who
  /\ IF Tcp /\ g \in Readers THEN readMu = None /\ readMu' = g ELSE UNCHANGED readMu
  /\ pc' = [pc EXCEPT ![g] = IF Listener THEN "first" ELSE "check"]
  /\ dl' = [dl EXCEPT ![g] = side[Dir(g)].ch]
  /\ UNCHANGED <<use, note, reg, nbytes, timerVars, ep, out>>

Exceeded(g) == <<Dir(g), dl[g]>> \in closed

\* The deadline is looked at before the first attempt.
Check(g) == /\ pc[g] = "check"
            /\ IF Exceeded(g) THEN Return(g) ELSE Goto(g, "first") /\ Stay
            /\ UNCHANGED <<nbytes, ep, out>>

Trying(g) == pc[g] \in {"first", "try"}

\* ErrWouldBlock: register, or sleep if that is done.
Block(g) == Goto(g, IF pc[g] = "first" THEN "register" ELSE "select") /\ Stay

\* commonRead's ep.Read; what came before the end of the stream is read first.
TryRead(g) ==
  /\ g \in Readers /\ Trying(g)
  /\ \/ ep.rcv > 0 /\ Return(g) /\ ep' = [ep EXCEPT !.rcv = @ - 1]
     \/ ep.rcv = 0 /\ (IF ep.eof THEN Return(g) ELSE Block(g)) /\ UNCHANGED ep
  /\ UNCHANGED <<nbytes, out>>

\* Mutant of Rest: after a partial write the whole buffer is written.
RestAll(g, n) == [k \in 1..n |-> <<g, k>>]

\* The bytes the endpoint takes when it has room for n: r.Reset(b[nbytes:]).
Rest(g, n) == [k \in 1..n |-> <<g, nbytes[g] + k>>]

Least(a, b) == IF a < b THEN a ELSE b

\* Write's loop: what fits is written, the rest in the next turn.
TryWrite(g) ==
  LET n == Least(SndCap - ep.used, Size - nbytes[g]) IN
  /\ g \in Writers /\ Tcp /\ Trying(g)
  /\ \/ /\ ~ep.shut /\ n > 0
        /\ ep' = [ep EXCEPT !.used = @ + n]
        /\ out' = out \o Rest(g, n)
        /\ nbytes' = [nbytes EXCEPT ![g] = @ + n]
        /\ IF nbytes'[g] = Size THEN Return(g) ELSE Goto(g, pc[g]) /\ Stay
     \/ ~ep.shut /\ n = 0 /\ Block(g) /\ UNCHANGED <<ep, out, nbytes>>
     \/ ep.shut /\ Return(g) /\ UNCHANGED <<ep, out, nbytes>>

\* WriteTo's ep.Write: a datagram is written whole.
TryWriteTo(g) ==
  /\ g \in Writers /\ use.obj = "udp" /\ Trying(g)
  /\ \/ /\ ~ep.shut /\ Room(ep.used)
        /\ ep' = [ep EXCEPT !.used = @ + Size]
        /\ out' = out \o Rest(g, Size)
        /\ nbytes' = [nbytes EXCEPT ![g] = Size]
        /\ Return(g)
     \/ ~ep.shut /\ ~Room(ep.used) /\ Block(g) /\ UNCHANGED <<ep, out, nbytes>>
     \/ ep.shut /\ Return(g) /\ UNCHANGED <<ep, out, nbytes>>

\* Accept and AcceptBy alike: the endpoint hands out any established connection,
\* and only fills AcceptBy's src with its address.
TryAccept(g) ==
  /\ g \in Acceptors /\ Trying(g)
  /\ \/ \E p \in ep.queue : Return(g) /\ ep' = [ep EXCEPT !.queue = @ \ {p}]
     \/ /\ ep.queue = {}
        /\ IF ep.shut THEN Return(g) ELSE Block(g)
        /\ UNCHANGED ep
  /\ UNCHANGED <<nbytes, out>>

\* Mutant of Registered: the endpoint is not asked again.
RegisteredAsleep(g) == "select"

\* Where a call goes on after EventRegister: only WriteTo sleeps at once.
Registered(g) == IF use.obj = "udp" /\ g \in Writers THEN "select" ELSE "try"

Register(g) == /\ pc[g] = "register"
               /\ reg' = reg \cup {g}
               /\ Goto(g, Registered(g))
               /\ UNCHANGED <<note, readMu, nbytes, ep, out>>

\* The select: a notification, or the deadline, l.cancel or ctx.Done.
Notified(g) == /\ pc[g] = "select" /\ g \in note
               /\ note' = note \ {g}
               /\ Goto(g, "try")
               /\ UNCHANGED <<reg, readMu, nbytes, ep, out>>

Interrupted(g) == /\ pc[g] = "select"
                  /\ IF Listener THEN ep.cancel \/ g \in ep.done ELSE Exceeded(g)
                  /\ Return(g)
                  /\ UNCHANGED <<nbytes, ep, out>>

Call(g) == \/ Check(g) \/ TryRead(g) \/ TryWrite(g) \/ TryWriteTo(g) \/ TryAccept(g)
           \/ Register(g) \/ Notified(g) \/ Interrupted(g)

Times == {"zero", "past", "future"}

Next == \/ \E g \in Callers : Begin(g) \/ Call(g) \/ Cancel(g)
        \/ \E t \in Times : SetReadDeadline(t) \/ SetWriteDeadline(t) \/ SetDeadline(t)
        \/ \E d \in Dirs : Fire(d)
        \/ AfterFunc
        \/ Arrive \/ Drain \/ CloseRead \/ CloseWrite \/ Close
        \/ Established \/ Shutdown \/ ListenerClose

Spec == Init /\ [][Next]_vars

(***************************************************************************)
(* Properties.                                                             *)
(***************************************************************************)

\* Deadlines are exact: the current cancel channel is closed, or about to be by
\* the timer set for it, just when the deadline in force has passed, so a timer
\* that was replaced never cancels a call under a later deadline; and no channel
\* is closed twice.
Closing(d, c) == <<d, c>> \in closed \/ \E f \in firing : f.dir = d /\ f.ch = c
DeadlineExact ==
  /\ ~panicked
  /\ Conn => \A d \in Dirs : Closing(d, side[d].ch) <=> passed[d]

\* A deadline set while a call sleeps applies to it: the channel the call took
\* when it began is still the current one, or its time has come.
InCall(g) == pc[g] \notin {"idle", "returned"}
SleepersCancellable ==
  Conn => \A g \in Callers : InCall(g) =>
            dl[g] = side[Dir(g)].ch \/ Closing(Dir(g), dl[g])

\* Write: the endpoint took exactly the first nbytes of the buffer, each byte
\* once and in order, however the room and the other writers fell.
WrittenOnce ==
  /\ \A g \in Writers : {out[i] : i \in {j \in 1..Len(out) : out[j][1] = g}} = {<<g, k>> : k \in 1..nbytes[g]}
  /\ \A i, j \in 1..Len(out) : i < j /\ out[i][1] = out[j][1] => out[i][2] < out[j][2]

\* No wake-up is lost: a call sleeps in its select only while there is nothing to
\* read or to accept, no room to write and no end, or its notification is there.
\* WriteTo is not among them: it may sleep through the room it waits for.
Ready(g) == \/ g \in Readers /\ (ep.rcv > 0 \/ ep.eof)
            \/ g \in Writers /\ Tcp /\ (Room(ep.used) \/ ep.shut)
            \/ g \in Acceptors /\ (ep.queue # {} \/ ep.shut)
NoLostWakeUp == \A g \in Callers : pc[g] = "select" /\ Ready(g) => g \in note
=============================================================================
