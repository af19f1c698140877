------------------------------- MODULE LinkList -------------------------------
(***************************************************************************)
(* link.List (src/ustack/link/list.go): the link endpoint between the      *)
(* user-mode TCP stack and the tunnels.  The stack's goroutines write      *)
(* packets; each tunnel's outboundService takes the packets for its own    *)
(* remote address.                                                         *)
(*                                                                         *)
(* The queue is a slice under a mutex, with a condition variable on the    *)
(* same mutex.  Get first tries without waiting, unlocks, and only then    *)
(* locks again and waits; Put broadcasts after it has unlocked.  So a      *)
(* packet put between Get's two critical sections wakes nobody and lies in *)
(* the queue until the next Put.                                           *)
(*                                                                         *)
(* A packet is its serial number and destination; refs counts the          *)
(* references the list and its readers hold on it.                         *)
(***************************************************************************)
EXTENDS Integers, Sequences, FiniteSets

CONSTANTS Writers,   \* goroutines of the stack
          Readers,   \* goroutines in Outbound or OutboundBy
          Dsts,      \* remote addresses
          Filter,    \* Filter[r]: the addresses r takes packets for
          Cancels,   \* the readers whose context may be cancelled
          Buff,      \* NewList's buff
          MaxPkts,   \* bound on the packets written
          None

Pkt == [id : 1..MaxPkts, dst : Dsts]

ASSUME ListAssumption ==
  /\ Buff \in Nat /\ MaxPkts \in Nat /\ None \notin Pkt
  /\ Filter \in [Readers -> SUBSET Dsts]
  /\ Cancels \subseteq Readers

VARIABLES s,          \* slice.s
          written,    \* number of packets written so far
          refs,       \* per packet: references held
          wpc,        \* per writer: its place in WritePackets
          rpc, hand,  \* per reader: its place in Get, the packet it got
          done,       \* readers whose context is done
          closed,     \* List.closed
          synpc,      \* the place of the SynClose that set it
          late,       \* whether its deadline has passed
          gap         \* per reader: the packets for it that were put after its
                      \* last try and before it waited (a history)

writeVars == <<written, wpc>>
readVars == <<rpc, hand, done, gap>>
closeVars == <<closed, synpc, late>>
vars == <<s, refs, writeVars, readVars, closeVars>>

Cap == IF Buff > 4 THEN Buff ELSE 4

Init == /\ s = <<>> /\ written = 0
        /\ refs = [n \in 1..MaxPkts |-> 0]
        /\ wpc = [w \in Writers |-> "idle"]
        /\ rpc = [r \in Readers |-> "idle"]
        /\ hand = [r \in Readers |-> None]
        /\ done = {} /\ gap = [r \in Readers |-> {}]
        /\ closed = FALSE /\ synpc = "idle" /\ late = FALSE

(***************************************************************************)
(* WritePackets and slice.Put.                                             *)
(***************************************************************************)

\* closed is looked at once, before the first packet of the batch.
WritePackets(w) == /\ wpc[w] = "idle" /\ ~closed
                   /\ wpc' = [wpc EXCEPT ![w] = "put"]
                   /\ UNCHANGED <<s, refs, written, readVars, closeVars>>

\* The history of a put: these readers have tried and do not wait yet.
Pass(d) ==
  gap' = [r \in Readers |-> IF rpc[r] \in {"select", "lock"} /\ d \in Filter[r]
                            THEN gap[r] \cup {written + 1} ELSE gap[r]]

\* Mutant of Put: nothing is dropped, and append grows the slice.
PutGrows(w) ==
  \E d \in Dsts :
    /\ wpc[w] = "put" /\ written < MaxPkts
    /\ written' = written + 1
    /\ s' = Append(s, [id |-> written + 1, dst |-> d])
    /\ refs' = [refs EXCEPT ![written + 1] = @ + 1]
    /\ wpc' = [wpc EXCEPT ![w] = "notify"]
    /\ Pass(d)
    /\ UNCHANGED <<rpc, hand, done, closeVars>>

\* Mutant of Put: the packet dropped from a full queue keeps its reference.
PutLeaks(w) ==
  \E d \in Dsts :
    /\ wpc[w] = "put" /\ written < MaxPkts
    /\ written' = written + 1
    /\ s' = Append(IF Len(s) = Cap THEN Tail(s) ELSE s, [id |-> written + 1, dst |-> d])
    /\ refs' = [refs EXCEPT ![written + 1] = @ + 1]
    /\ wpc' = [wpc EXCEPT ![w] = "notify"]
    /\ Pass(d)
    /\ UNCHANGED <<rpc, hand, done, closeVars>>

\* slice.Put under the mutex; a full queue loses its oldest packet.
Put(w) ==
  \E d \in Dsts :
    /\ wpc[w] = "put" /\ written < MaxPkts
    /\ written' = written + 1
    /\ s' = Append(IF Len(s) = Cap THEN Tail(s) ELSE s, [id |-> written + 1, dst |-> d])
    /\ refs' = [n \in 1..MaxPkts |->
                  CASE n = written + 1 -> refs[n] + 1
                    [] Len(s) = Cap /\ n = Head(s).id -> refs[n] - 1
                    [] OTHER -> refs[n]]
    /\ wpc' = [wpc EXCEPT ![w] = "notify"]
    /\ Pass(d)
    /\ UNCHANGED <<rpc, hand, done, closeVars>>

Waiting == {r \in Readers : rpc[r] = "wait"}

\* Mutant of Notify: Signal instead of Broadcast.
NotifyOne(w) ==
  /\ wpc[w] = "notify"
  /\ \/ \E r \in Waiting : rpc' = [rpc EXCEPT ![r] = "woken"]
     \/ Waiting = {} /\ UNCHANGED rpc
  /\ \E where \in {"put", "idle"} : wpc' = [wpc EXCEPT ![w] = where]
  /\ UNCHANGED <<s, refs, written, hand, done, gap, closeVars>>

\* The deferred Broadcast, and then the next packet of the batch or none.
Notify(w) ==
  /\ wpc[w] = "notify"
  /\ rpc' = [r \in Readers |-> IF r \in Waiting THEN "woken" ELSE rpc[r]]
  /\ \E where \in {"put", "idle"} : wpc' = [wpc EXCEPT ![w] = where]
  /\ UNCHANGED <<s, refs, written, hand, done, gap, closeVars>>

(***************************************************************************)
(* Outbound, OutboundBy: slice.Get and slice.GetBy.                        *)
(***************************************************************************)

Matching(r) == {i \in 1..Len(s) : s[i].dst \in Filter[r]}

\* Mutant of Without: the last packet fills the gap.
WithoutSwap(i) == [j \in 1..(Len(s) - 1) |-> IF j = i THEN s[Len(s)] ELSE s[j]]

\* The queue with the packet at i taken out.
Without(i) == SubSeq(s, 1, i - 1) \o SubSeq(s, i + 1, Len(s))

\* get and getBy: the first packet that matches.
Take(r, otherwise) ==
  /\ gap' = [gap EXCEPT ![r] = {}]
  /\ \/ \E i \in Matching(r) :
          /\ \A j \in Matching(r) : i <= j
          /\ hand' = [hand EXCEPT ![r] = s[i]]
          /\ s' = Without(i)
          /\ rpc' = [rpc EXCEPT ![r] = "got"]
     \/ /\ Matching(r) = {}
        /\ rpc' = [rpc EXCEPT ![r] = otherwise]
        /\ UNCHANGED <<s, hand>>

\* The first critical section.
Get(r) == /\ rpc[r] = "idle" /\ r \notin done
          /\ Take(r, "select")
          /\ UNCHANGED <<refs, writeVars, done, closeVars>>

\* The select on ctx.Done().
Select(r) == /\ rpc[r] = "select"
             /\ rpc' = [rpc EXCEPT ![r] = IF r \in done THEN "returned" ELSE "lock"]
             /\ UNCHANGED <<s, refs, writeVars, hand, done, gap, closeVars>>

\* Lock, then Cond.Wait, which joins the waiters before it unlocks.
Wait(r) == /\ rpc[r] = "lock"
           /\ rpc' = [rpc EXCEPT ![r] = "wait"]
           /\ UNCHANGED <<s, refs, writeVars, hand, done, gap, closeVars>>

\* Wait has returned with the mutex: try again.
Retry(r) == /\ rpc[r] = "woken"
            /\ Take(r, "select")
            /\ UNCHANGED <<refs, writeVars, done, closeVars>>

\* outboundBy copies the packet and drops its reference; the service goes on
\* to the next packet, or stops because the tunnel failed.
Outbound(r) == /\ rpc[r] = "got"
               /\ refs' = [refs EXCEPT ![hand[r].id] = @ - 1]
               /\ hand' = [hand EXCEPT ![r] = None]
               /\ \E where \in {"idle", "returned"} : rpc' = [rpc EXCEPT ![r] = where]
               /\ UNCHANGED <<s, writeVars, done, gap, closeVars>>

\* A reader's context is cancelled.
Cancel(r) == /\ r \in Cancels \ done /\ rpc[r] # "returned"
             /\ done' = done \cup {r}
             /\ UNCHANGED <<s, refs, writeVars, rpc, hand, gap, closeVars>>

(***************************************************************************)
(* SynClose.  The slice's own Close does nothing.                          *)
(***************************************************************************)

SynClose == /\ ~closed
            /\ closed' = TRUE /\ synpc' = "loop"
            /\ UNCHANGED <<s, refs, writeVars, readVars, late>>

Deadline == /\ synpc = "loop" /\ ~late
            /\ late' = TRUE
            /\ UNCHANGED <<s, refs, writeVars, readVars, closed, synpc>>

\* for Size() > 0 || Before(dead): the loop is left.
SynLoop == /\ synpc = "loop" /\ ~(Len(s) > 0 \/ ~late)
           /\ synpc' = "size"
           /\ UNCHANGED <<s, refs, writeVars, readVars, closed, late>>

\* The size is read once more; packets of a batch that began before the close
\* may have come in between.
SynReturn == /\ synpc = "size"
             /\ synpc' = IF Len(s) > 0 THEN "timeout" ELSE "nil"
             /\ UNCHANGED <<s, refs, writeVars, readVars, closed, late>>

\* Nobody calls the list any more.
Quiet == /\ synpc \in {"idle", "nil", "timeout"} \/ Len(s) > 0
         /\ \A r \in Readers : rpc[r] \in {"idle", "wait", "returned"}
         /\ UNCHANGED vars

Writer(w) == WritePackets(w) \/ Put(w) \/ Notify(w)
Reader(r) == Get(r) \/ Select(r) \/ Wait(r) \/ Retry(r) \/ Outbound(r)
Closing == SynLoop \/ SynReturn

Next == \/ \E w \in Writers : Writer(w)
        \/ \E r \in Readers : Reader(r) \/ Cancel(r)
        \/ SynClose \/ Deadline \/ Closing \/ Quiet

Spec == Init /\ [][Next]_vars

\* Goroutines inside a call run on, outboundService reads again until it stops,
\* and the deadline of SynClose passes.  Nobody has to start another write.
FairSpec == /\ Spec
            /\ \A w \in Writers : WF_vars(Put(w) \/ Notify(w))
            /\ \A r \in Readers : WF_vars(Get(r) \/ Select(r) \/ Wait(r) \/ Retry(r) \/ Outbound(r))
            /\ WF_vars(Deadline) /\ WF_vars(Closing)

(***************************************************************************)
(* Properties.                                                             *)
(***************************************************************************)

\* Type invariant; the queue stays within its capacity.
TypeOK ==
  /\ s \in Seq(Pkt) /\ Len(s) <= Cap
  /\ written \in 0..MaxPkts
  /\ refs \in [1..MaxPkts -> 0..1]
  /\ wpc \in [Writers -> {"idle", "put", "notify"}]
  /\ rpc \in [Readers -> {"idle", "select", "lock", "wait", "woken", "got", "returned"}]
  /\ hand \in [Readers -> Pkt \cup {None}]
  /\ \A r \in Readers : rpc[r] = "got" <=> hand[r] # None
  /\ done \in SUBSET Readers
  /\ gap \in [Readers -> SUBSET (1..MaxPkts)]
  /\ closed \in BOOLEAN /\ late \in BOOLEAN
  /\ synpc \in {"idle", "loop", "size", "nil", "timeout"}
  /\ closed <=> synpc # "idle"

\* References are balanced: a packet has the list's reference exactly while it
\* is queued or in the hands of the one reader that took it.
RefsBalanced ==
  \A n \in 1..MaxPkts :
    refs[n] = Cardinality({i \in 1..Len(s) : s[i].id = n})
              + Cardinality({r \in Readers : hand[r] # None /\ hand[r].id = n})

\* The packets of one destination leave the queue in the order they were
\* written, whoever takes them and whatever is dropped from a full queue.
OldestLeavesFirst ==
  [][\A i \in 1..Len(s) : (\A k \in 1..Len(s') : s'[k] # s[i]) =>
       \A k \in 1..Len(s') : s'[k].dst = s[i].dst => s[i].id < s'[k].id]_vars

\* A reader sleeps in Cond.Wait beside a packet for it only when a Broadcast is
\* coming, or when the packet was put between the reader's last try and its Wait:
\* that window of Get and GetBy is the only way to lose a wake-up, whoever else
\* takes, drops or puts packets and however often the reader was woken for
\* another's packet.
AsleepOnlyInTheGap ==
  \A r \in Readers : rpc[r] = "wait" =>
    \/ \A i \in Matching(r) : s[i].id \in gap[r]
    \/ \E w \in Writers : wpc[w] = "notify"

\* "SynClose timeout": a SynClose whose deadline has passed returns.
SynCloseTimesOut == (synpc = "loop" /\ late) ~> synpc \in {"nil", "timeout"}
=============================================================================
