----------------------------- MODULE PortCallers -----------------------------
(***************************************************************************)
(* Goroutines that use one ports.Adapter concurrently.  A caller asks      *)
(* GetPort for a (protocol, remote) pair, keeps the port and returns it    *)
(* with DelPort; Close may run at any moment.  Each action is a critical   *)
(* section of src/ports/adapter.go, and what lies between two of them is   *)
(* open to every other goroutine.                                          *)
(***************************************************************************)
EXTENDS PortAdapter

CONSTANTS Callers,
          Want       \* Want[c]: the (protocol, remote) pairs c asks for

ASSUME CallersAssumption == Want \in [Callers -> SUBSET (Protos \X Remotes)]

VARIABLES pc,       \* where each caller stands
          want,     \* the pair a caller is working on
          key,      \* the (protocol, port) it was given
          closed,   \* Adapter.Close has run
          panicked  \* a nil AddrSet was dereferenced

callerVars == <<pc, want, key>>
vars == <<ports, mgr, bound, pc, want, key, closed, panicked>>

Pcs == {"idle", "alloc", "record", "leased", "unlisten"}
NoWant == <<"none", "none">>
NoKey == <<"none", "none">>

Init == /\ AdapterInit
        /\ pc = [c \in Callers |-> "idle"]
        /\ want = [c \in Callers |-> NoWant]
        /\ key = [c \in Callers |-> NoKey]
        /\ closed = FALSE
        /\ panicked = FALSE

\* Caller c moves to `where', working on w with key k.
Goto(c, where, w, k) == /\ pc' = [pc EXCEPT ![c] = where]
                        /\ want' = [want EXCEPT ![c] = w]
                        /\ key' = [key EXCEPT ![c] = k]

Running == ~panicked

\* GetPort enters and scans the map for a port to share.
Scan(c) ==
  /\ Running /\ pc[c] = "idle"
  /\ \E w \in Want[c] :
       \/ \E k \in Reusable(w[1], w[2]) : Goto(c, "record", w, k)
       \/ Reusable(w[1], w[2]) = {} /\ Goto(c, "alloc", w, NoKey)
  /\ UNCHANGED <<adapterVars, closed, panicked>>

\* Mutant of Alloc: the error of GetTCPPort or GetUDPPort is not returned.
AllocIgnoresError(c) ==
  /\ Running /\ pc[c] = "alloc"
  /\ \/ \E p \in Ports : /\ Listen(want[c][1], p)
                         /\ Goto(c, "record", want[c], <<want[c][1], p>>)
     \/ ListenFails(want[c][1]) /\ Goto(c, "record", want[c], NoKey)
  /\ UNCHANGED <<closed, panicked>>

Alloc(c) ==
  /\ Running /\ pc[c] = "alloc"
  /\ \/ \E p \in Ports : /\ Listen(want[c][1], p)
                         /\ Goto(c, "record", want[c], <<want[c][1], p>>)
     \/ ListenFails(want[c][1]) /\ Goto(c, "idle", NoWant, NoKey)
  /\ UNCHANGED <<closed, panicked>>

RecordLease(c) ==
  /\ Running /\ pc[c] = "record"
  /\ Record(key[c], want[c][2])
  /\ Goto(c, "leased", want[c], key[c])
  /\ UNCHANGED <<closed, panicked>>

\* DelPort's critical section.
Release(c) ==
  /\ Running /\ pc[c] = "leased"
  /\ Remove(key[c], want[c][2])
  /\ IF NotUse(key[c], want[c][2])
     THEN Goto(c, "unlisten", NoWant, key[c])
     ELSE Goto(c, "idle", NoWant, NoKey)
  /\ UNCHANGED <<closed, panicked>>

\* DelPort of a key that is no longer in the map takes the process down.
Panic(c) ==
  /\ Running /\ pc[c] = "leased" /\ RemovePanics(key[c])
  /\ panicked' = TRUE
  /\ UNCHANGED <<adapterVars, callerVars, closed>>

ReleaseSocket(c) ==
  /\ Running /\ pc[c] = "unlisten"
  /\ Unlisten(key[c])
  /\ Goto(c, "idle", NoWant, NoKey)
  /\ UNCHANGED <<closed, panicked>>

Close == /\ Running /\ ~closed
         /\ CloseAll
         /\ closed' = TRUE
         /\ UNCHANGED <<callerVars, panicked>>

Collect == /\ Running /\ Finalize
           /\ UNCHANGED <<callerVars, closed, panicked>>

CallerStep(c) == Scan(c) \/ Alloc(c) \/ RecordLease(c) \/ Release(c)
                 \/ Panic(c) \/ ReleaseSocket(c)

\* A crashed process takes no step.
Crashed == panicked /\ UNCHANGED vars

Next == (\E c \in Callers : CallerStep(c)) \/ Close \/ Collect \/ Crashed

Spec == Init /\ [][Next]_vars

(***************************************************************************)
(* Properties.                                                             *)
(***************************************************************************)

\* What a caller's place in GetPort or DelPort says of the values it carries.
CallerOK(c) ==
  /\ pc[c] \in {"alloc", "record", "leased"} => want[c] \in Want[c]
  /\ pc[c] \in {"record", "leased"} => key[c] \in Key /\ key[c][1] = want[c][1]
  /\ pc[c] = "unlisten" => key[c] \in Key

\* Type invariant of the adapter's maps and of the callers: a caller past the
\* allocation carries a key of the protocol it asked for.
TypeOK ==
  /\ AdapterTypeOK
  /\ pc \in [Callers -> Pcs]
  /\ want \in [Callers -> (Protos \X Remotes) \cup {NoWant}]
  /\ key \in [Callers -> Key \cup {NoKey}]
  /\ closed \in BOOLEAN /\ panicked \in BOOLEAN
  /\ \A c \in Callers : CallerOK(c)

InFlight == {key[c] : c \in {d \in Callers : pc[d] \in {"record", "unlisten"}}}

\* No leak: a port the Manager holds is either in Adapter.ports, so that a
\* later DelPort or Close will find it, or in the hands of a goroutine that is
\* about to record it (GetPort) or to close it (DelPort), whatever the
\* interleaving of GetPort, DelPort and Close.
NoPortLeak == mgr \subseteq Recorded \cup InFlight

\* A port that GetPort returned stays in Adapter.ports with the caller's remote
\* until that caller's DelPort or Close: no DelPort of another flow that shares
\* the port takes the entry away.
LeaseRecorded ==
  closed \/ \A c \in Callers : pc[c] = "leased" => want[c][2] \in ports[key[c]]

\* DelPort's unchecked map lookup meets a missing key only after Close.
PanicOnlyAfterClose == panicked => closed

\* Two callers with the same port and protocol talk to different remotes, what
\* "try reuse alloced port, require remote-addr differently" promises.
LeasesExclusive ==
  closed \/ \A c, d \in Callers :
    (c # d /\ pc[c] = "leased" /\ pc[d] = "leased" /\ key[c] = key[d])
      => want[c] # want[d]
=============================================================================
