----------------------------- MODULE PortAdapter -----------------------------
(***************************************************************************)
(* ports.Adapter (src/ports/adapter.go) and ports.Manager                  *)
(* (src/ports/manager.go): the local ports of the proxy server.            *)
(*                                                                         *)
(* The Manager holds a port by keeping a listening socket on it.  The      *)
(* Adapter lets several flows share one port as long as their remote       *)
(* addresses differ.  GetPort and DelPort are not atomic: each takes       *)
(* Adapter.mu twice, or takes it and then calls the Manager.  This module  *)
(* gives their critical sections as actions on the shared state; the       *)
(* modules that extend it string them together per goroutine.              *)
(*                                                                         *)
(* AddrSet (a sorted slice searched by bisection) is modelled as a set.    *)
(* The panic for TCP port 443 is left out: the kernel hands out ephemeral  *)
(* ports.  GetPort refuses an invalid remote address before it touches any *)
(* state, so Remotes holds valid addresses.                                *)
(***************************************************************************)
EXTENDS FiniteSets

CONSTANTS Protos,       \* protocol numbers a caller may ask for
          Transports,   \* the ones GetPort knows: TCP and UDP
          Ports,        \* local ports the kernel can hand out
          Remotes,      \* remote addresses
          Faults        \* whether net.Listen and setFilterAll may fail

ASSUME AdapterAssumption == Transports \subseteq Protos /\ Faults \in BOOLEAN

VARIABLES ports,   \* Adapter.ports; {} stands for an absent key
          mgr,     \* keys of Manager.tcp and Manager.udp
          bound    \* sockets open in the kernel

adapterVars == <<ports, mgr, bound>>

Key == Transports \X Ports   \* portKey

AdapterInit == /\ ports = [k \in Key |-> {}]
               /\ mgr = {}
               /\ bound = {}

AddrSet == SUBSET Remotes

AdapterTypeOK == /\ ports \in [Key -> AddrSet]
                 /\ mgr \in SUBSET Key
                 /\ bound \in SUBSET Key

Recorded == {k \in Key : ports[k] # {}}

(***************************************************************************)
(* GetPort.                                                                *)
(***************************************************************************)

\* Mutant of Reusable: the scan forgets to compare the protocol.
ReusableAnyProto(proto, remote) == {k \in Recorded : remote \notin ports[k]}

\* Mutant of Reusable: the scan forgets to look the remote up.
ReusableAnyRemote(proto, remote) == {k \in Recorded : k[1] = proto}

\* The keys the scan under mu.RLock may settle on; map order is random.
Reusable(proto, remote) ==
  {k \in Recorded : k[1] = proto /\ remote \notin ports[k]}

\* GetTCPPort or GetUDPPort: the kernel chooses a free port.
Listen(proto, p) == /\ proto \in Transports
                    /\ <<proto, p>> \notin bound
                    /\ bound' = bound \cup {<<proto, p>>}
                    /\ mgr' = mgr \cup {<<proto, p>>}
                    /\ UNCHANGED ports

\* The error returns: an unknown protocol, no free port, a failed net.Listen,
\* or a failed setFilterAll, which forgets the socket without closing it.
ListenFails(proto) ==
  \/ /\ \/ proto \notin Transports
        \/ Faults
        \/ \A p \in Ports : <<proto, p>> \in bound
     /\ UNCHANGED adapterVars
  \/ /\ Faults /\ proto \in Transports
     /\ \E p \in Ports : /\ <<proto, p>> \notin bound
                         /\ bound' = bound \cup {<<proto, p>>}
     /\ UNCHANGED <<ports, mgr>>

\* The second critical section adds the remote to the key's set.
Record(k, remote) == /\ ports' = [ports EXCEPT ![k] = @ \cup {remote}]
                     /\ UNCHANGED <<mgr, bound>>

(***************************************************************************)
(* DelPort.  On an absent key Adapter.DelPort dereferences a nil AddrSet.  *)
(***************************************************************************)

RemovePanics(k) == k \notin Recorded

\* Mutant of Remove: the whole entry goes with one of its remotes.
RemoveEntry(k, remote) == /\ k \in Recorded
                          /\ ports' = [ports EXCEPT ![k] = {}]
                          /\ UNCHANGED <<mgr, bound>>

\* The critical section of DelPort.
Remove(k, remote) == /\ k \in Recorded
                     /\ ports' = [ports EXCEPT ![k] = @ \ {remote}]
                     /\ UNCHANGED <<mgr, bound>>

\* Mutant of NotUse: the length is read before the remote is removed.
NotUseStale(k, remote) == ports[k] = {}

\* Mutant of NotUse: every DelPort goes on to close the socket.
NotUseAlways(k, remote) == TRUE

\* DelPort goes on to the Manager only when the key became unused.
NotUse(k, remote) == ports[k] \subseteq {remote}

\* DelTCPPort or DelUDPPort: forget the socket, then close it.
Unlisten(k) == /\ mgr' = mgr \ {k}
               /\ bound' = IF k \in mgr THEN bound \ {k} ELSE bound
               /\ UNCHANGED ports

(***************************************************************************)
(* Adapter.Close, and the finalizer of a socket nobody refers to.          *)
(***************************************************************************)

CloseAll == /\ ports' = [k \in Key |-> {}]
            /\ mgr' = mgr \ Recorded
            /\ bound' = bound \ (Recorded \cap mgr)

\* The runtime closes a socket that setFilterAll's error path dropped.
Finalize == /\ \E k \in bound \ mgr : bound' = bound \ {k}
            /\ UNCHANGED <<ports, mgr>>
=============================================================================
