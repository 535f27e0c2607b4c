----------------------------- MODULE MosConnection -----------------------------
(***************************************************************************)
(* A MosConnection: the application initialises it, connects and disposes   *)
(* devices; peers connect to its ports, and with openRelay their messages   *)
(* make devices; dispose() ends all of it (MosConnection.ts).               *)
(***************************************************************************)
EXTENDS Registry, Listening

VARIABLE closing   \* how far the last dispose() is; "no" if something was
                   \*   opened since

vars == <<closing, registryVars, listeningVars>>

Init == closing = "no" /\ RegistryInit /\ ListeningInit

Initialise == CallInit /\ closing' = "no" /\ UNCHANGED registryVars

(* connect() throws before init().                                          *)
ConnectDevice ==
  /\ inits > 0
  /\ Connect /\ closing' = "no" /\ UNCHANGED listeningVars

(* A message comes in on a socket that is not destroyed, with openRelay.    *)
Relay ==
  /\ \E x \in Sockets : socket[x].state = "open"
  /\ Relayed /\ UNCHANGED <<closing, listeningVars>>

DisposeDevice == DisposeMosDevice /\ UNCHANGED <<closing, listeningVars>>
DeviceDisposed == Forget /\ UNCHANGED <<closing, listeningVars>>

Dispose ==
  /\ inits > 0
  /\ CloseAll /\ DisposeAllDevices
  /\ closing' = "running"

(* Everything that dispose() waits for has happened: the sockets first, the *)
(* servers, the devices.  The servers of a call before the last are not     *)
(* among it.                                                                *)
Disposed ==
  /\ closing = "running"
  /\ \A x \in Sockets : socket[x].state # "destroyed"
  /\ \A s \in Current : server[s] # "closing"
  /\ disposals = <<>>
  /\ closing' = "done" /\ UNCHANGED <<registryVars, listeningVars>>

Event ==
  /\ \/ OtherProcess
     \/ \E i \in Inits : InitSettles(i)
     \/ \E s \in Servers : ServerClosed(s) \/ \E x \in Sockets : Accept(s, x)
     \/ \E x \in Sockets : Destroyed(x) \/ PeerCloses(x)
  /\ UNCHANGED <<closing, registryVars>>

Next ==
  \/ Initialise \/ ConnectDevice \/ Relay \/ DisposeDevice \/ DeviceDisposed
  \/ Dispose \/ Disposed \/ Event

(* What this process has asked the operating system for happens in the end, *)
(* and promises settle; peers may keep their connections for ever.          *)
Fairness ==
  /\ WF_vars(Disposed) /\ WF_vars(DeviceDisposed)
  /\ \A i \in Inits : WF_listeningVars(InitSettles(i))
  /\ \A s \in Servers : WF_listeningVars(ServerClosed(s))
  /\ \A x \in Sockets : WF_listeningVars(Destroyed(x))

Spec == Init /\ [][Next]_vars /\ Fairness

-----------------------------------------------------------------------------
(* "Close all connections and clear all data" (MosConnection.ts:174): when  *)
(* dispose() is done no port and no socket is open, whichever of the ports  *)
(* could be opened, and no device is left.                                  *)
(*                                                                         *)
(* Not the servers of an init() before the last: they are lost, so init()   *)
(* must not have been called while they were open.  And the second key of a *)
(* device with a secondary stays behind.                                    *)
DisposeReleases ==
  closing = "done" /\ ~careless =>
    /\ \A s \in Servers : server[s] # "open"
    /\ \A x \in Sockets : socket[x] = NoSocket
    /\ \A d \in Devices : devices[d].live => devices[d].hasty
    /\ \A p \in Peers : register[p] # NoDevice => devices[register[p]].id1 # NoPeer

(* dispose() is done in the end, whatever the peers do, unless init() or    *)
(* connect() is called meanwhile.                                           *)
DisposeEnds == closing = "running" ~> closing # "running" \/ careless
=============================================================================
