------------------------------- MODULE Listening -------------------------------
(***************************************************************************)
(* How a MosConnection accepts connections: init() opens a MosSocketServer  *)
(* for each port (MosConnection.ts, connection/mosSocketServer.ts), sockets *)
(* come and go, and dispose() closes what there is.  MosConnection.tla says *)
(* when each of this happens.                                               *)
(*                                                                         *)
(* listen() without a host binds its port before it returns, or fails; the  *)
(* events that settle the promise come later.  close() frees the port at    *)
(* once, and is done when the last connection of the server is closed.      *)
(***************************************************************************)
EXTENDS Integers

CONSTANTS
    Ports,         \* the ports of the configuration
    Sockets,       \* bounds the sockets that are open at a time
    MaxInits       \* bounds the calls of init()

ASSUME MaxInitsAssumption == MaxInits \in Nat

Inits   == 1 .. MaxInits
Servers == Inits \X Ports     \* every call makes a server for each port

VARIABLES
    inits,        \* how often init() was called; the fields of MosConnection
                  \*   hold the servers of the last call
    promise,      \* the promise of each call
    server,       \* the state of each server
    socket,       \* the server and the state of each socket that is known to
                  \*   _incomingSockets and _connectedSockets
    taken,        \* the ports another process holds
    careless      \* ghost: init() was called although servers were open

listeningVars == <<inits, promise, server, socket, taken, careless>>

NoSocket == [of |-> <<0, "none">>, state |-> "none"]

ListeningInit ==
  /\ inits = 0
  /\ promise = [i \in Inits |-> "none"]
  /\ server = [s \in Servers |-> "none"]
  /\ socket = [x \in Sockets |-> NoSocket]
  /\ taken \in SUBSET Ports
  /\ careless = FALSE

Current == {s \in Servers : s[1] = inits}
SocketsOf(s) == {x \in Sockets : socket[x].of = s}

Free(port) == port \notin taken /\ \A i \in Inits : server[<<i, port>>] # "open"

-----------------------------------------------------------------------------
(* init(), and listen() of every server, on a MosConnection that accepts    *)
(* connections.                                                             *)
CallInit ==
  /\ inits < MaxInits
  /\ inits' = inits + 1
  /\ promise' = [promise EXCEPT ![inits'] = "pending"]
  /\ server' = [s \in Servers |->
                  IF s[1] # inits' THEN server[s]
                  ELSE IF Free(s[2]) THEN "open" ELSE "failed"]
  /\ careless' = (careless \/ \E s \in Servers : server[s] = "open")
  /\ UNCHANGED <<socket, taken>>

(* The listening, error and close events of the servers have arrived.       *)
InitSettlesMutant(i) ==
  /\ promise[i] = "pending"
  /\ LET ok == \E p \in Ports : server[<<i, p>>] = "open"
     IN  promise' = [promise EXCEPT ![i] = IF ok THEN "resolved" ELSE "rejected"]
  /\ UNCHANGED <<inits, server, socket, taken, careless>>

InitSettles(i) ==
  /\ promise[i] = "pending"
  /\ LET ok == \A p \in Ports : server[<<i, p>>] = "open"
     IN  promise' = [promise EXCEPT ![i] = IF ok THEN "resolved" ELSE "rejected"]
  /\ UNCHANGED <<inits, server, socket, taken, careless>>

(* _onClientConnection and _registerIncomingClient                          *)
Accept(s, x) ==
  /\ server[s] = "open" /\ socket[x] = NoSocket
  /\ socket' = [socket EXCEPT ![x] = [of |-> s, state |-> "open"]]
  /\ UNCHANGED <<inits, promise, server, taken, careless>>

(* The close event of a socket: of ours once it is destroyed, or because    *)
(* the peer closed it.  _disposeIncomingSocket and the server forget it.    *)
Closed(x) ==
  /\ socket' = [socket EXCEPT ![x] = NoSocket]
  /\ UNCHANGED <<inits, promise, server, taken, careless>>

Destroyed(x)  == socket[x].state = "destroyed" /\ Closed(x)
PeerCloses(x) == socket[x].state = "open" /\ Closed(x)

(* dispose() destroys every known socket, and closes the servers in the     *)
(* fields of MosConnection.                                                 *)
CloseServers == server' = [s \in Servers |->
                  IF s \in Current /\ server[s] = "open" THEN "closing" ELSE server[s]]

CloseAllKeepsSocketsMutant ==
  CloseServers /\ UNCHANGED <<inits, promise, socket, taken, careless>>

DestroySockets == socket' = [x \in Sockets |->
                    [socket[x] EXCEPT !.state = IF @ = "open" THEN "destroyed" ELSE @]]

CloseAllIfResolvedMutant ==
  /\ DestroySockets
  /\ IF inits > 0 /\ promise[inits] = "resolved" THEN CloseServers ELSE UNCHANGED server
  /\ UNCHANGED <<inits, promise, taken, careless>>

CloseAll == DestroySockets /\ CloseServers /\ UNCHANGED <<inits, promise, taken, careless>>

(* The callback of close().                                                 *)
ServerClosed(s) ==
  /\ server[s] = "closing" /\ SocketsOf(s) = {}
  /\ server' = [server EXCEPT ![s] = "closed"]
  /\ UNCHANGED <<inits, promise, socket, taken, careless>>

(* Another process that held a port leaves it.                              *)
OtherProcess ==
  /\ \E p \in taken : taken' = taken \ {p}
  /\ UNCHANGED <<inits, promise, server, socket, careless>>

-----------------------------------------------------------------------------
ListeningTypeOK ==
  /\ inits \in 0 .. MaxInits
  /\ promise \in [Inits -> {"none", "pending", "resolved", "rejected"}]
  /\ server \in [Servers -> {"none", "open", "failed", "closing", "closed"}]
  /\ \A x \in Sockets :
       \/ socket[x] = NoSocket
       \/ /\ socket[x].of \in Servers /\ socket[x].state \in {"open", "destroyed"}
          /\ server[socket[x].of] \in {"open", "closing"}
  /\ careless \in BOOLEAN

(* An init() that has resolved has opened every port, and they are closed   *)
(* together or not at all.                                                  *)
ResolvedInitListens ==
  \A i \in Inits : promise[i] = "resolved" =>
    \/ \A p \in Ports : server[<<i, p>>] = "open"
    \/ \A p \in Ports : server[<<i, p>>] \in {"closing", "closed"}

(* What init() has reported, the servers and their sockets agree.            *)
ListeningConsistent == ListeningTypeOK /\ ResolvedInitListens
=============================================================================
