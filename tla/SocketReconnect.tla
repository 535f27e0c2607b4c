--------------------------- MODULE SocketReconnect ---------------------------
(***************************************************************************)
(* How one MosSocketClient (connection/mosSocketClient.ts) keeps its        *)
(* connection up: connect(), the interval that retries, the events of the   *)
(* net.Socket and dispose().  The command queue of the same class is in     *)
(* SocketClient.tla and does not touch any of these fields, except that it  *)
(* reads connected.                                                         *)
(*                                                                         *)
(* Time is counted in units of which _reconnectDelay has Delay.  A timer    *)
(* fires at its time or up to Late units after it.                          *)
(***************************************************************************)
EXTENDS Integers

CONSTANTS
    Delay,           \* _reconnectDelay
    Late,            \* how late the event loop may run a timer
    Options          \* the settings a client may have

ASSUME DelayAssumption == Delay \in Nat \ {0}
ASSUME LateAssumption  == Late \in Nat

(* auto is _autoReconnect and limit is _reconnectAttempts: 0 is no limit,   *)
(* -1 no reconnection.                                                      *)
ASSUME OptionsAssumption ==
  Options \subseteq [auto : BOOLEAN, limit : {n \in Int : n >= -1}]

Off == -1

(* since stops counting here: the code only compares it with Delay.         *)
Horizon == Delay + Delay + Late

VARIABLES
    options,             \* set before connect(), and left alone from then on
    connected,           \* _connected
    shouldBeConnected,   \* _shouldBeConnected
    interval,   \* time since _connectionAttemptTimer was armed or fired; or Off
    attempt,             \* _reconnectAttempt
    since,               \* time since _lastConnectionAttempt; at first Horizon
    socket,              \* the net.Socket in _client
    disposed             \* _disposed

vars == <<options, connected, shouldBeConnected, interval, attempt, since, socket,
          disposed>>

Init ==
  /\ options \in Options
  /\ connected = FALSE /\ shouldBeConnected = FALSE /\ disposed = FALSE
  /\ interval = Off /\ attempt = 0
  /\ since = Horizon
  /\ socket = "none"

-----------------------------------------------------------------------------
(* The parts the methods share.                                             *)

ArmMutant == UNCHANGED interval

Arm == interval' = IF interval = Off THEN 0 ELSE interval

(* _clearConnectionAttemptTimer *)
ClearTimer == interval' = Off /\ attempt' = 0

Throttled == since < Delay

(* connect(), past its test of connected, when the socket is in the state   *)
(* current: make an attempt unless the last one is too recent.  A socket    *)
(* that is still connecting is thrown away with its listeners.              *)
Attempt(current) ==
  IF Throttled THEN socket' = current /\ UNCHANGED <<shouldBeConnected, since>>
  ELSE shouldBeConnected' = TRUE /\ since' = 0 /\ socket' = "connecting"

-----------------------------------------------------------------------------

(* NCSServerConnection.connect calls it.  A disposed client is out of its   *)
(* reach: removeClient drops the client together with disposing of it.      *)
Connect ==
  /\ ~disposed /\ ~connected
  /\ Attempt(socket) /\ Arm
  /\ UNCHANGED <<options, connected, attempt, disposed>>

(* _autoReconnectionAttempt, once the limit is reached.                     *)
GiveUp ==
  /\ interval >= Delay
  /\ options.auto /\ options.limit > 0 /\ attempt >= options.limit
  /\ ClearTimer
  /\ UNCHANGED <<options, connected, shouldBeConnected, since, socket, disposed>>

(* _autoReconnectionAttempt, with attempts left.  The attempts are counted  *)
(* only where there is a limit to compare them with.                        *)
RetryUncountedMutant ==
  /\ interval >= Delay
  /\ options.auto /\ options.limit >= 0 /\ (options.limit = 0 \/ attempt < options.limit)
  /\ ~connected
  /\ interval' = 0
  /\ UNCHANGED attempt
  /\ Attempt(socket)
  /\ UNCHANGED <<options, connected, disposed>>

Retry ==
  /\ interval >= Delay
  /\ options.auto /\ options.limit >= 0 /\ (options.limit = 0 \/ attempt < options.limit)
  /\ ~connected
  /\ interval' = 0
  /\ attempt' = IF options.limit = 0 THEN attempt ELSE attempt + 1
  /\ Attempt(socket)
  /\ UNCHANGED <<options, connected, disposed>>

(* The interval fires and does nothing.                                     *)
IdleInterval ==
  /\ interval >= Delay
  /\ ~options.auto \/ options.limit < 0
  /\ interval' = 0
  /\ UNCHANGED <<options, connected, shouldBeConnected, attempt, since, socket, disposed>>

Fire == GiveUp \/ Retry \/ IdleInterval

(* _onConnected *)
Connected ==
  /\ socket = "connecting"
  /\ socket' = "open" /\ connected' = TRUE
  /\ ClearTimer
  /\ UNCHANGED <<options, shouldBeConnected, since, disposed>>

(* _onClose: the connection is lost, or an attempt was refused.             *)
CloseGivesUpMutant ==
  /\ socket \in {"connecting", "open"}
  /\ connected' = FALSE
  /\ IF shouldBeConnected /\ since >= Delay
     THEN Arm /\ shouldBeConnected' = TRUE /\ since' = 0 /\ socket' = "connecting"
     ELSE socket' = "closed" /\ UNCHANGED <<shouldBeConnected, since, interval>>
  /\ UNCHANGED <<options, attempt, disposed>>

Close ==
  /\ socket \in {"connecting", "open"}
  /\ connected' = FALSE
  /\ IF shouldBeConnected
     THEN Attempt("closed") /\ Arm
     ELSE socket' = "closed" /\ UNCHANGED <<shouldBeConnected, since, interval>>
  /\ UNCHANGED <<options, attempt, disposed>>

(* The socket dispose() dropped closes: its listeners are still attached.   *)
LateCloseReconnectsMutant ==
  /\ socket = "dropped"
  /\ connected' = FALSE
  /\ Attempt("none") /\ Arm
  /\ UNCHANGED <<options, attempt, disposed>>

LateClose ==
  /\ socket = "dropped"
  /\ connected' = FALSE
  /\ IF shouldBeConnected THEN Attempt("none") /\ Arm
     ELSE socket' = "none" /\ UNCHANGED <<shouldBeConnected, since, interval>>
  /\ UNCHANGED <<options, attempt, disposed>>

(* The socket after end() and destroy(): one that is closed already has no  *)
(* event left.                                                              *)
Dropped == IF socket \in {"connecting", "open"} THEN "dropped"
           ELSE IF socket = "closed" THEN "none" ELSE socket

Dispose ==
  /\ disposed' = TRUE /\ connected' = FALSE /\ shouldBeConnected' = FALSE
  /\ ClearTimer
  /\ socket' = Dropped
  /\ UNCHANGED <<options, since>>

(* Time passes; a timer that is due does not wait longer than Late.         *)
TimePasses ==
  /\ interval < Delay + Late
  /\ interval' = IF interval = Off THEN Off ELSE interval + 1
  /\ since' = IF since = Horizon THEN Horizon ELSE since + 1
  /\ UNCHANGED <<options, connected, shouldBeConnected, attempt, socket, disposed>>

Next == Connect \/ Fire \/ Connected \/ Close \/ LateClose \/ Dispose \/ TimePasses

Spec == Init /\ [][Next]_vars

(* Node runs the timers, and time does not stop.                            *)
TimerSpec == Spec /\ WF_vars(TimePasses) /\ WF_vars(Fire)

-----------------------------------------------------------------------------

(* The fields that are flags, and those that are not.                       *)
Flags   == options \in Options /\ connected \in BOOLEAN /\ shouldBeConnected \in BOOLEAN
           /\ disposed \in BOOLEAN
Clocks  == interval \in Off .. Delay + Late /\ since \in 0 .. Horizon
Counter == attempt \in Nat /\ attempt <= (IF options.limit > 0 THEN options.limit ELSE 0)
Socket  == socket \in {"none", "closed", "connecting", "open", "dropped"}

TypeOK == Flags /\ Clocks /\ Counter /\ Socket

Down == shouldBeConnected /\ ~connected

(* mosSocketClient.ts:454-458, 107-112: while the client is down it tries   *)
(* again in time.  Two attempts are never 2 * Delay + Late apart, whatever  *)
(* is closed, refused or throttled in between.                              *)
RetriesInTime == Down /\ options.auto /\ options.limit = 0 => since < Delay + Delay + Late

(* mosSocketClient.ts:204-217: a disposed client stays down.  The interval  *)
(* is gone, and the close event of its socket, which comes later to a       *)
(* listener that is still attached, does not start it again.                *)
DisposedStaysDown ==
  disposed => ~connected /\ interval = Off /\ socket \in {"none", "dropped"}

(* mosSocketClient.ts:292-296: with a limit, a server that neither accepts  *)
(* nor refuses any more is given up: the interval is gone for good.         *)
SilentServerIsGivenUp ==
  options.limit > 0 /\ options.auto /\ <>[][~(Connect \/ Connected \/ Close \/ LateClose)]_vars
    => <>[](interval = Off)

(* CHANGELOG.md:268: "0 reconnects implies infinite reconnects".  A client  *)
(* that should be connected gets there, whatever was closed, refused or     *)
(* throttled before, if the server accepts an attempt in the end.           *)
EventuallyConnected ==
  SF_vars(Connected) =>
    (shouldBeConnected /\ options.auto /\ options.limit = 0 ~> connected \/ disposed)

(* mosSocketClient.ts:290-298: without automatic reconnection a socket that  *)
(* closed so soon after its attempt that the close itself was throttled     *)
(* stays closed until connect() is called, however often the interval fires. *)
ClosedStaysClosed ==
  [][~options.auto \/ options.limit < 0
       => (socket = "closed" /\ socket' = "connecting" => Connect)]_vars
=============================================================================
