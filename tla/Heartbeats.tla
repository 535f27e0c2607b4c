------------------------------ MODULE Heartbeats ------------------------------
(***************************************************************************)
(* How an NCSServerConnection (connection/NCSServerConnection.ts) finds out *)
(* whether its server is there: rounds of heartbeats, one to each client    *)
(* with useHeartbeats, the timer between two rounds, the connectionChanged  *)
(* event and dispose().                                                     *)
(*                                                                         *)
(* A heartbeat is settled once the client has its reply or gives it up;     *)
(* that this happens is what MosSocketClient shows of a client.  The promise*)
(* reactions of a settled heartbeat run before the next callback of the     *)
(* event loop, so they are one step with it.                                *)
(***************************************************************************)
EXTENDS Integers

CONSTANTS
    Clients,        \* the keys of _clients that use heartbeats
    MaxLate         \* bounds the heartbeats a client owes to rounds that failed

ASSUME ClientsAssumption == Clients # {}
ASSUME MaxLateAssumption == MaxLate \in Nat \ {0}

VARIABLES
    sound,        \* somebody listens to errors, and no listener ever throws
    up,           \* _connected: connect() was called
    disposed,     \* _disposed
    alive,        \* heartbeatConnected of each client
    emitted,      \* _emittedConnected
    open,         \* a round is not over yet
    waiting,      \* the clients whose heartbeat of that round is not settled
    late,         \* heartbeats of each client whose round is over without them
    remembered,   \* the timer in _heartBeatsTimer is armed
    forgotten,    \* armed timers that _heartBeatsTimer does not hold any more
    answering,    \* the clients whose server replies at present
    told,         \* ghost: connected when connectionChanged was last emitted
    stopped       \* ghost: a listener of connectionChanged has thrown

loop == <<open, waiting, late, remembered, forgotten>>
vars == <<sound, up, disposed, alive, emitted, loop, answering, told, stopped>>

Init ==
  /\ sound \in BOOLEAN
  /\ up = FALSE /\ disposed = FALSE /\ emitted = FALSE
  /\ alive = [c \in Clients |-> FALSE]
  /\ open = FALSE /\ waiting = {}
  /\ late = [c \in Clients |-> 0]
  /\ remembered = FALSE /\ forgotten = 0
  /\ answering \in SUBSET Clients
  /\ told = FALSE /\ stopped = FALSE

(* Whether an emit throws: that of an error does if nobody listens to it.   *)
Throws == IF sound THEN {FALSE} ELSE BOOLEAN

(* The getter.  The clients of a disposed connection are removed.           *)
ConnectedIf(isUp, isAlive) == isUp /\ \A c \in Clients : isAlive[c]
Connected == ConnectedIf(up, alive)

-----------------------------------------------------------------------------
(* triggerNextHeartBeat, called n times.  All timers have the same delay, so*)
(* the one that is remembered is the last to fire.                          *)
Trigger(n) ==
  /\ remembered' = (remembered \/ n > 0)
  /\ forgotten' = IF n = 0 THEN forgotten
                  ELSE forgotten + (n - 1) + (IF remembered THEN 1 ELSE 0)

(* The .then of a round: announce a change.  throws says whether a listener *)
(* does, which skips the triggerNextHeartBeat that follows.                 *)
Changed == ConnectedIf(up, alive') # emitted

Announce(throws) ==
  IF Changed
  THEN /\ emitted' = ConnectedIf(up, alive') /\ told' = emitted'
       /\ stopped' = (stopped \/ throws)
  ELSE UNCHANGED <<emitted, told, stopped>>

Triggers(throws) == IF Changed /\ throws THEN 0 ELSE 1

(* Every heartbeat of the round is settled and no reaction has thrown.      *)
RoundEnds(throws) ==
  /\ open' = FALSE /\ waiting' = {}
  /\ Announce(throws) /\ Trigger(Triggers(throws))
  /\ UNCHANGED late

(* A reaction has thrown: the .catch of the round schedules the next one    *)
(* and emits an error; unless that throws again, the .then runs as well and *)
(* schedules another.  Nobody waits for the other heartbeats any more.      *)
RoundFailsMutant(rest, errorThrows, throws) ==
  /\ open' = FALSE /\ waiting' = {}
  /\ late' = [c \in Clients |-> IF c \in rest THEN late[c] + 1 ELSE late[c]]
  /\ IF errorThrows THEN Trigger(0) /\ UNCHANGED <<emitted, told, stopped>>
     ELSE Announce(throws) /\ Trigger(Triggers(throws))

RoundFails(rest, errorThrows, throws) ==
  /\ open' = FALSE /\ waiting' = {}
  /\ late' = [c \in Clients |-> IF c \in rest THEN late[c] + 1 ELSE late[c]]
  /\ IF errorThrows THEN Trigger(1) /\ UNCHANGED <<emitted, told, stopped>>
     ELSE Announce(throws) /\ Trigger(1 + Triggers(throws))

(* _sendHeartBeats of a connection that is not disposed.                    *)
SendHeartBeatsMutant ==
  /\ open' = TRUE /\ waiting' = Clients
  /\ UNCHANGED <<late, remembered>>

SendHeartBeats ==
  /\ open' = TRUE /\ waiting' = Clients
  /\ remembered' = FALSE
  /\ UNCHANGED late

-----------------------------------------------------------------------------
(* MosConnection calls connect() once, when it registers the device.        *)
Connect ==
  /\ ~up /\ ~disposed
  /\ up' = TRUE
  /\ SendHeartBeats
  /\ UNCHANGED <<sound, disposed, alive, emitted, forgotten, answering, told, stopped>>

(* What the reactions of a heartbeat leave in heartbeatConnected.  After    *)
(* dispose() they throw, as they look their client up in _clients: .then    *)
(* sets the flag, throws, and .catch takes it back and throws again.        *)
Answered(c) == c \in answering /\ ~disposed

(* A heartbeat is settled.  A client settles its heartbeats in order, so    *)
(* those of earlier rounds come first.                                      *)
LateBeat(c) ==
  /\ late[c] > 0
  /\ alive' = [alive EXCEPT ![c] = Answered(c)]
  /\ late' = [late EXCEPT ![c] = @ - 1]
  /\ UNCHANGED <<up, disposed, emitted, open, waiting, remembered, forgotten>>
  /\ UNCHANGED <<sound, answering, told, stopped>>

RoundBeatMutant(c) ==
  /\ open /\ c \in waiting /\ late[c] = 0
  /\ UNCHANGED <<sound, up, disposed, answering>>
  /\ alive' = IF Answered(c) THEN [alive EXCEPT ![c] = TRUE] ELSE alive
  /\ \E throws, throwsAgain, changeThrows \in Throws :
       LET rest   == waiting \ {c}
           failed == disposed \/ (throws /\ ~Answered(c))
       IN  \/ failed /\ RoundFails(rest, throwsAgain, changeThrows)
           \/ ~failed /\ rest = {} /\ RoundEnds(changeThrows)
           \/ /\ ~failed /\ rest # {} /\ waiting' = rest
              /\ UNCHANGED <<open, late, remembered, forgotten, emitted, told, stopped>>

RoundBeat(c) ==
  /\ open /\ c \in waiting /\ late[c] = 0
  /\ UNCHANGED <<sound, up, disposed, answering>>
  /\ alive' = [alive EXCEPT ![c] = Answered(c)]
  /\ \E throws, throwsAgain, changeThrows \in Throws :
       LET rest   == waiting \ {c}
           failed == disposed \/ (throws /\ ~Answered(c))
       IN  \/ failed /\ RoundFails(rest, throwsAgain, changeThrows)
           \/ ~failed /\ rest = {} /\ RoundEnds(changeThrows)
           \/ /\ ~failed /\ rest # {} /\ waiting' = rest
              /\ UNCHANGED <<open, late, remembered, forgotten, emitted, told, stopped>>

(* The timer between two rounds.                                            *)
FireUncheckedMutant ==
  /\ remembered \/ forgotten > 0
  /\ \A c \in Clients : late[c] < MaxLate
  /\ forgotten' = IF forgotten > 0 THEN forgotten - 1 ELSE 0
  /\ SendHeartBeats
  /\ UNCHANGED <<sound, up, disposed, alive, emitted, answering, told, stopped>>

Fire ==
  /\ remembered \/ forgotten > 0
  /\ \A c \in Clients : late[c] < MaxLate
  /\ forgotten' = IF forgotten > 0 THEN forgotten - 1 ELSE 0
  /\ IF disposed THEN /\ remembered' = (remembered /\ forgotten > 0)
                      /\ UNCHANGED <<open, waiting, late>>
     ELSE SendHeartBeats
  /\ UNCHANGED <<sound, up, disposed, alive, emitted, answering, told, stopped>>

Dispose ==
  /\ up /\ ~disposed
  /\ disposed' = TRUE /\ up' = FALSE
  /\ remembered' = FALSE
  /\ told' = FALSE
  /\ stopped' \in {stopped} \cup {stopped \/ throws : throws \in Throws}
  /\ UNCHANGED <<sound, alive, emitted, open, waiting, late, forgotten, answering>>

(* The server of a client comes or goes.                                    *)
Peer ==
  /\ \E c \in Clients : answering' = IF c \in answering THEN answering \ {c}
                                     ELSE answering \cup {c}
  /\ UNCHANGED <<sound, up, disposed, alive, emitted, loop, told, stopped>>

Settle(c) == LateBeat(c) \/ RoundBeat(c)

Next == Connect \/ Fire \/ Dispose \/ Peer \/ \E c \in Clients : Settle(c)

(* Every heartbeat is settled in the end, and timers fire.                  *)
Fairness == WF_vars(Fire) /\ \A c \in Clients : WF_vars(Settle(c))

Spec == Init /\ [][Next]_vars
FairSpec == Spec /\ Fairness

-----------------------------------------------------------------------------

TypeOK ==
  /\ {sound, up, disposed, emitted, open, remembered, told, stopped} \subseteq BOOLEAN
  /\ alive \in [Clients -> BOOLEAN]
  /\ waiting \subseteq Clients /\ answering \subseteq Clients
  /\ late \in [Clients -> 0 .. MaxLate]
  /\ forgotten \in 0 .. 1

(* Rounds do not overlap: while one is open no timer is armed that could    *)
(* start another, although a failed round arms two timers and remembers one *)
(* (_sendHeartBeats, _heartBeatsTimer).                                     *)
RoundsDoNotOverlap == open => ~remembered /\ forgotten = 0

(* A disposed connection starts no round, although dispose() clears only    *)
(* the timer it remembers.                                                  *)
NoRoundAfterDispose == [][disposed /\ ~open => ~open']_vars

(* A server that replies for good to all clients is announced as connected, *)
(* and one that does not reply any more to some client as disconnected      *)
(* (onConnectionChange).  If listeners throw neither need be: the .catch of *)
(* the round then emits in vain and nothing is compared.                    *)
ChangesAreAnnounced ==
  sound => /\ <>[](up /\ answering = Clients) => <>[]told
           /\ (\E c \in Clients : <>[](up /\ c \notin answering)) => <>[]~told

(* The heartbeats go on until dispose(), unless a listener of               *)
(* connectionChanged throws: a round ends, and the next one begins.         *)
HeartbeatsGoOn == []<>(disposed \/ stopped \/ ~up \/ open)
               /\ []<>(disposed \/ stopped \/ ~up \/ ~open)
=============================================================================
