----------------------- MODULE SocketReconnect_proofs -----------------------
(***************************************************************************)
(* Proofs about SocketReconnect, for every delay, lateness and set of options*)
(*                                                                         *)
(* RetriesInTime bounds the time since the last attempt by the interval: at *)
(* the moment the interval is armed or fires the last attempt is less than  *)
(* Delay ago (it was throttled, or it is made now), and from then on both   *)
(* times grow together until the interval fires again.                      *)
(***************************************************************************)
EXTENDS SocketReconnect, TLAPS

(* While the client is down, the interval is armed and its time runs less   *)
(* than Delay behind the time since the last attempt.                       *)
IntervalFollows ==
  Down /\ options.auto /\ options.limit = 0 => interval # Off /\ since < Delay + interval

(* A socket that could bring the client up again belongs to a client that   *)
(* should be up; a disposed client has none, and no interval.               *)
DisposedIsOff ==
  disposed => /\ ~connected /\ ~shouldBeConnected /\ interval = Off
              /\ socket \in {"none", "dropped"}
DroppedIsDisposed == socket = "dropped" => disposed

IInv == TypeOK /\ IntervalFollows /\ DisposedIsOff /\ DroppedIsDisposed

USE DelayAssumption, LateAssumption

LEMMA InitIInv == Init => IInv
<1> SUFFICES ASSUME Init PROVE IInv
  OBVIOUS
<1> USE DEF Init
<1>1. Flags /\ Socket
  BY DEF Flags, Socket
<1>2. Clocks
  BY DEF Clocks, Horizon, Off
<1>3. Counter
  <2>1. options.limit \in Int
    BY OptionsAssumption
  <2> QED
    BY <2>1 DEF Counter
<1>4. IntervalFollows /\ DisposedIsOff /\ DroppedIsDisposed
  BY DEF IntervalFollows, Down, DisposedIsOff, DroppedIsDisposed
<1> QED
  BY <1>1, <1>2, <1>3, <1>4 DEF IInv, TypeOK

LEMMA NextIInv == IInv /\ [Next]_vars => IInv'
<1> SUFFICES ASSUME Flags, Clocks, Counter, Socket, IntervalFollows, DisposedIsOff,
                    DroppedIsDisposed, [Next]_vars
             PROVE  (Flags /\ Clocks /\ Counter /\ Socket /\ IntervalFollows
                       /\ DisposedIsOff /\ DroppedIsDisposed)'
  BY DEF IInv, TypeOK
<1> options.limit \in Int
  BY OptionsAssumption DEF Flags
<1>1. CASE Connect
  <2> USE <1>1 DEF Connect, Attempt, Arm, Throttled
  <2>1. (Flags /\ Socket)'
    BY DEF Flags, Socket
  <2>2. Clocks'
    BY DEF Clocks, Horizon, Off
  <2>3. Counter'
    BY DEF Counter, Clocks
  <2>4. IntervalFollows'
    <3>1. CASE Throttled
      BY <3>1 DEF IntervalFollows, Down, Clocks, Off, Horizon
    <3>2. CASE ~Throttled
      BY <3>2 DEF IntervalFollows, Down, Clocks, Off
    <3> QED
      BY <3>1, <3>2
  <2>5. (DisposedIsOff /\ DroppedIsDisposed)'
    BY DEF DisposedIsOff, DroppedIsDisposed, Flags, Off
  <2> QED
    BY <2>1, <2>2, <2>3, <2>4, <2>5
<1>2. CASE GiveUp
  <2> USE <1>2 DEF GiveUp, ClearTimer
  <2>1. (Flags /\ Socket)'
    BY DEF Flags, Socket
  <2>2. Clocks'
    BY DEF Clocks, Horizon, Off
  <2>3. Counter'
    BY DEF Counter, Clocks
  <2>4. IntervalFollows'
    BY DEF IntervalFollows, Down, Clocks, Off, Horizon, DisposedIsOff
  <2>5. (DisposedIsOff /\ DroppedIsDisposed)'
    BY DEF DisposedIsOff, DroppedIsDisposed, Flags, Off
  <2> QED
    BY <2>1, <2>2, <2>3, <2>4, <2>5
<1>3. CASE Retry
  <2> USE <1>3 DEF Retry, Attempt, Throttled
  <2>1. (Flags /\ Socket)'
    BY DEF Flags, Socket
  <2>2. Clocks'
    BY DEF Clocks, Horizon, Off
  <2>3. Counter'
    BY DEF Counter, Clocks
  <2>4. IntervalFollows'
    <3>1. CASE Throttled
      BY <3>1 DEF IntervalFollows, Down, Clocks, Off, Horizon
    <3>2. CASE ~Throttled
      BY <3>2 DEF IntervalFollows, Down, Clocks, Off
    <3> QED
      BY <3>1, <3>2
  <2>5. (DisposedIsOff /\ DroppedIsDisposed)'
    BY DEF DisposedIsOff, DroppedIsDisposed, Flags, Off
  <2> QED
    BY <2>1, <2>2, <2>3, <2>4, <2>5
<1>4. CASE IdleInterval
  <2> USE <1>4 DEF IdleInterval
  <2>1. (Flags /\ Socket)'
    BY DEF Flags, Socket
  <2>2. Clocks'
    BY DEF Clocks, Horizon, Off
  <2>3. Counter'
    BY DEF Counter, Clocks
  <2>4. IntervalFollows'
    BY DEF IntervalFollows, Down, Clocks, Off, Horizon, DisposedIsOff
  <2>5. (DisposedIsOff /\ DroppedIsDisposed)'
    BY DEF DisposedIsOff, DroppedIsDisposed, Flags, Off
  <2> QED
    BY <2>1, <2>2, <2>3, <2>4, <2>5
<1>5. CASE Connected
  <2> USE <1>5 DEF Connected, ClearTimer
  <2>1. (Flags /\ Socket)'
    BY DEF Flags, Socket
  <2>2. Clocks'
    BY DEF Clocks, Horizon, Off
  <2>3. Counter'
    BY DEF Counter, Clocks
  <2>4. IntervalFollows'
    BY DEF IntervalFollows, Down, Clocks, Off, Horizon, DisposedIsOff
  <2>5. (DisposedIsOff /\ DroppedIsDisposed)'
    BY DEF DisposedIsOff, DroppedIsDisposed, Flags, Off
  <2> QED
    BY <2>1, <2>2, <2>3, <2>4, <2>5
<1>6. CASE Close
  <2> USE <1>6 DEF Close, Attempt, Arm, Throttled
  <2>1. (Flags /\ Socket)'
    BY DEF Flags, Socket
  <2>2. Clocks'
    BY DEF Clocks, Horizon, Off
  <2>3. Counter'
    BY DEF Counter, Clocks
  <2>4. IntervalFollows'
    <3>1. CASE ~shouldBeConnected
      BY <3>1 DEF IntervalFollows, Down
    <3>2. CASE shouldBeConnected
      <4>1. interval' # Off /\ interval' >= 0
        BY <3>2 DEF Clocks, Off
      <4>2. since' = IF Throttled THEN since ELSE 0
        BY <3>2
      <4>3. since' < Delay
        BY <4>2 DEF Clocks
      <4>4. since' < Delay + interval'
        <5>1. interval' \in Int /\ since' \in Int
          BY <2>2 DEF Clocks, Off
        <5>2. \A s, i \in Int : s < Delay /\ i >= 0 => s < Delay + i
          OBVIOUS
        <5> QED
          BY <4>1, <4>3, <5>1, <5>2
      <4> QED
        BY <4>1, <4>4 DEF IntervalFollows
    <3> QED
      BY <3>1, <3>2 DEF Flags
  <2>5. (DisposedIsOff /\ DroppedIsDisposed)'
    BY DEF DisposedIsOff, DroppedIsDisposed, Flags, Off
  <2> QED
    BY <2>1, <2>2, <2>3, <2>4, <2>5
<1>7. CASE LateClose
  <2> USE <1>7 DEF LateClose, Attempt, Arm, Throttled
  <2>1. (Flags /\ Socket)'
    BY DEF Flags, Socket
  <2>2. Clocks'
    BY DEF Clocks, Horizon, Off
  <2>3. Counter'
    BY DEF Counter, Clocks
  <2>4. IntervalFollows'
    BY DEF IntervalFollows, Down, DroppedIsDisposed, DisposedIsOff
  <2>5. (DisposedIsOff /\ DroppedIsDisposed)'
    BY DEF DisposedIsOff, DroppedIsDisposed, Flags, Off
  <2> QED
    BY <2>1, <2>2, <2>3, <2>4, <2>5
<1>8. CASE Dispose
  <2> USE <1>8 DEF Dispose, ClearTimer, Dropped
  <2>1. (Flags /\ Socket)'
    BY DEF Flags, Socket
  <2>2. Clocks'
    BY DEF Clocks, Horizon, Off
  <2>3. Counter'
    BY DEF Counter, Clocks
  <2>4. IntervalFollows'
    BY DEF IntervalFollows, Down, Clocks, Off, Horizon, DisposedIsOff
  <2>5. socket' \in {"none", "dropped"}
    BY DEF Socket
  <2>6. (DisposedIsOff /\ DroppedIsDisposed)'
    BY <2>5 DEF DisposedIsOff, DroppedIsDisposed
  <2> QED
    BY <2>1, <2>2, <2>3, <2>4, <2>6
<1>9. CASE TimePasses
  <2> USE <1>9 DEF TimePasses
  <2>1. (Flags /\ Socket)'
    BY DEF Flags, Socket
  <2>2. Clocks'
    BY DEF Clocks, Horizon, Off
  <2>3. Counter'
    BY DEF Counter, Clocks
  <2>4. IntervalFollows'
    BY DEF IntervalFollows, Down, Clocks, Off, Horizon, DisposedIsOff
  <2>5. (DisposedIsOff /\ DroppedIsDisposed)'
    BY DEF DisposedIsOff, DroppedIsDisposed, Flags, Off
  <2> QED
    BY <2>1, <2>2, <2>3, <2>4, <2>5
<1>10. CASE UNCHANGED vars
  <2> USE <1>10 DEF vars
  <2>1. (Flags /\ Socket)'
    BY DEF Flags, Socket
  <2>2. Clocks'
    BY DEF Clocks, Horizon, Off
  <2>3. Counter'
    BY DEF Counter, Clocks
  <2>4. IntervalFollows'
    BY DEF IntervalFollows, Down, Clocks, Off, Horizon, DisposedIsOff
  <2>5. (DisposedIsOff /\ DroppedIsDisposed)'
    BY DEF DisposedIsOff, DroppedIsDisposed, Flags, Off
  <2> QED
    BY <2>1, <2>2, <2>3, <2>4, <2>5
<1> QED
  BY <1>1, <1>2, <1>3, <1>4, <1>5, <1>6, <1>7, <1>8, <1>9, <1>10 DEF Next, Fire

LEMMA AlwaysIInv == Spec => []IInv
BY InitIInv, NextIInv, PTL DEF Spec

(* Every field keeps to its range; the attempts that are counted never      *)
(* exceed the limit.                                                        *)
THEOREM TypeCorrect == Spec => []TypeOK
<1>1. IInv => TypeOK
  BY DEF IInv
<1> QED
  BY <1>1, AlwaysIInv, PTL

(* mosSocketClient.ts:454-458, 107-112: a client that is down tries again   *)
(* within 2 * Delay + Late.                                                 *)
THEOREM RetriesAreInTime == Spec => []RetriesInTime
<1>1. IInv => RetriesInTime
  BY DEF IInv, TypeOK, Clocks, IntervalFollows, RetriesInTime, Down, Off, Horizon
<1> QED
  BY <1>1, AlwaysIInv, PTL

(* mosSocketClient.ts:204-217: a disposed client stays down.                *)
THEOREM DisposedIsDown == Spec => []DisposedStaysDown
<1>1. IInv => DisposedStaysDown
  BY DEF IInv, DisposedIsOff, DisposedStaysDown
<1> QED
  BY <1>1, AlwaysIInv, PTL

(* mosSocketClient.ts:290-298: without automatic reconnection a closed      *)
(* socket is opened by connect() only.                                      *)
THEOREM ClosedIsClosed == Spec => ClosedStaysClosed
<1>1. IInv /\ [Next]_vars
        => [~options.auto \/ options.limit < 0
              => (socket = "closed" /\ socket' = "connecting" => Connect)]_vars
  <2> SUFFICES ASSUME IInv, Next, ~options.auto \/ options.limit < 0,
                      socket = "closed", socket' = "connecting"
               PROVE  Connect
    BY DEF vars
  <2>1. ~Retry
    <3>1. options.limit \in Int /\ options.auto \in BOOLEAN
      BY OptionsAssumption DEF IInv, TypeOK, Flags
    <3>2. ~(options.auto /\ options.limit >= 0)
      BY <3>1
    <3> QED
      BY <3>2 DEF Retry
  <2>2. ~GiveUp /\ ~IdleInterval /\ ~TimePasses
    BY DEF GiveUp, IdleInterval, TimePasses
  <2>3. ~Connected /\ ~Close /\ ~LateClose
    BY DEF Connected, Close, LateClose
  <2>4. ~Dispose
    BY DEF Dispose, Dropped
  <2> QED
    BY <2>1, <2>2, <2>3, <2>4 DEF Next, Fire
<1> QED
  BY <1>1, AlwaysIInv, PTL DEF Spec, ClosedStaysClosed
=============================================================================
