--------------------------- MODULE Heartbeats_proofs ---------------------------
(* Proofs about Heartbeats: the rounds of an NCSServerConnection do not      *)
(* overlap, and a disposed connection starts none, for any set of clients    *)
(* and whatever the listeners throw.                                         *)
EXTENDS Heartbeats, TLAPS

USE ClientsAssumption, MaxLateAssumption

(* Nothing has happened before connect().                                    *)
Fresh == ~up /\ ~disposed =>
           ~open /\ ~remembered /\ forgotten = 0 /\ \A c \in Clients : late[c] = 0

(* An open round has room for the heartbeats it may leave behind.            *)
RoomForLate == open => \A c \in Clients : late[c] < MaxLate

LateOK  == late \in [Clients -> 0 .. MaxLate]
OtherOK ==
  /\ {sound, up, disposed, emitted, open, remembered, told, stopped} \subseteq BOOLEAN
  /\ alive \in [Clients -> BOOLEAN]
  /\ waiting \subseteq Clients /\ answering \subseteq Clients

Timers == forgotten \in 0 .. 1 /\ RoundsDoNotOverlap

Inv == OtherOK /\ LateOK /\ RoomForLate /\ Fresh /\ Timers

LEMMA InvGivesTypeOK == Inv => TypeOK
BY DEF Inv, TypeOK, OtherOK, LateOK, Timers

LEMMA InitInv == Init => Inv
<1> SUFFICES ASSUME Init PROVE Inv OBVIOUS
<1>1. OtherOK BY DEF Init, OtherOK
<1>2. LateOK /\ RoomForLate /\ Fresh BY DEF Init, LateOK, RoomForLate, Fresh
<1>3. Timers BY DEF Init, Timers, RoundsDoNotOverlap
<1> QED BY <1>1, <1>2, <1>3 DEF Inv

-----------------------------------------------------------------------------
(* The end of a round, in either way: nothing of it is left but timers and   *)
(* what it owes.                                                             *)

LEMMA TriggerTimers ==
  ASSUME NEW n \in 0 .. 2, forgotten = 0, ~remembered, Trigger(n)
  PROVE  forgotten' \in 0 .. 1 /\ remembered' \in BOOLEAN
BY DEF Trigger

LEMMA AnnounceTypes ==
  ASSUME NEW throws \in BOOLEAN, Announce(throws), OtherOK
  PROVE  {emitted', told', stopped'} \subseteq BOOLEAN
<1>1. CASE Changed
  <2>1. emitted' \in BOOLEAN /\ told' \in BOOLEAN
    BY <1>1 DEF Announce, ConnectedIf
  <2>2. stopped' \in BOOLEAN BY <1>1 DEF Announce, OtherOK
  <2> QED BY <2>1, <2>2
<1>2. CASE ~Changed BY <1>2 DEF Announce, OtherOK
<1> QED BY <1>1, <1>2

LEMMA RoundOver ==
  ASSUME Inv, open, NEW rest \in SUBSET Clients,
         NEW throwsAgain \in Throws, NEW changeThrows \in Throws,
         \/ RoundEnds(changeThrows)
         \/ RoundFails(rest, throwsAgain, changeThrows)
  PROVE  /\ open' = FALSE /\ waiting' = {}
         /\ {remembered', emitted', told', stopped'} \subseteq BOOLEAN
         /\ forgotten' \in 0 .. 1
         /\ late' \in [Clients -> 0 .. MaxLate]
<1>1. forgotten = 0 /\ ~remembered BY DEF Inv, Timers, RoundsDoNotOverlap
<1>2. changeThrows \in BOOLEAN /\ throwsAgain \in BOOLEAN BY DEF Throws
<1>3. Triggers(changeThrows) \in 0 .. 1 BY DEF Triggers
<1>4. 1 + Triggers(changeThrows) \in 0 .. 2 BY <1>3
<1>5. OtherOK /\ LateOK /\ RoomForLate BY DEF Inv
<1>6. CASE RoundEnds(changeThrows)
  <2>1. forgotten' \in 0 .. 1 /\ remembered' \in BOOLEAN
    <3>1. Triggers(changeThrows) \in 0 .. 2 BY <1>3
    <3> QED BY <1>1, <1>6, <3>1, TriggerTimers DEF RoundEnds
  <2>2. {emitted', told', stopped'} \subseteq BOOLEAN
    BY <1>2, <1>5, <1>6, AnnounceTypes DEF RoundEnds
  <2> QED BY <1>5, <1>6, <2>1, <2>2 DEF RoundEnds, LateOK
<1>7. CASE RoundFails(rest, throwsAgain, changeThrows)
  <2>1. late' \in [Clients -> 0 .. MaxLate]
    <3>1. \A c \in Clients : late[c] \in 0 .. MaxLate /\ late[c] < MaxLate
      BY <1>5 DEF LateOK, RoomForLate
    <3>2. \A c \in Clients : (IF c \in rest THEN late[c] + 1 ELSE late[c]) \in 0 .. MaxLate
      <4>1. \A n \in 0 .. MaxLate : n < MaxLate => n + 1 \in 0 .. MaxLate OBVIOUS
      <4> SUFFICES ASSUME NEW c \in Clients
                   PROVE  (IF c \in rest THEN late[c] + 1 ELSE late[c]) \in 0 .. MaxLate
        OBVIOUS
      <4> QED BY <3>1, <4>1
    <3> QED BY <1>7, <3>2 DEF RoundFails
  <2>2. CASE throwsAgain
    <3>1. Trigger(1) /\ UNCHANGED <<emitted, told, stopped>>
      BY <1>7, <2>2 DEF RoundFails
    <3>2. forgotten' \in 0 .. 1 /\ remembered' \in BOOLEAN
      BY <1>1, <3>1, TriggerTimers
    <3> QED BY <1>5, <1>7, <2>1, <3>1, <3>2 DEF RoundFails, OtherOK
  <2>3. CASE ~throwsAgain
    <3>1. Announce(changeThrows) /\ Trigger(1 + Triggers(changeThrows))
      BY <1>7, <2>3 DEF RoundFails
    <3>2. forgotten' \in 0 .. 1 /\ remembered' \in BOOLEAN
      BY <1>1, <1>4, <3>1, TriggerTimers
    <3>3. {emitted', told', stopped'} \subseteq BOOLEAN
      BY <1>2, <1>5, <3>1, AnnounceTypes
    <3> QED BY <1>7, <2>1, <3>2, <3>3 DEF RoundFails
  <2> QED BY <2>2, <2>3
<1> QED BY <1>6, <1>7

LEMMA RoundBeatInv ==
  ASSUME Inv, NEW c \in Clients, RoundBeat(c)
  PROVE  Inv'
<1>0. open /\ c \in waiting /\ UNCHANGED <<sound, up, disposed, answering>>
  BY DEF RoundBeat
<1>1. PICK throws \in Throws, throwsAgain \in Throws, changeThrows \in Throws :
      \/ RoundFails(waiting \ {c}, throwsAgain, changeThrows)
      \/ RoundEnds(changeThrows)
      \/ /\ waiting' = waiting \ {c}
         /\ UNCHANGED <<open, late, remembered, forgotten, emitted, told, stopped>>
  BY DEF RoundBeat
<1>2. alive' \in [Clients -> BOOLEAN]
  <2>1. Answered(c) \in BOOLEAN BY DEF Answered, Inv, OtherOK
  <2> QED BY <2>1 DEF RoundBeat, Inv, OtherOK
<1>3. OtherOK /\ LateOK /\ RoomForLate /\ Fresh /\ Timers BY DEF Inv
<1>4. up \/ disposed BY <1>0, <1>3 DEF Fresh
<1>5. CASE waiting' = waiting \ {c}
           /\ UNCHANGED <<open, late, remembered, forgotten, emitted, told, stopped>>
  <2>1. OtherOK' BY <1>0, <1>2, <1>3, <1>5 DEF OtherOK
  <2>2. LateOK' /\ RoomForLate' /\ Timers'
    BY <1>3, <1>5 DEF LateOK, RoomForLate, Timers, RoundsDoNotOverlap
  <2>3. Fresh' BY <1>0, <1>4 DEF Fresh
  <2> QED BY <2>1, <2>2, <2>3 DEF Inv
<1>6. CASE RoundFails(waiting \ {c}, throwsAgain, changeThrows) \/ RoundEnds(changeThrows)
  <2>0. waiting \ {c} \in SUBSET Clients BY <1>3 DEF OtherOK
  <2>1. /\ open' = FALSE /\ waiting' = {}
        /\ {remembered', emitted', told', stopped'} \subseteq BOOLEAN
        /\ forgotten' \in 0 .. 1
        /\ late' \in [Clients -> 0 .. MaxLate]
    BY <1>0, <1>6, <2>0, RoundOver
  <2>2. OtherOK' BY <1>0, <1>2, <1>3, <2>1 DEF OtherOK
  <2>3. LateOK' /\ RoomForLate' /\ Timers'
    BY <2>1 DEF LateOK, RoomForLate, Timers, RoundsDoNotOverlap
  <2>4. Fresh' BY <1>0, <1>4 DEF Fresh
  <2> QED BY <2>2, <2>3, <2>4 DEF Inv
<1> QED BY <1>1, <1>5, <1>6

LEMMA LateBeatInv ==
  ASSUME Inv, NEW c \in Clients, LateBeat(c)
  PROVE  Inv'
<1>1. OtherOK /\ LateOK /\ RoomForLate /\ Fresh /\ Timers BY DEF Inv
<1>2. late[c] > 0 /\ late' = [late EXCEPT ![c] = late[c] - 1] BY DEF LateBeat
<1>3. UNCHANGED <<sound, up, disposed, emitted, open, waiting, remembered, forgotten,
                  answering, told, stopped>>
  BY DEF LateBeat
<1>4. OtherOK'
  <2>1. Answered(c) \in BOOLEAN BY <1>1 DEF Answered, OtherOK
  <2>2. alive' \in [Clients -> BOOLEAN] BY <1>1, <2>1 DEF LateBeat, OtherOK
  <2> QED BY <1>1, <1>3, <2>2 DEF OtherOK
<1>5. LateOK' BY <1>1, <1>2 DEF LateOK
<1>6. RoomForLate' BY <1>1, <1>2, <1>3 DEF RoomForLate, LateOK
<1>7. Fresh' /\ Timers'
  BY <1>1, <1>2, <1>3 DEF Fresh, Timers, RoundsDoNotOverlap
<1> QED BY <1>4, <1>5, <1>6, <1>7 DEF Inv

LEMMA FireInv ==
  ASSUME Inv, Fire
  PROVE  Inv'
<1>1. OtherOK /\ LateOK /\ RoomForLate /\ Fresh /\ Timers BY DEF Inv
<1>2. UNCHANGED <<sound, up, disposed, alive, emitted, answering, told, stopped>> BY DEF Fire
<1>3. forgotten \in 0 .. 1 BY <1>1 DEF Timers
<1>4. forgotten' = 0 BY <1>3 DEF Fire
<1>5. up \/ disposed BY <1>1 DEF Fire, Fresh
<1>6. Fresh' BY <1>2, <1>5 DEF Fresh
<1>7. CASE disposed
  <2>1. /\ remembered' = (remembered /\ forgotten > 0)
        /\ UNCHANGED <<open, waiting, late>>
    BY <1>7 DEF Fire
  <2>2. remembered' \in BOOLEAN BY <2>1, Zenon
  <2>3. OtherOK' BY <1>1, <1>2, <2>1, <2>2 DEF OtherOK
  <2>4. LateOK' /\ RoomForLate' BY <1>1, <2>1 DEF LateOK, RoomForLate
  <2>5. remembered' => remembered BY <2>1, Zenon
  <2>6. RoundsDoNotOverlap'
    BY <1>1, <1>4, <2>1, <2>5 DEF Timers, RoundsDoNotOverlap
  <2>7. Timers' BY <1>4, <2>6 DEF Timers
  <2> QED BY <1>6, <2>3, <2>4, <2>7 DEF Inv
<1>8. CASE ~disposed
  <2>1. open' = TRUE /\ waiting' = Clients /\ remembered' = FALSE /\ UNCHANGED late
    BY <1>8 DEF Fire, SendHeartBeats
  <2>2. OtherOK' BY <1>1, <1>2, <2>1 DEF OtherOK
  <2>3. LateOK' /\ RoomForLate' BY <1>1, <2>1 DEF Fire, LateOK, RoomForLate
  <2>4. Timers' BY <1>4, <2>1 DEF Timers, RoundsDoNotOverlap
  <2> QED BY <1>6, <2>2, <2>3, <2>4 DEF Inv
<1> QED BY <1>7, <1>8

LEMMA ConnectInv ==
  ASSUME Inv, Connect
  PROVE  Inv'
<1>1. OtherOK /\ LateOK /\ RoomForLate /\ Fresh /\ Timers BY DEF Inv
<1>2. /\ ~remembered /\ forgotten = 0 /\ \A c \in Clients : late[c] = 0
  BY <1>1 DEF Connect, Fresh
<1>3. /\ up' = TRUE /\ open' = TRUE /\ waiting' = Clients /\ remembered' = FALSE
      /\ UNCHANGED <<sound, late, disposed, alive, emitted, forgotten, answering, told, stopped>>
  BY DEF Connect, SendHeartBeats
<1>4. OtherOK' BY <1>1, <1>3 DEF OtherOK
<1>5. LateOK' /\ RoomForLate' /\ Fresh' /\ Timers'
  BY <1>1, <1>2, <1>3 DEF LateOK, RoomForLate, Fresh, Timers, RoundsDoNotOverlap
<1> QED BY <1>4, <1>5 DEF Inv

LEMMA DisposeInv ==
  ASSUME Inv, Dispose
  PROVE  Inv'
<1>1. OtherOK /\ LateOK /\ RoomForLate /\ Fresh /\ Timers BY DEF Inv
<1>2. /\ disposed' = TRUE /\ up' = FALSE /\ remembered' = FALSE /\ told' = FALSE
      /\ UNCHANGED <<sound, alive, emitted, open, waiting, late, forgotten, answering>>
  BY DEF Dispose
<1>3. stopped' \in BOOLEAN BY <1>1 DEF Dispose, OtherOK, Throws
<1>4. OtherOK' BY <1>1, <1>2, <1>3 DEF OtherOK
<1>5. LateOK' /\ RoomForLate' /\ Fresh' /\ Timers'
  BY <1>1, <1>2 DEF LateOK, RoomForLate, Fresh, Timers, RoundsDoNotOverlap
<1> QED BY <1>4, <1>5 DEF Inv

LEMMA NextInv == Inv /\ [Next]_vars => Inv'
<1> SUFFICES ASSUME Inv, [Next]_vars PROVE Inv' OBVIOUS
<1>1. CASE Connect BY <1>1, ConnectInv
<1>2. CASE Fire BY <1>2, FireInv
<1>3. CASE Dispose BY <1>3, DisposeInv
<1>4. CASE Peer
  <2>1. UNCHANGED <<sound, up, disposed, alive, emitted, loop, told, stopped>>
    BY <1>4 DEF Peer
  <2>2. answering' \subseteq Clients BY <1>4 DEF Peer, Inv, OtherOK
  <2>3. OtherOK' BY <2>1, <2>2 DEF Inv, OtherOK, loop
  <2>4. (LateOK /\ RoomForLate /\ Fresh /\ Timers)'
    BY <2>1 DEF Inv, LateOK, RoomForLate, Fresh, Timers, RoundsDoNotOverlap, loop
  <2> QED BY <2>3, <2>4 DEF Inv
<1>5. CASE \E c \in Clients : Settle(c)
  BY <1>5, LateBeatInv, RoundBeatInv DEF Settle
<1>6. CASE UNCHANGED vars
  BY <1>6 DEF vars, loop, Inv, OtherOK, LateOK, RoomForLate, Fresh, Timers,
              RoundsDoNotOverlap
<1> QED BY <1>1, <1>2, <1>3, <1>4, <1>5, <1>6 DEF Next

LEMMA Invariance == Spec => []Inv
<1> QED BY InitInv, NextInv, PTL DEF Spec

-----------------------------------------------------------------------------

(* Every field of a connection keeps to its range; in particular at most one *)
(* timer is ever forgotten.                                                  *)
THEOREM TypeCorrect == Spec => []TypeOK
<1> QED BY Invariance, InvGivesTypeOK, PTL

(* While a round of heartbeats is open, no timer is armed that could start   *)
(* another (_sendHeartBeats).                                                *)
THEOREM RoundsAreSeparate == Spec => []RoundsDoNotOverlap
<1>1. Inv => RoundsDoNotOverlap BY DEF Inv, Timers
<1> QED BY Invariance, <1>1, PTL

(* A disposed connection starts no round, whatever timers are still armed.   *)
THEOREM DisposedIsQuiet == Spec => NoRoundAfterDispose
<1>1. ASSUME [Next]_vars PROVE [disposed /\ ~open => ~open']_vars
  <2> SUFFICES ASSUME Next, disposed, ~open PROVE ~open'
    BY <1>1
  <2>1. CASE Connect BY <2>1 DEF Connect
  <2>2. CASE Fire BY <2>2 DEF Fire
  <2>3. CASE Dispose BY <2>3 DEF Dispose
  <2>4. CASE Peer BY <2>4 DEF Peer, loop
  <2>5. CASE \E c \in Clients : Settle(c)
    BY <2>5 DEF Settle, LateBeat, RoundBeat
  <2> QED BY <2>1, <2>2, <2>3, <2>4, <2>5 DEF Next
<1> QED BY <1>1, PTL DEF Spec, NoRoundAfterDispose
=============================================================================
