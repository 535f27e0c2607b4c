------------------------ MODULE MosSocketClient_proofs ------------------------
(***************************************************************************)
(* Proofs about MosSocketClient, for every number of commands, every choice *)
(* of heartbeats and of commands that cannot be serialised: its invariants, *)
(* what its steps may never do, and that it implements CommandLifecycle.    *)
(*                                                                         *)
(* The steps are calls of the methods that SocketClient_proofs is about.    *)
(***************************************************************************)
EXTENDS MosSocketClient, SocketClient_proofs

(* A handler of the client that ends in a sound state, and whose writes     *)
(* reach the peer or not, keeps the invariant.                              *)
LEMMA EndsInvariant ==
  ASSUME InductiveInv, NEW d, NEW n \in 0 .. MaxId, Sound(client, d, n),
         Ends(d), lastId' = n, handedOver' \in SUBSET Id
  PROVE  InductiveInv'
  <1>1. client.writes \in [Id -> Nat] /\ d.writes \in [Id -> Nat] /\ owed \in [Id -> Nat]
    BY DEF InductiveInv, Sound, Consistent, Typed, Client
  <1>2. \A i \in Id : owed[i] + (d.writes[i] - client.writes[i]) \in Nat
    BY <1>1 DEF Sound
  <1>3. owed' \in [Id -> Nat]
    BY <1>1, <1>2 DEF Ends
  <1>4. client' = d /\ Consistent(d, n)
    BY DEF Ends, Sound
  <1> QED
    BY <1>3, <1>4 DEF InductiveInv

(* The same for a reply, which uses up one copy of the command it answers.  *)
LEMMA ReceivedInvariant ==
  ASSUME InductiveInv, NEW id \in Id, NEW d, Sound(client, d, lastId), Received(id, d)
  PROVE  InductiveInv'
  <1>1. client.writes \in [Id -> Nat] /\ d.writes \in [Id -> Nat] /\ owed \in [Id -> Nat]
    BY DEF InductiveInv, Sound, Consistent, Typed, Client
  <1>2. \A i \in Id :
          owed[i] + (d.writes[i] - client.writes[i]) - (IF i = id THEN 1 ELSE 0) \in Nat
    BY <1>1 DEF Sound, Received
  <1>3. owed' \in [Id -> Nat]
    BY <1>2 DEF Received
  <1>4. client' = d /\ Consistent(d, lastId) /\ lastId' = lastId /\ handedOver' = handedOver
    BY DEF Received, Sound
  <1> QED
    BY <1>3, <1>4 DEF InductiveInv

(* Initially nothing is queued, in flight or armed.                         *)
LEMMA InitInvariant == Init => InductiveInv
  <1> SUFFICES ASSUME Init PROVE InductiveInv
    OBVIOUS
  <1> DEFINE z == [i \in Id |-> 0]
  <1>1. z \in [Id -> Nat] /\ \A i \in Id : z[i] = 0
    OBVIOUS
  <1>2. /\ <<>> \in Seq(Id) /\ Len(<<>>) = 0 /\ 0 \in Nat /\ {} \in SUBSET Id
        /\ {} \in SUBSET (Id \X BOOLEAN) /\ Null \in Id \cup {Null} /\ FALSE \in BOOLEAN
    BY EmptySeq
  <1> HIDE DEF z
  <1>3. NewClient \in Client
    BY <1>1, <1>2, Zenon DEF NewClient, Client, z
  <1>4. /\ NewClient.queue = <<>> /\ NewClient.aged = 0 /\ NewClient.sent = Null
        /\ NewClient.lingering = Null /\ NewClient.callbacks = {}
        /\ NewClient.lingeringCallbacks = {} /\ NewClient.timers = {} /\ ~NewClient.threw
        /\ NewClient.calls = z /\ NewClient.writes = z
    BY DEF NewClient, z
  <1>5. Consistent(NewClient, 0)
    <2>1. Typed(NewClient) /\ QueueOrdered(NewClient, 0)
      BY <1>1, <1>2, <1>3, <1>4 DEF Typed, QueueOrdered
    <2>2. CallbacksKept(NewClient, 0)
      BY <1>1, <1>4 DEF CallbacksKept
    <2>3. AttemptsCounted(NewClient)
      BY <1>1, <1>4 DEF AttemptsCounted
    <2> QED
      BY <1>4, <2>1, <2>2, <2>3 DEF Consistent
  <1>6. 0 \in 0 .. MaxId
    BY MaxIdAssumption
  <1> QED
    BY <1>1, <1>5, <1>6 DEF Init, InductiveInv, z

(* Every step keeps the invariant: one case per action.                     *)
LEMMA NextInvariant == InductiveInv /\ [Next]_vars => InductiveInv'
  <1> SUFFICES ASSUME InductiveInv, [Next]_vars PROVE InductiveInv'
    OBVIOUS
  <1>1. /\ Consistent(client, lastId) /\ lastId \in 0 .. MaxId /\ lastId \in Nat
        /\ owed \in [Id -> Nat] /\ handedOver \in SUBSET Id
        /\ client \in Client /\ Typed(client) /\ client.callbacks \in SUBSET Id
    BY MaxIdAssumption DEF InductiveInv, Consistent, Typed, Client
  <1>2. CASE Queue
    <2> DEFINE d == QueueCommand(client, lastId')
               e == [d EXCEPT !.threw = FALSE]
    <2>1. lastId' = lastId + 1 /\ lastId' \in Id /\ lastId' \in 0 .. MaxId /\ lastId' \in Nat
      BY <1>1, <1>2, MaxIdAssumption DEF Queue, Id
    <2>2. Sound(client, d, lastId')
      BY <1>1, <1>2, <2>1, QueueCommandSound DEF Queue, Running
    <2>3. Consistent(d, lastId')
      BY <2>2 DEF Sound
    <2>4. Ends(e) /\ handedOver' = handedOver
      BY <1>2 DEF Queue
    <2> HIDE DEF d
    <2>5. Sound(d, e, lastId')
      BY <2>1, <2>3, FlagsSound
    <2> HIDE DEF e
    <2>6. Sound(client, e, lastId')
      BY <1>1, <2>2, <2>5, SoundTransitive
    <2> QED
      BY <1>1, <2>1, <2>4, <2>6, EndsInvariant
  <1>3. CASE HandOver
    <2>1. Sound(client, HandOverQueue(client), lastId)
      BY <1>1, <1>3, HandOverQueueSound DEF HandOver, Running
    <2> QED
      BY <1>1, <1>3, <2>1, EndsInvariant DEF HandOver
  <1>4. CASE DisposeClient
    <2>1. Sound(client, [client EXCEPT !.disposed = TRUE, !.connected = FALSE], lastId)
      BY <1>1, FlagsSound
    <2> QED
      BY <1>1, <1>4, <2>1 DEF DisposeClient, Dispose, InductiveInv, Sound
  <1>5. ASSUME NEW id \in Id, NEW isRetry \in BOOLEAN, CommandTimer(id, isRetry)
        PROVE  InductiveInv'
    <2>1. Sound(client, CommandTimeout(client, id, isRetry), lastId)
      BY <1>1, <1>5, CommandTimeoutSound DEF CommandTimer, Running
    <2> QED
      BY <1>1, <1>5, <2>1, EndsInvariant DEF CommandTimer
  <1>6. CASE PollTimer
    <2>1. Sound(client, PollTimeout(client), lastId)
      BY <1>1, <1>6, PollTimeoutSound DEF PollTimer, Running
    <2> QED
      BY <1>1, <1>6, <2>1, EndsInvariant DEF PollTimer
  <1>7. CASE CleanupTimer
    <2>1. Sound(client, QueueCleanup(client), lastId)
      BY <1>1, <1>7, QueueCleanupSound DEF CleanupTimer, Running
    <2> QED
      BY <1>1, <1>7, <2>1, EndsInvariant DEF CleanupTimer
  <1>8. CASE Age
    <2>1. Sound(client, [client EXCEPT !.aged = @ + 1], lastId)
      <3>1. client.aged < Len(client.queue)
        BY <1>8 DEF Age
      <3> QED
        BY <1>1, <3>1, FlagsSound
    <2> QED
      BY <1>1, <1>8, <2>1 DEF Age, InductiveInv, Sound
  <1>9. CASE Connected
    <2>1. Sound(client, [client EXCEPT !.connected = TRUE], lastId)
      BY <1>1, FlagsSound
    <2> QED
      BY <1>1, <1>9, <2>1 DEF Connected, InductiveInv, Sound
  <1>10. CASE Closed
    <2>1. Sound(client, [client EXCEPT !.connected = FALSE], lastId)
      BY <1>1, FlagsSound
    <2> QED
      BY <1>1, <1>10, <2>1 DEF Closed, InductiveInv, Sound
  <1>11. ASSUME NEW id \in Id, Reply(id)
         PROVE  InductiveInv'
    <2>1. Sound(client, ReplyReceived(client, id), lastId)
      BY <1>1, <1>11, ReplySound DEF Reply, Received, Running
    <2> QED
      BY <1>11, <2>1, ReceivedInvariant DEF Reply
  <1>12. ASSUME NEW id \in Id, HeartBeatReply(id)
         PROVE  InductiveInv'
    <2>1. Sound(client, HeartBeatReceived(client), lastId)
      BY <1>1, <1>12, ReplySound DEF HeartBeatReply, Received, Running
    <2> QED
      BY <1>12, <2>1, ReceivedInvariant DEF HeartBeatReply
  <1>13. ASSUME NEW id \in Id, BuddyNack(id)
         PROVE  InductiveInv'
    <2>1. Sound(client, BuddyNackReceived(client), lastId)
      BY <1>1, <1>13, ReplySound DEF BuddyNack, Received, Running
    <2> QED
      BY <1>13, <2>1, ReceivedInvariant DEF BuddyNack
  <1>14. ASSUME NEW id \in Id, OtherReply(id)
         PROVE  InductiveInv'
    <2>1. Sound(client, ProcessQueue(client), lastId)
      BY <1>1, <1>14, ProcessQueueSound DEF OtherReply, Received, Running
    <2> QED
      BY <1>14, <2>1, ReceivedInvariant DEF OtherReply
  <1>15. CASE UNCHANGED vars
    BY <1>15 DEF vars, InductiveInv
  <1> QED
    BY <1>2, <1>3, <1>4, <1>5, <1>6, <1>7, <1>8, <1>9, <1>10, <1>11, <1>12, <1>13, <1>14, <1>15
    DEF Next, Timers, Peer

(* Queue, callbacks, timers and counters of a client agree in every         *)
(* reachable state, however many commands there are.                        *)
THEOREM ClientStaysConsistent == Spec => []InductiveInv
  BY InitInvariant, NextInvariant, PTL DEF Spec

(* Every field of the client keeps its type.                                *)
THEOREM TypeCorrect == Spec => []TypeOK
  <1>1. InductiveInv => TypeOK
    BY DEF InductiveInv, TypeOK, Consistent, Typed
  <1> QED
    BY <1>1, ClientStaysConsistent, PTL

(* No callback is ever called twice, nor kept after it was called.          *)
THEOREM SettledAtMostOnce == Spec => []AtMostOnce
  <1>1. InductiveInv => AtMostOnce
    BY DEF InductiveInv, AtMostOnce, Consistent, CallbacksKept
  <1> QED
    BY <1>1, ClientStaysConsistent, PTL

(* processQueue always finds the callback of what it drops, executeCommand  *)
(* never finds a command in flight.                                         *)
THEOREM NeverThrows == Spec => []NeverThrowsUnlessUnserialisable
  <1>1. InductiveInv => NeverThrowsUnlessUnserialisable
    BY DEF InductiveInv, NeverThrowsUnlessUnserialisable, Consistent, QueueOrdered, Queued
  <1> QED
    BY <1>1, ClientStaysConsistent, PTL

(* Commands are written in the order in which they were queued, each at     *)
(* most twice.                                                              *)
THEOREM WrittenInOrder == Spec => []FirstInFirstOut
  <1>1. InductiveInv => FirstInFirstOut
    <2> SUFFICES ASSUME InductiveInv PROVE FirstInFirstOut
      OBVIOUS
    <2>1. QueueOrdered(client, lastId) /\ AttemptsCounted(client)
      BY DEF InductiveInv, Consistent
    <2>2. \A id \in Id : client.writes[id] <= 2
      BY <2>1, Zenon DEF AttemptsCounted
    <2> QED
      BY <2>1, <2>2 DEF QueueOrdered, FirstInFirstOut
  <1> QED
    BY <1>1, ClientStaysConsistent, PTL

(* At most one message, in flight or lingering, waits for a reply.          *)
THEOREM AwaitsOneReply == Spec => []OneAwaited
  <1>1. InductiveInv => OneAwaited
    BY DEF InductiveInv, OneAwaited, Consistent, CallbacksKept
  <1> QED
    BY <1>1, ClientStaysConsistent, PTL

-----------------------------------------------------------------------------
(* What the steps of the client may never do: speak after it was disposed, *)
(* settle a command with the reply to another one, or leave the command in *)
(* flight without a timer.                                                 *)

(* What the invariant adds to InductiveInv.                                  *)
TimersInv ==
  /\ client.disposed => ~client.connected
  /\ ~client.disposed => TimerArmedFor(client)
  /\ ~client.threw => client.timedOut = {}

(* Initially nothing is in flight.                                           *)
LEMMA InitTimers == Init => TimersInv
  <1> SUFFICES ASSUME Init PROVE TimersInv
    OBVIOUS
  <1>1. client.sent = Null /\ client.timedOut = {} /\ ~client.disposed
    BY DEF Init, NewClient
  <1> QED
    BY <1>1 DEF TimersInv, TimerArmedFor

(* A steady handler keeps the invariant.                                     *)
LEMMA SteadyTimers ==
  ASSUME TimersInv, Running, Steady(client, client')
  PROVE  TimersInv'
  <1>1. client'.disposed => ~client'.connected
    BY DEF TimersInv, Steady, SameFlags
  <1>2. ~client'.disposed => TimerArmedFor(client')
    BY DEF TimersInv, Steady, SameFlags
  <1>3. ~client'.threw => client'.timedOut = {}
    BY DEF TimersInv, Running, Steady
  <1>4. TimerArmedFor(client)' <=> TimerArmedFor(client')
    BY DEF TimerArmedFor
  <1> QED
    BY <1>1, <1>2, <1>3, <1>4 DEF TimersInv

(* Which steps are steady: all but those of the socket and dispose.          *)
LEMMA StepsAreSteady ==
  ASSUME InductiveInv, TimersInv, Next
  PROVE  \/ Steady(client, client')
         \/ DisposeClient \/ Connected \/ Closed
  <1>1. /\ Typed(client) /\ client \in Client /\ lastId \in 0 .. MaxId
    BY DEF InductiveInv, Consistent, Typed
  <1>2. client.connected => ~client.disposed
    BY DEF TimersInv
  <1>3. CASE Queue
    <2>1. lastId' \in Id
      BY <1>1, <1>3, MaxIdAssumption DEF Queue, Id
    <2>2. client' = [QueueCommand(client, lastId') EXCEPT !.threw = FALSE]
      BY <1>3 DEF Queue, Ends
    <2> QED
      BY <1>1, <2>1, <2>2, QueueSteady
  <1>4. CASE HandOver
    BY <1>1, <1>4, HandOverSteady DEF HandOver, Ends
  <1>5. ASSUME NEW id \in Id, NEW isRetry \in BOOLEAN, CommandTimer(id, isRetry)
        PROVE  Steady(client, client')
    BY <1>1, <1>5, CommandTimeoutSteady DEF CommandTimer, Ends
  <1>6. CASE PollTimer
    BY <1>1, <1>6, PollSteady DEF PollTimer, Ends
  <1>7. CASE CleanupTimer
    BY <1>1, <1>7, CleanupSteady DEF CleanupTimer, Ends
  <1>8. CASE Age
    <2> DEFINE a == client.aged + 1
               d == [client EXCEPT !.aged = a]
    <2>1. client' = d
      BY <1>8 DEF Age
    <2> HIDE DEF a
    <2>2. /\ d.sent = client.sent /\ d.timers = client.timers
          /\ d.timedOut = client.timedOut /\ d.calls = client.calls
          /\ d.writes = client.writes /\ d.disposed = client.disposed
          /\ d.connected = client.connected
      BY <1>1 DEF Client
    <2> HIDE DEF d
    <2> QED
      BY <2>1, <2>2 DEF Steady, SameFlags, TimerArmedFor
  <1>9. ASSUME NEW id \in Id,
               Reply(id) \/ HeartBeatReply(id) \/ BuddyNack(id) \/ OtherReply(id)
        PROVE  Steady(client, client')
    <2>1. ~client.disposed
      BY <1>2, <1>9 DEF Reply, HeartBeatReply, BuddyNack, OtherReply, Received
    <2>2. CASE Reply(id)
      BY <1>1, <2>1, <2>2, ReplySteady DEF Reply, Received
    <2>3. CASE HeartBeatReply(id)
      BY <1>1, <2>1, <2>3, ReplySteady DEF HeartBeatReply, Received
    <2>4. CASE BuddyNack(id)
      BY <1>1, <2>1, <2>4, ReplySteady DEF BuddyNack, Received
    <2>5. CASE OtherReply(id)
      BY <1>1, <2>1, <2>5, IgnoreSteady DEF OtherReply, Received
    <2> QED
      BY <1>9, <2>2, <2>3, <2>4, <2>5
  <1> QED
    BY <1>3, <1>4, <1>5, <1>6, <1>7, <1>8, <1>9 DEF Next, Timers, Peer

(* Every step of the program is taken while it runs.                         *)
LEMMA NextRunning == Next => Running
  BY DEF Next, Queue, HandOver, DisposeClient, Timers, CommandTimer, PollTimer, CleanupTimer,
         Age, Connected, Closed, Peer, Reply, HeartBeatReply, BuddyNack, OtherReply, Received

(* The steps of the socket and dispose change two flags only.                *)
LEMMA FlagSteps ==
  ASSUME client \in Client, DisposeClient \/ Connected \/ Closed
  PROVE  /\ client'.sent = client.sent /\ client'.timers = client.timers
         /\ client'.timedOut = client.timedOut /\ client'.calls = client.calls
         /\ client'.writes = client.writes /\ client'.threw = client.threw
         /\ client'.disposed => client.disposed \/ ~client'.connected
         /\ client.disposed => client'.disposed /\ ~client'.connected
  <1>1. CASE DisposeClient
    BY <1>1 DEF DisposeClient, Dispose, Client
  <1>2. CASE Connected
    BY <1>2 DEF Connected, Client
  <1>3. CASE Closed
    BY <1>3 DEF Closed, Client
  <1> QED
    BY <1>1, <1>2, <1>3

LEMMA NextTimers == InductiveInv /\ TimersInv /\ [Next]_vars => TimersInv'
  <1> SUFFICES ASSUME InductiveInv, TimersInv, [Next]_vars PROVE TimersInv'
    OBVIOUS
  <1>1. client \in Client
    BY DEF InductiveInv, Consistent, Typed
  <1>2. CASE Next /\ Steady(client, client')
    BY <1>2, NextRunning, SteadyTimers
  <1>3. CASE DisposeClient \/ Connected \/ Closed
    <2>1. /\ client'.sent = client.sent /\ client'.timers = client.timers
          /\ client'.timedOut = client.timedOut /\ client'.threw = client.threw
          /\ client'.disposed => client.disposed \/ ~client'.connected
          /\ client.disposed => client'.disposed /\ ~client'.connected
      BY <1>1, <1>3, FlagSteps
    <2> QED
      BY <2>1 DEF TimersInv, TimerArmedFor
  <1>4. CASE UNCHANGED vars
    BY <1>4 DEF vars, TimersInv, TimerArmedFor
  <1> QED
    BY <1>2, <1>3, <1>4, StepsAreSteady

(* A live client's command in flight has a timer, a disposed client has no   *)
(* connection, and no timed out command is remembered.                       *)
THEOREM TimersAreKept == Spec => [](InductiveInv /\ TimersInv)
  <1>1. Init => InductiveInv /\ TimersInv
    BY InitInvariant, InitTimers
  <1>2. (InductiveInv /\ TimersInv) /\ [Next]_vars => (InductiveInv /\ TimersInv)'
    BY NextInvariant, NextTimers
  <1> QED
    BY <1>1, <1>2, PTL DEF Spec

(* The command in flight can always time out, unless its message cannot be   *)
(* serialised.                                                               *)
THEOREM AlwaysTimesOut == Spec => []InFlightCanTimeOut
  <1>1. TimersInv => InFlightCanTimeOut
    BY DEF TimersInv, TimerArmedFor, InFlightCanTimeOut
  <1> QED
    BY <1>1, TimersAreKept, PTL

(* The table of timed out commands is empty between any two callbacks.       *)
THEOREM NothingIsLookedUp == Spec => []TimedOutTableIsEmpty
  <1>1. TimersInv => TimedOutTableIsEmpty
    BY DEF TimersInv, TimedOutTableIsEmpty, Running
  <1> QED
    BY <1>1, TimersAreKept, PTL

(* A reply that carries a messageID settles no command but that one.         *)
THEOREM RepliesAreNotMixedUp == Spec => RepliesSettleTheirCommand
  <1> DEFINE A == \A id \in Id : Reply(id) =>
                    \A other \in Id \ {id} : client'.calls[other] = client.calls[other]
  <1>1. InductiveInv /\ TimersInv /\ [Next]_vars => [A]_vars
    <2> SUFFICES ASSUME InductiveInv, TimersInv, NEW id \in Id, Reply(id)
                 PROVE  \A other \in Id \ {id} : client'.calls[other] = client.calls[other]
      OBVIOUS
    <2>1. Typed(client) /\ client.connected /\ client' = ReplyReceived(client, id)
      BY DEF InductiveInv, Consistent, Reply, Received
    <2>2. ~client.disposed
      BY <2>1 DEF TimersInv
    <2> QED
      BY <2>1, <2>2, ReplySteady
  <1>2. Spec => [][Next]_vars
    BY DEF Spec
  <1>3. Spec => [][A]_vars
    BY <1>1, <1>2, TimersAreKept, PTL
  <1> QED
    BY <1>3 DEF RepliesSettleTheirCommand

(* A disposed client writes nothing, calls nobody, and stays disposed.       *)
THEOREM DisposedForGood == Spec => DisposedIsSilent
  <1> DEFINE A == client.disposed =>
                    /\ client'.disposed /\ ~client'.connected
                    /\ client'.calls = client.calls /\ client'.writes = client.writes
  <1>1. InductiveInv /\ TimersInv /\ [Next]_vars => [A]_vars
    <2> SUFFICES ASSUME InductiveInv, TimersInv, Next, client.disposed PROVE A
      OBVIOUS
    <2>1. client \in Client /\ ~client.connected
      BY DEF InductiveInv, Consistent, Typed, TimersInv
    <2>2. CASE Steady(client, client')
      BY <2>1, <2>2 DEF Steady, SameFlags
    <2>3. CASE DisposeClient \/ Connected \/ Closed
      BY <2>1, <2>3, FlagSteps
    <2> QED
      BY <2>2, <2>3, StepsAreSteady
  <1>2. Spec => [][Next]_vars
    BY DEF Spec
  <1>3. Spec => [][A]_vars
    BY <1>1, <1>2, TimersAreKept, PTL
  <1> QED
    BY <1>3 DEF DisposedIsSilent

-----------------------------------------------------------------------------
(* The client implements CommandLifecycle: every handler moves each command *)
(* along its life cycle or leaves it where it is, and commands start in the *)
(* order in which they were queued.  Life reads StatusOf off any client     *)
(* record.  A lemma per kind of change says which commands it moves, a      *)
(* lemma per method composes them.                                          *)

Life(c, last, id) ==
  IF id > last THEN "new"
  ELSE IF c.calls[id] = 1 THEN "settled"
  ELSE IF id \in Queued(c) THEN "queued"
  ELSE IF c.sent = id THEN "inFlight"
  ELSE IF id \in c.lingeringCallbacks THEN "lingering"
  ELSE IF id \in c.callbacks THEN "orphaned"
  ELSE "handedOver"

(* A method turns c into d, and the last id from last into n, and moves     *)
(* every command as the life cycle allows.                                  *)
Moved(c, last, d, n) ==
  \A id \in Id : \/ Life(d, n, id) = Life(c, last, id)
                 \/ <<Life(c, last, id), Life(d, n, id)>> \in Lifecycle!Moves

(* What processQueue may do.                                                *)
Sends(c, d, last) ==
  \A id \in Id : \/ Life(d, last, id) = Life(c, last, id)
                 \/ /\ Life(c, last, id) = "queued"
                    /\ \/ Life(d, last, id) = "inFlight"
                       \/ Life(d, last, id) = "settled" /\ id \in Aged(c)

(* What _sendReply may do.                                                  *)
Settles(c, d, last) ==
  \A id \in Id : \/ Life(d, last, id) = Life(c, last, id)
                 \/ /\ Life(c, last, id) \in {"inFlight", "lingering"}
                    /\ Life(d, last, id) = "settled"

(* d differs from c in nothing Life reads.                                  *)
SameLife(c, d) ==
  /\ d.queue = c.queue /\ d.sent = c.sent /\ d.calls = c.calls
  /\ d.callbacks = c.callbacks /\ d.lingeringCallbacks = c.lingeringCallbacks

-----------------------------------------------------------------------------
(* A change of flags, timers and counters moves no command.                 *)
LEMMA FrameMoves ==
  ASSUME NEW c, NEW d, NEW last, SameLife(c, d)
  PROVE  \A id \in Id : Life(d, last, id) = Life(c, last, id)
  BY DEF SameLife, Life, Queued

(* The head of the queue goes in flight.                                    *)
LEMMA SendMoves ==
  ASSUME NEW c, NEW d, NEW last \in Nat, Consistent(c, last), c.sent = Null,
         d.sent \in Queued(c), Queued(d) = Queued(c) \ {d.sent}, d.calls = c.calls,
         d.callbacks = c.callbacks, d.lingeringCallbacks = c.lingeringCallbacks
  PROVE  Sends(c, d, last)
  <1> SUFFICES ASSUME NEW id \in Id
               PROVE  \/ Life(d, last, id) = Life(c, last, id)
                      \/ Life(c, last, id) = "queued" /\ Life(d, last, id) = "inFlight"
    BY DEF Sends
  <1>1. id # Null
    BY IdNat
  <1>2. CASE id = d.sent
    BY <1>2, Places DEF Life
  <1>3. CASE id # d.sent
    BY <1>1, <1>3 DEF Life
  <1> QED
    BY <1>2, <1>3

(* Aged entries of the queue are settled; what was in flight is either left *)
(* in flight or forgotten.                                                  *)
LEMMA DropMoves ==
  ASSUME NEW c, NEW d, NEW last \in Nat, Consistent(c, last),
         d.sent \in {c.sent, Null}, Queued(d) = Queued(c) \ Aged(c),
         d.calls = Bump(c.calls, Aged(c)), d.callbacks = c.callbacks \ Aged(c),
         d.lingeringCallbacks = c.lingeringCallbacks
  PROVE  \A id \in Id :
           \/ Life(d, last, id) = Life(c, last, id)
           \/ /\ Life(c, last, id) = "queued" /\ Life(d, last, id) = "settled"
              /\ id \in Aged(c)
           \/ /\ Life(c, last, id) = "inFlight" /\ Life(d, last, id) = "orphaned"
              /\ d.sent # c.sent
  <1> TAKE id \in Id
  <1>1. id # Null /\ d.calls[id] = IF id \in Aged(c) THEN c.calls[id] + 1 ELSE c.calls[id]
    BY IdNat, Places, BumpType
  <1>2. CASE id \in Aged(c)
    <2>1. c.calls[id] = 0 /\ ~(id > last) /\ id \in Queued(c) /\ d.calls[id] = 1
      BY <1>1, <1>2, Places
    <2> QED
      BY <1>2, <2>1 DEF Life
  <1>3. CASE id \notin Aged(c) /\ c.sent = id
    <2>1. /\ c.calls[id] = 0 /\ ~(id > last) /\ id \notin Queued(c) /\ id \in c.callbacks
          /\ id \notin c.lingeringCallbacks /\ d.calls[id] = 0 /\ id \notin Queued(d)
          /\ id \in d.callbacks /\ id \notin d.lingeringCallbacks
      BY <1>1, <1>3, Places
    <2> QED
      BY <1>1, <1>3, <2>1 DEF Life
  <1>4. CASE id \notin Aged(c) /\ c.sent # id
    BY <1>1, <1>4 DEF Life
  <1> QED
    BY <1>2, <1>3, <1>4

(* The awaited reply, of the command in flight or of the lingering one,     *)
(* settles that command.                                                    *)
LEMMA SettleMoves ==
  ASSUME NEW c, NEW last \in Nat, NEW id \in Id, Consistent(c, last),
         c.sent = id \/ (c.sent = Null /\ c.lingering = id)
  PROVE  Settles(c, SendReply(c, id), last)
  <1> DEFINE S == {id} \cap (c.callbacks \cup c.lingeringCallbacks)
             N == Bump(c.calls, S)
             K == c.callbacks \ {id}
             L == c.lingeringCallbacks \ {id}
             d == [c EXCEPT !.calls = N, !.callbacks = K, !.lingeringCallbacks = L,
                            !.sent = Null, !.lingering = Null]
  <1>1. c \in Client
    BY DEF Consistent, Typed
  <1>2. SendReply(c, id) = d
    BY <1>1 DEF SendReply, Call, Client
  <1> HIDE DEF N, K, L
  <1>3. /\ d.queue = c.queue /\ d.calls = N /\ d.callbacks = K
        /\ d.lingeringCallbacks = L /\ d.sent = Null
    BY <1>1 DEF Client
  <1>4. Queued(d) = Queued(c)
    BY <1>3 DEF Queued
  <1> HIDE DEF d
  <1>5. id \in c.callbacks \cup c.lingeringCallbacks /\ id \notin Queued(c) /\ id # Null
    <2>1. CASE c.sent = id
      BY <2>1, Places, IdNat
    <2>2. CASE c.sent = Null /\ c.lingering = id
      <3>1. id \in c.lingeringCallbacks
        BY <2>2, IdNat DEF Consistent, CallbacksKept
      <3> QED
        BY <3>1, Places, IdNat
    <2> QED
      BY <2>1, <2>2
  <1>6. S = {id}
    BY <1>5
  <1>7. ASSUME NEW i \in Id
        PROVE  N[i] = IF i = id THEN c.calls[i] + 1 ELSE c.calls[i]
    <2>1. N[i] = IF i \in S THEN c.calls[i] + 1 ELSE c.calls[i]
      BY BumpType, Places DEF N
    <2> QED
      BY <1>6, <2>1
  <1> SUFFICES ASSUME NEW i \in Id
               PROVE  \/ Life(d, last, i) = Life(c, last, i)
                      \/ /\ Life(c, last, i) \in {"inFlight", "lingering"}
                         /\ Life(d, last, i) = "settled"
    BY <1>2 DEF Settles
  <1>8. CASE i = id
    <2>1. c.calls[id] = 0 /\ ~(id > last) /\ N[id] = 1
      BY <1>5, <1>7, Places
    <2>2. Life(d, last, i) = "settled"
      BY <1>3, <1>8, <2>1 DEF Life
    <2>3. c.sent = id \/ id \in c.lingeringCallbacks
      BY IdNat DEF Consistent, CallbacksKept
    <2> QED
      BY <1>5, <1>8, <2>1, <2>2, <2>3 DEF Life
  <1>9. CASE i # id
    <2>1. c.sent # i /\ Null # i
      BY <1>9, IdNat
    <2> QED
      BY <1>3, <1>4, <1>7, <1>9, <2>1 DEF Life, K, L
  <1> QED
    BY <1>8, <1>9

-----------------------------------------------------------------------------
(* processQueue with a connection: nothing moves but the head of the queue. *)
LEMMA SendNextMoves ==
  ASSUME NEW c, NEW last \in Nat, Consistent(c, last), c.sent = Null
  PROVE  Sends(c, SendNext(c), last)
  <1>1. c \in Client /\ c.queue \in Seq(Id)
        /\ \A i, j \in 1 .. Len(c.queue) : i < j => c.queue[i] < c.queue[j]
    BY DEF Consistent, Typed, Client, QueueOrdered
  <1>2. CASE c.queue = <<>>
    <2>1. SameLife(c, SendNext(c))
      BY <1>1, <1>2 DEF SendNext, SameLife, Client
    <2> QED
      BY <2>1, FrameMoves DEF Sends
  <1>3. CASE c.queue # <<>>
    <2> DEFINE q == Tail(c.queue)
               h == Head(c.queue)
               a == IF c.aged = 0 THEN 0 ELSE c.aged - 1
               b == [c EXCEPT !.poll = FALSE, !.queue = q, !.aged = a]
               d == ExecuteCommand(b, h, FALSE)
    <2>1. /\ h \in Id /\ h \in {c.queue[i] : i \in 1 .. Len(c.queue)}
          /\ {q[i] : i \in 1 .. Len(q)} = {c.queue[i] : i \in 1 .. Len(c.queue)} \ {h}
      BY <1>1, <1>3, TailQueued
    <2>2. SendNext(c) = d
      BY <1>3 DEF SendNext
    <2> HIDE DEF q, h, a
    <2>3. /\ b.queue = q /\ b.sent = Null /\ b.calls = c.calls
          /\ b.callbacks = c.callbacks /\ b.lingeringCallbacks = c.lingeringCallbacks
      BY <1>1 DEF Client
    <2>4. /\ d.queue = q /\ d.sent = h /\ d.calls = c.calls
          /\ d.callbacks = c.callbacks /\ d.lingeringCallbacks = c.lingeringCallbacks
      BY <1>1, <2>3 DEF ExecuteCommand, Client
    <2> HIDE DEF d
    <2>5. h \in Queued(c) /\ Queued(d) = Queued(c) \ {h}
      BY <2>1, <2>4 DEF Queued
    <2> QED
      BY <2>2, <2>4, <2>5, SendMoves
  <1> QED
    BY <1>2, <1>3

(* processQueue without a connection settles the aged entries.              *)
LEMMA DropAgedMoves ==
  ASSUME NEW c, NEW last \in Nat, Consistent(c, last), c.sent = Null
  PROVE  Sends(c, DropAged(c), last)
  <1> DEFINE q == SubSeq(c.queue, c.aged + 1, Len(c.queue))
             N == Bump(c.calls, Aged(c))
             K == c.callbacks \ Aged(c)
             p == c.poll \/ c.aged < Len(c.queue)
             b == [c EXCEPT !.calls = N, !.callbacks = K]
             e == [b EXCEPT !.queue = q, !.aged = 0]
             d == [e EXCEPT !.poll = p]
  <1>1. /\ c \in Client /\ c.queue \in Seq(Id) /\ c.aged \in Nat /\ c.aged <= Len(c.queue)
        /\ \A i, j \in 1 .. Len(c.queue) : i < j => c.queue[i] < c.queue[j]
    BY DEF Consistent, Typed, Client, QueueOrdered
  <1>2. {q[i] : i \in 1 .. Len(q)} =
          {c.queue[i] : i \in 1 .. Len(c.queue)} \ {c.queue[i] : i \in 1 .. c.aged}
    BY <1>1, SuffixQueued
  <1>3. Aged(c) \subseteq c.callbacks
    BY Places
  <1> HIDE DEF N, K
  <1>4. b.queue = c.queue /\ b.aged = c.aged /\ e.poll = c.poll
    BY <1>1 DEF Client
  <1>5. DropAged(c) = d
    BY <1>3, <1>4 DEF DropAged, RemoveAged, q, N, K, p
  <1> HIDE DEF q, p
  <1>6. /\ d.queue = q /\ d.sent = c.sent /\ d.calls = N /\ d.callbacks = K
        /\ d.lingeringCallbacks = c.lingeringCallbacks
    BY <1>1 DEF Client
  <1> HIDE DEF d
  <1>7. Queued(d) = Queued(c) \ Aged(c)
    BY <1>2, <1>6 DEF Queued, Aged
  <1>8. \A id \in Id :
           \/ Life(d, last, id) = Life(c, last, id)
           \/ /\ Life(c, last, id) = "queued" /\ Life(d, last, id) = "settled"
              /\ id \in Aged(c)
    BY <1>6, <1>7, DropMoves DEF N, K
  <1> QED
    BY <1>5, <1>8 DEF Sends

(* processQueue sends one command, settles aged ones, or moves nothing.     *)
LEMMA ProcessQueueMoves ==
  ASSUME NEW c, NEW last \in Nat, Consistent(c, last), ~c.threw
  PROVE  Sends(c, ProcessQueue(c), last)
  <1> DEFINE d == IF c.sent # Null THEN c
                  ELSE IF c.connected THEN SendNext(c)
                  ELSE IF c.queue # <<>> THEN DropAged(c)
                  ELSE c
             e == [d EXCEPT !.timedOut = {}]
  <1>1. Sends(c, c, last)
    BY DEF Sends
  <1>2. Sends(c, d, last)
    BY <1>1, SendNextMoves, DropAgedMoves
  <1>3. ProcessQueue(c) = IF c.disposed THEN c ELSE IF d.threw THEN d ELSE e
    BY DEF ProcessQueue
  <1>4. d \in Client
    BY SendNextSound, DropAgedSound DEF Sound, Consistent, Typed
  <1> HIDE DEF d
  <1>5. SameLife(d, e)
    BY <1>4 DEF SameLife, Client
  <1>6. Sends(c, e, last)
    BY <1>2, <1>5, FrameMoves DEF Sends
  <1> QED
    BY <1>1, <1>2, <1>3, <1>6

-----------------------------------------------------------------------------
(* Consistent(d, last) for a d that differs from c in flags only.           *)
LEMMA FrameConsistent ==
  ASSUME NEW c, NEW d, NEW last \in Nat, Consistent(c, last), d \in Client,
         SameCommands(c, d), d.aged = c.aged, d.timers \subseteq c.timers
  PROVE  Consistent(d, last) /\ SameLife(c, d)
  <1>1. Typed(d)
    BY DEF Consistent, Typed, SameCommands
  <1>2. Sound(c, d, last)
    BY <1>1, FrameSound
  <1> QED
    BY <1>2 DEF Sound, SameCommands, SameLife

(* A reply that settles at most the awaited command, then processQueue.     *)
LEMMA ThenProcessQueueMoves ==
  ASSUME NEW c, NEW b, NEW last \in Nat, Consistent(b, last), ~b.threw, Settles(c, b, last)
  PROVE  Moved(c, last, ProcessQueue(b), last)
  <1>1. Sends(b, ProcessQueue(b), last)
    BY ProcessQueueMoves
  <1> SUFFICES ASSUME NEW id \in Id
               PROVE  LET d == ProcessQueue(b)
                      IN  \/ Life(d, last, id) = Life(c, last, id)
                          \/ <<Life(c, last, id), Life(d, last, id)>> \in Lifecycle!Moves
    BY DEF Moved
  <1> DEFINE x == Life(c, last, id)
             y == Life(b, last, id)
             z == Life(ProcessQueue(b), last, id)
  <1>2. y = x \/ (x \in {"inFlight", "lingering"} /\ y = "settled")
    BY DEF Settles
  <1>3. z = y \/ (y = "queued" /\ z \in {"inFlight", "settled"})
    BY <1>1 DEF Sends
  <1> HIDE DEF x, y, z
  <1>4. z = x \/ <<x, z>> \in Lifecycle!Moves
    BY <1>2, <1>3 DEF Lifecycle!Moves
  <1> QED
    BY <1>4 DEF x, z

(* The same, when the awaited command was settled by SendReply.             *)
LEMMA SettleThenMoves ==
  ASSUME NEW c, NEW last \in Nat, NEW id \in Id, Consistent(c, last), ~c.threw,
         c.sent = id \/ (c.sent = Null /\ c.lingering = id)
  PROVE  Moved(c, last, ProcessQueue(SendReply(c, id)), last)
  <1>1. Consistent(SendReply(c, id), last) /\ ~SendReply(c, id).threw
    BY SendReplySound DEF Sound
  <1> QED
    BY <1>1, SettleMoves, ThenProcessQueueMoves

(* Only flags change, then processQueue.                                    *)
LEMMA FrameThenMoves ==
  ASSUME NEW c, NEW b, NEW last \in Nat, Consistent(c, last), ~c.threw, b \in Client,
         SameCommands(c, b), b.aged = c.aged, b.timers \subseteq c.timers
  PROVE  Moved(c, last, ProcessQueue(b), last)
  <1>1. Consistent(b, last) /\ SameLife(c, b) /\ ~b.threw
    BY FrameConsistent DEF SameCommands
  <1>2. Settles(c, b, last)
    BY <1>1, FrameMoves DEF Settles
  <1> QED
    BY <1>1, <1>2, ThenProcessQueueMoves

-----------------------------------------------------------------------------
(* queueCommand: the new command is queued or in flight, and never dropped  *)
(* by the call that queued it.                                              *)
LEMMA QueueMoves ==
  ASSUME NEW c, NEW last \in Nat, NEW id \in Id, id = last + 1, Consistent(c, last), ~c.threw
  PROVE  Moved(c, last, [QueueCommand(c, id) EXCEPT !.threw = FALSE], id)
  <1> DEFINE q == Append(c.queue, id)
             K == c.callbacks \cup {id}
             b == [c EXCEPT !.callbacks = K, !.queue = q]
             d == ProcessQueue(b)
             e == [d EXCEPT !.threw = FALSE]
  <1>1. c \in Client /\ c.queue \in Seq(Id) /\ c.aged \in Nat /\ c.aged <= Len(c.queue)
    BY DEF Consistent, Typed, Client
  <1>2. {q[i] : i \in 1 .. Len(q)} = {c.queue[i] : i \in 1 .. Len(c.queue)} \cup {id}
        /\ Len(c.queue) \in Nat /\ \A i \in 1 .. Len(c.queue) : q[i] = c.queue[i]
    BY <1>1, AppendQueued, AppendProperties
  <1>3. QueueCommand(c, id) = d
    BY DEF QueueCommand
  <1>4. Consistent(b, id) /\ ~b.threw
    BY QueuedSound DEF Sound
  <1> HIDE DEF q, K
  <1>5. /\ b.queue = q /\ b.aged = c.aged /\ b.sent = c.sent /\ b.calls = c.calls
        /\ b.callbacks = K /\ b.lingeringCallbacks = c.lingeringCallbacks
    BY <1>1 DEF Client
  <1> HIDE DEF b
  <1>6. Queued(b) = Queued(c) \cup {id} /\ Aged(b) = Aged(c)
    <2>1. \A i \in 1 .. c.aged : q[i] = c.queue[i]
      BY <1>1, <1>2
    <2> QED
      BY <1>2, <1>5, <2>1 DEF Queued, Aged
  <1>7. d \in Client
    BY <1>4, IdNat, ProcessQueueSound DEF Sound, Consistent, Typed
  <1>8. Sends(b, d, id)
    BY <1>4, IdNat, ProcessQueueMoves
  <1> HIDE DEF d
  <1>9. SameLife(d, e)
    BY <1>7 DEF SameLife, Client
  <1>10. id > last /\ ~(id > id) /\ \A i \in Id \ {id} : i > last <=> i > id
    BY IdNat
  <1>11. id \notin c.callbacks \cup c.lingeringCallbacks /\ c.calls[id] # 1
    BY <1>10, IdNat, Places DEF Consistent, CallbacksKept
  <1>12. \A i \in Id \ {id} : Life(b, id, i) = Life(c, last, i)
    BY <1>5, <1>6, <1>10 DEF Life, K
  <1>13. Life(c, last, id) = "new" /\ Life(b, id, id) = "queued"
    BY <1>5, <1>6, <1>10, <1>11 DEF Life
  <1>14. id \notin Aged(b)
    BY <1>6, <1>11, Places
  <1> SUFFICES ASSUME NEW i \in Id
               PROVE  \/ Life(e, id, i) = Life(c, last, i)
                      \/ <<Life(c, last, i), Life(e, id, i)>> \in Lifecycle!Moves
    BY <1>3 DEF Moved
  <1> DEFINE x == Life(c, last, i)
             z == Life(e, id, i)
  <1>15. z = Life(d, id, i)
    BY <1>9, FrameMoves
  <1>16. CASE i = id
    <2>1. x = "new" /\ z \in {"queued", "inFlight"}
      BY <1>8, <1>13, <1>14, <1>15, <1>16 DEF Sends
    <2> HIDE DEF x, z
    <2>2. <<x, z>> \in Lifecycle!Moves
      BY <2>1 DEF Lifecycle!Moves
    <2> QED
      BY <2>2 DEF x, z
  <1>17. CASE i # id
    <2>1. z = x \/ (x = "queued" /\ z \in {"inFlight", "settled"})
      BY <1>8, <1>12, <1>15, <1>17 DEF Sends
    <2> HIDE DEF x, z
    <2>2. z = x \/ <<x, z>> \in Lifecycle!Moves
      BY <2>1 DEF Lifecycle!Moves
    <2> QED
      BY <2>2 DEF x, z
  <1> QED
    BY <1>16, <1>17

(* handOverQueue takes every command away but a heartbeat in flight.        *)
LEMMA HandOverMoves ==
  ASSUME NEW c, NEW last \in Nat, Consistent(c, last)
  PROVE  Moved(c, last, HandOverQueue(c), last)
  <1> DEFINE keep == c.sent # Null /\ c.sent \in HeartBeats
             g == IF keep THEN c.sent ELSE Null
             L == IF keep THEN c.lingeringCallbacks \cup ({c.sent} \cap c.callbacks)
                          ELSE c.lingeringCallbacks \ {c.lingering}
             d == [c EXCEPT !.lingering = g, !.lingeringCallbacks = L, !.queue = <<>>,
                            !.aged = 0, !.callbacks = {}, !.sent = Null, !.poll = FALSE]
  <1>1. c \in Client
    BY DEF Consistent, Typed
  <1>2. HandOverQueue(c) = d
    BY DEF HandOverQueue
  <1> HIDE DEF g
  <1>3. /\ d.queue = <<>> /\ d.sent = Null /\ d.calls = c.calls
        /\ d.callbacks = {} /\ d.lingeringCallbacks = L
    BY <1>1 DEF Client
  <1> HIDE DEF d
  <1>4. Queued(d) = {}
    BY <1>3, EmptySeq DEF Queued
  <1> SUFFICES ASSUME NEW id \in Id
               PROVE  \/ Life(d, last, id) = Life(c, last, id)
                      \/ <<Life(c, last, id), Life(d, last, id)>> \in Lifecycle!Moves
    BY <1>2 DEF Moved
  <1> DEFINE x == Life(c, last, id)
             z == Life(d, last, id)
  <1>5. id # Null
    BY IdNat
  <1>6. id \in L => id \in c.lingeringCallbacks \/ (id = c.sent /\ id \in c.callbacks)
    OBVIOUS
  <1> HIDE DEF L
  <1>7. CASE id > last \/ c.calls[id] = 1
    BY <1>3, <1>7 DEF Life
  <1>8. CASE ~(id > last) /\ c.calls[id] # 1
    <2>1. z = IF id \in L THEN "lingering" ELSE "handedOver"
      BY <1>3, <1>4, <1>5, <1>8 DEF Life
    <2>2. x \in {"queued", "inFlight", "lingering", "orphaned", "handedOver"}
      BY <1>8 DEF Life
    <2>3. id \in L => x \in {"inFlight", "lingering"}
      BY <1>6, <1>8, Places DEF Life
    <2> HIDE DEF x, z
    <2>4. z = x \/ <<x, z>> \in Lifecycle!Moves
      BY <2>1, <2>2, <2>3 DEF Lifecycle!Moves
    <2> QED
      BY <2>4 DEF x, z
  <1> QED
    BY <1>7, <1>8

(* The timer of a command: a second attempt moves nothing, the end of the   *)
(* second attempt settles the command.                                      *)
LEMMA CommandTimeoutMoves ==
  ASSUME NEW c, NEW last \in Nat, NEW id \in Id, NEW isRetry \in BOOLEAN,
         Consistent(c, last), ~c.threw
  PROVE  Moved(c, last, CommandTimeout(c, id, isRetry), last)
  <1> DEFINE T == c.timers \ {<<id, isRetry>>}
             d == [c EXCEPT !.timers = T]
             r == SendReply(d, id)
             O == r.timedOut \cup {id}
             e == [r EXCEPT !.timedOut = O]
             f == ExecuteCommand(d, id, TRUE)
  <1>1. c \in Client /\ T \in SUBSET (Id \X BOOLEAN) /\ T \subseteq c.timers
    BY DEF Consistent, Typed, Client
  <1>2. CommandTimeout(c, id, isRetry) =
          IF d.disposed \/ d.sent # id THEN d ELSE IF isRetry THEN ProcessQueue(e) ELSE f
    BY DEF CommandTimeout
  <1> HIDE DEF T
  <1>3. d \in Client
    BY <1>1, Zenon DEF Client
  <1>4. SameCommands(c, d) /\ d.aged = c.aged /\ d.timers = T
    BY <1>1 DEF Client, SameCommands
  <1> HIDE DEF d
  <1>5. Consistent(d, last) /\ SameLife(c, d) /\ ~d.threw
    BY <1>1, <1>3, <1>4, FrameConsistent DEF SameCommands
  <1>6. Moved(c, last, d, last)
    BY <1>5, FrameMoves DEF Moved
  <1>7. CASE d.sent = id /\ isRetry
    <2>1. Consistent(r, last) /\ ~r.threw /\ r \in Client
      BY <1>5, <1>7, SendReplySound DEF Sound, Consistent, Typed
    <2>2. Settles(c, r, last)
      BY <1>5, <1>7, SettleMoves, FrameMoves DEF Settles
    <2>3. O \in SUBSET Id
      BY <2>1 DEF Client
    <2> HIDE DEF r, O
    <2>4. e \in Client
      BY <2>1, <2>3, Zenon DEF Client
    <2>5. SameCommands(r, e) /\ e.aged = r.aged /\ e.timers = r.timers
      BY <2>1 DEF Client, SameCommands
    <2> HIDE DEF e
    <2>6. Consistent(e, last) /\ SameLife(r, e) /\ ~e.threw
      BY <2>1, <2>4, <2>5, FrameConsistent DEF SameCommands
    <2>7. Settles(c, e, last)
      BY <2>2, <2>6, FrameMoves DEF Settles
    <2>8. Moved(c, last, ProcessQueue(e), last)
      BY <2>6, <2>7, ThenProcessQueueMoves
    <2> QED
      BY <1>2, <1>6, <1>7, <2>8
  <1>8. CASE d.sent = id /\ ~isRetry
    <2>1. SameLife(d, f)
      BY <1>3, <1>8 DEF ExecuteCommand, SameLife, Client
    <2> HIDE DEF f
    <2>2. Moved(c, last, f, last)
      BY <1>5, <2>1, FrameMoves DEF Moved
    <2> QED
      BY <1>2, <1>6, <1>8, <2>2
  <1> QED
    BY <1>2, <1>6, <1>7, <1>8

(* The poll timer.                                                          *)
LEMMA PollMoves ==
  ASSUME NEW c, NEW last \in Nat, Consistent(c, last), ~c.threw
  PROVE  Moved(c, last, PollTimeout(c), last)
  <1> DEFINE b == [c EXCEPT !.poll = FALSE]
  <1>1. c \in Client /\ FALSE \in BOOLEAN
    BY DEF Consistent, Typed
  <1>2. b \in Client
    BY <1>1, Zenon DEF Client
  <1>3. SameCommands(c, b) /\ b.aged = c.aged /\ b.timers = c.timers
    BY <1>1 DEF Client, SameCommands
  <1>4. PollTimeout(c) = ProcessQueue(b)
    BY DEF PollTimeout
  <1> HIDE DEF b
  <1> QED
    BY <1>2, <1>3, <1>4, FrameThenMoves

(* The cleanup settles aged entries; it is the only handler that forgets a  *)
(* command in flight, whose callback stays behind.                          *)
LEMMA CleanupMoves ==
  ASSUME NEW c, NEW last \in Nat, Consistent(c, last), ~c.threw, c.cleanups > 0
  PROVE  Moved(c, last, QueueCleanup(c), last)
  <1> DEFINE n == c.cleanups - 1
             d == [c EXCEPT !.cleanups = n]
             A == Aged(d)
             S == A \cap (d.callbacks \cup d.lingeringCallbacks)
             q == SubSeq(d.queue, d.aged + 1, Len(d.queue))
             N == Bump(d.calls, S)
             K == d.callbacks \ A
             L == d.lingeringCallbacks \ A
             f == [d EXCEPT !.calls = N, !.callbacks = K, !.lingeringCallbacks = L,
                            !.sent = Null, !.lingering = Null]
             e == [f EXCEPT !.queue = q, !.aged = 0]
  <1>1. c \in Client /\ n \in Nat
    BY DEF Consistent, Typed, Client
  <1>2. QueueCleanup(c) =
          IF d.disposed \/ d.aged = 0 THEN d
          ELSE RemoveAged([Call(d, Aged(d)) EXCEPT !.sent = Null, !.lingering = Null])
    BY DEF QueueCleanup
  <1> HIDE DEF n
  <1>3. d \in Client
    BY <1>1, Zenon DEF Client
  <1>4. SameCommands(c, d) /\ d.aged = c.aged /\ d.timers = c.timers
    BY <1>1 DEF Client, SameCommands
  <1> HIDE DEF d
  <1>5. Consistent(d, last) /\ SameLife(c, d)
    BY <1>3, <1>4, FrameConsistent
  <1>6. Moved(c, last, d, last)
    BY <1>5, FrameMoves DEF Moved
  <1>7. f.queue = d.queue /\ f.aged = d.aged
    BY <1>3 DEF Client
  <1>8. RemoveAged([Call(d, Aged(d)) EXCEPT !.sent = Null, !.lingering = Null]) = e
    BY <1>3, <1>7 DEF RemoveAged, Call, Client
  <1>9. /\ d.queue \in Seq(Id) /\ d.aged \in Nat /\ d.aged <= Len(d.queue)
        /\ \A i, j \in 1 .. Len(d.queue) : i < j => d.queue[i] < d.queue[j]
        /\ A \subseteq d.callbacks /\ A \cap d.lingeringCallbacks = {}
    BY <1>5, Places DEF Consistent, QueueOrdered
  <1>10. {q[i] : i \in 1 .. Len(q)} =
           {d.queue[i] : i \in 1 .. Len(d.queue)} \ {d.queue[i] : i \in 1 .. d.aged}
    BY <1>9, SuffixQueued
  <1> HIDE DEF A, q
  <1>11. S = A /\ L = d.lingeringCallbacks
    BY <1>9
  <1> HIDE DEF S, N, K, L
  <1>12. /\ e.queue = q /\ e.sent = Null /\ e.calls = N /\ e.callbacks = K
         /\ e.lingeringCallbacks = L
    BY <1>3 DEF Client
  <1> HIDE DEF e
  <1>13. Queued(e) = Queued(d) \ Aged(d)
    BY <1>10, <1>12 DEF Queued, Aged
  <1>14. \A id \in Id :
           \/ Life(e, last, id) = Life(d, last, id)
           \/ Life(d, last, id) = "queued" /\ Life(e, last, id) = "settled"
           \/ Life(d, last, id) = "inFlight" /\ Life(e, last, id) = "orphaned"
    <2>1. /\ e.calls = Bump(d.calls, Aged(d)) /\ e.callbacks = d.callbacks \ Aged(d)
          /\ e.lingeringCallbacks = d.lingeringCallbacks
      BY <1>11, <1>12 DEF N, K, A
    <2> QED
      BY <1>5, <1>12, <1>13, <2>1, DropMoves
  <1>15. Moved(c, last, e, last)
    BY <1>5, <1>14, FrameMoves DEF Moved, Lifecycle!Moves
  <1> QED
    BY <1>2, <1>6, <1>8, <1>15

(* What the socket receives settles at most the awaited command.            *)
LEMMA ReplyMoves ==
  ASSUME NEW c, NEW last \in Nat, NEW id \in Id, Consistent(c, last), ~c.threw
  PROVE  /\ Moved(c, last, ReplyReceived(c, id), last)
         /\ Moved(c, last, HeartBeatReceived(c), last)
         /\ Moved(c, last, BuddyNackReceived(c), last)
         /\ Moved(c, last, ProcessQueue(c), last)
  <1> DEFINE awaited == IF c.sent # Null THEN c.sent ELSE c.lingering
             O == c.timedOut \ {id}
             n == c.cleanups + 1
             x == [c EXCEPT !.timedOut = O]
             y == [c EXCEPT !.cleanups = n]
  <1>1. c \in Client /\ O \in SUBSET Id /\ n \in Nat /\ c.sent \in Id \cup {Null}
    BY DEF Consistent, Typed, Client
  <1>2. ReplyReceived(c, id) =
          ProcessQueue(IF awaited = Null THEN x ELSE IF awaited = id THEN SendReply(c, id) ELSE y)
    BY DEF ReplyReceived
  <1> HIDE DEF O, n
  <1>3. x \in Client /\ y \in Client
    BY <1>1, Zenon DEF Client
  <1>4. /\ SameCommands(c, x) /\ x.aged = c.aged /\ x.timers = c.timers
        /\ SameCommands(c, y) /\ y.aged = c.aged /\ y.timers = c.timers
    BY <1>1 DEF Client, SameCommands
  <1> HIDE DEF x, y
  <1>5. Moved(c, last, ProcessQueue(x), last) /\ Moved(c, last, ProcessQueue(y), last)
    BY <1>3, <1>4, FrameThenMoves
  <1>6. Moved(c, last, ProcessQueue(c), last)
    BY <1>1, FrameThenMoves DEF SameCommands
  <1>7. Moved(c, last, ReplyReceived(c, id), last)
    <2>1. CASE awaited = id
      <3>1. c.sent = id \/ (c.sent = Null /\ c.lingering = id)
        BY <2>1
      <3>2. Moved(c, last, ProcessQueue(SendReply(c, id)), last)
        BY <3>1, SettleThenMoves
      <3> QED
        BY <1>2, <1>5, <2>1, <3>2
    <2>2. CASE awaited # id
      BY <1>2, <1>5, <2>2
    <2> QED
      BY <2>1, <2>2
  <1>8. ASSUME c.sent # Null
        PROVE  Moved(c, last, ProcessQueue(SendReply(c, c.sent)), last)
    BY <1>1, <1>8, SettleThenMoves
  <1>9. c.sent \in HeartBeats => c.sent # Null
    BY KindAssumption, IdNat
  <1>10. Moved(c, last, HeartBeatReceived(c), last)
    BY <1>6, <1>8, <1>9 DEF HeartBeatReceived
  <1>11. Moved(c, last, BuddyNackReceived(c), last)
    BY <1>6, <1>8 DEF BuddyNackReceived
  <1> QED
    BY <1>6, <1>7, <1>10, <1>11

-----------------------------------------------------------------------------
(* Every step of the client moves its commands along their life cycle.      *)
LEMMA StepMoves ==
  ASSUME InductiveInv, [Next]_vars
  PROVE  Moved(client, lastId, client', lastId')
  <1>1. /\ Consistent(client, lastId) /\ lastId \in Nat /\ lastId \in 0 .. MaxId
        /\ client \in Client
    BY MaxIdAssumption DEF InductiveInv, Consistent, Typed
  <1>2. CASE Queue
    <2>1. lastId' = lastId + 1 /\ lastId' \in Id /\ Running
      BY <1>1, <1>2, MaxIdAssumption DEF Queue, Id
    <2>2. client' = [QueueCommand(client, lastId') EXCEPT !.threw = FALSE]
      BY <1>2 DEF Queue, Ends
    <2> QED
      BY <1>1, <2>1, <2>2, QueueMoves DEF Running
  <1>3. CASE HandOver
    BY <1>1, <1>3, HandOverMoves DEF HandOver, Ends
  <1>4. ASSUME DisposeClient \/ Age \/ Connected \/ Closed
        PROVE  Moved(client, lastId, client', lastId')
    <2>1. SameLife(client, client') /\ lastId' = lastId
      BY <1>1, <1>4 DEF DisposeClient, Dispose, Age, Connected, Closed, SameLife, Client
    <2> QED
      BY <2>1, FrameMoves DEF Moved
  <1>5. ASSUME NEW id \in Id, NEW isRetry \in BOOLEAN, CommandTimer(id, isRetry)
        PROVE  Moved(client, lastId, client', lastId')
    BY <1>1, <1>5, CommandTimeoutMoves DEF CommandTimer, Ends, Running
  <1>6. CASE PollTimer
    BY <1>1, <1>6, PollMoves DEF PollTimer, Ends, Running
  <1>7. CASE CleanupTimer
    BY <1>1, <1>7, CleanupMoves DEF CleanupTimer, Ends, Running
  <1>8. ASSUME NEW id \in Id,
               Reply(id) \/ HeartBeatReply(id) \/ BuddyNack(id) \/ OtherReply(id)
        PROVE  Moved(client, lastId, client', lastId')
    <2>1. /\ ~client.threw /\ lastId' = lastId
          /\ client' \in {ReplyReceived(client, id), HeartBeatReceived(client),
                          BuddyNackReceived(client), ProcessQueue(client)}
      BY <1>8 DEF Reply, HeartBeatReply, BuddyNack, OtherReply, Received, Running
    <2> QED
      BY <1>1, <2>1, ReplyMoves
  <1>9. CASE UNCHANGED vars
    BY <1>9 DEF vars, Moved
  <1> QED
    BY <1>2, <1>3, <1>4, <1>5, <1>6, <1>7, <1>8, <1>9 DEF Next, Timers, Peer

(* The life cycle the refinement mapping reads is Life of the client.       *)
LEMMA StatusIsLife ==
  InductiveInv => \A id \in Id : StatusOf(id) = Life(client, lastId, id)
  <1> SUFFICES ASSUME InductiveInv, NEW id \in Id
               PROVE  StatusOf(id) = Life(client, lastId, id)
    OBVIOUS
  <1>1. Consistent(client, lastId) /\ lastId \in Nat
    BY MaxIdAssumption DEF InductiveInv
  <1>2. /\ id \in client.callbacks \cup client.lingeringCallbacks =>
             ~(id > lastId) /\ client.calls[id] = 0
        /\ client.calls[id] \in Nat /\ client.calls[id] <= 1
        /\ client.calls[id] = 1 => ~(id > lastId)
        /\ id \in Queued(client) => id \in client.callbacks /\ client.sent # id
        /\ client.sent = id => id \in client.callbacks
        /\ ~(id \in client.callbacks /\ id \in client.lingeringCallbacks)
    BY <1>1, Places, IdNat DEF Consistent, CallbacksKept
  <1>3. id \in Orphans <=> id \in client.callbacks /\ id \notin Queued(client) /\ client.sent # id
    BY DEF Orphans
  <1> QED
    BY <1>2, <1>3 DEF StatusOf, Life

(* At most one command is in flight, and what is in flight is older than    *)
(* all that is queued.                                                      *)
LEMMA InFlightInOrder ==
  ASSUME NEW c, NEW last \in Nat, Consistent(c, last)
  PROVE  /\ \A id \in Id : Life(c, last, id) = "inFlight" => c.sent = id
         /\ \A i, j \in Id : i < j /\ Life(c, last, j) = "inFlight" =>
              Life(c, last, i) \notin {"new", "queued"}
  <1>1. \A id \in Id : Life(c, last, id) = "inFlight" => c.sent = id
    BY DEF Life
  <1>2. ASSUME NEW i \in Id, NEW j \in Id, i < j, Life(c, last, j) = "inFlight"
        PROVE  Life(c, last, i) \notin {"new", "queued"}
    <2>1. c.sent = j /\ ~(j > last)
      BY <1>1, <1>2 DEF Life
    <2>2. ~(i > last)
      BY <1>2, <2>1, IdNat
    <2>3. i \notin Queued(c)
      <3>1. ASSUME NEW k \in 1 .. Len(c.queue) PROVE i # c.queue[k]
        <4>1. j < c.queue[k]
          BY <2>1 DEF Consistent, QueueOrdered
        <4> QED
          BY <1>2, <4>1, Strict
      <3> QED
        BY <3>1 DEF Queued
    <2> QED
      BY <2>2, <2>3 DEF Life
  <1> QED
    BY <1>1, <1>2

(* A new client has only new commands.                                      *)
LEMMA InitMaps == Init => Lifecycle!Init
  <1> SUFFICES ASSUME Init PROVE Lifecycle!Init
    OBVIOUS
  <1>1. InductiveInv
    BY InitInvariant
  <1>2. \A id \in Id : StatusOf(id) = "new"
    BY <1>1, StatusIsLife, IdNat DEF Init, Life, Null
  <1> QED
    BY <1>2 DEF Lifecycle!Init, Lifecycle!Id, Id

(* Every step of the client is a step of the life cycle or leaves it alone. *)
LEMMA NextMaps ==
  ASSUME InductiveInv, InductiveInv', [Next]_vars
  PROVE  [Lifecycle!Next]_([id \in Id |-> StatusOf(id)])
  <1> DEFINE S(id) == Life(client, lastId, id)
             T(id) == Life(client', lastId', id)
  <1>1. \A id \in Id : StatusOf(id) = S(id)
    BY StatusIsLife
  <1>2. \A id \in Id : StatusOf(id)' = T(id)
    <2>1. (\A id \in Id : StatusOf(id) = S(id))'
      BY StatusIsLife, PTL
    <2> QED
      BY <2>1 DEF Life, Queued
  <1>3. \A id \in Id : T(id) = S(id) \/ <<S(id), T(id)>> \in Lifecycle!Moves
    BY StepMoves DEF Moved
  <1>4. Consistent(client', lastId') /\ lastId' \in Nat
    BY MaxIdAssumption DEF InductiveInv
  <1>5. /\ \A i, j \in Id : T(i) = "inFlight" /\ T(j) = "inFlight" => i = j
        /\ \A i, j \in Id : i < j /\ T(j) = "inFlight" => T(i) \notin {"new", "queued"}
    BY <1>4, InFlightInOrder
  <1>6. \A id \in Id : T(id) \in Lifecycle!Status
    BY DEF Life, Lifecycle!Status
  <1> HIDE DEF S, T
  <1>7. Lifecycle!Next
    BY <1>1, <1>2, <1>3, <1>5, <1>6
    DEF Lifecycle!Next, Lifecycle!Id, Lifecycle!Starts, Id
  <1> QED
    BY <1>7

(* The client implements the life cycle of commands: whatever the           *)
(* connection, the peer and the timers do, commands go out one at a time    *)
(* and in order, and what is settled or handed over stays so.               *)
THEOREM ClientImplementsLifecycle == Spec => ImplementsLifecycle
  <1>1. Init => Lifecycle!Init
    BY InitMaps
  <1>2. InductiveInv /\ InductiveInv' /\ [Next]_vars =>
          [Lifecycle!Next]_([id \in Id |-> StatusOf(id)])
    BY NextMaps
  <1> QED
    BY <1>1, <1>2, ClientStaysConsistent, PTL DEF Spec, ImplementsLifecycle, Lifecycle!Spec

-----------------------------------------------------------------------------
(* No handler but the cleanup loses track of a command.  Stuck and Lost     *)
(* read Stalled and Orphans off any client record; a method that ends in    *)
(* processQueue leaves no queue stuck, whatever it did before.              *)
Stuck(c) == ~c.disposed /\ c.queue # <<>> /\ c.sent = Null /\ ~c.poll
Lost(c)  == c.callbacks \ (Queued(c) \cup {c.sent})

(* A method turns c into d and loses track of nothing c kept track of.      *)
Tracks(c, d) == (Stuck(d) => Stuck(c)) /\ Lost(d) \subseteq Lost(c)

(* Nothing in flight and a connection: the head of the queue goes in flight.*)
LEMMA SendNextTracks ==
  ASSUME NEW c, NEW last \in Nat, Consistent(c, last), c.sent = Null
  PROVE  ~Stuck(SendNext(c)) /\ Lost(SendNext(c)) \subseteq Lost(c)
  <1>1. c \in Client /\ c.queue \in Seq(Id)
        /\ \A i, j \in 1 .. Len(c.queue) : i < j => c.queue[i] < c.queue[j]
    BY DEF Consistent, Typed, Client, QueueOrdered
  <1>2. CASE c.queue = <<>>
    <2> DEFINE d == [c EXCEPT !.poll = FALSE]
    <2>1. SendNext(c) = d
      BY <1>2 DEF SendNext
    <2>2. d.queue = c.queue /\ d.sent = c.sent /\ d.callbacks = c.callbacks
      BY <1>1 DEF Client
    <2> HIDE DEF d
    <2> QED
      BY <1>2, <2>1, <2>2 DEF Stuck, Lost, Queued
  <1>3. CASE c.queue # <<>>
    <2> DEFINE q == Tail(c.queue)
               h == Head(c.queue)
               a == IF c.aged = 0 THEN 0 ELSE c.aged - 1
               b == [c EXCEPT !.poll = FALSE, !.queue = q, !.aged = a]
               d == ExecuteCommand(b, h, FALSE)
    <2>1. /\ h \in Id
          /\ {q[i] : i \in 1 .. Len(q)} = {c.queue[i] : i \in 1 .. Len(c.queue)} \ {h}
      BY <1>1, <1>3, TailQueued
    <2>2. SendNext(c) = d
      BY <1>3 DEF SendNext
    <2> HIDE DEF q, h, a
    <2>3. b.queue = q /\ b.sent = Null /\ b.callbacks = c.callbacks
      BY <1>1 DEF Client
    <2>4. d.queue = q /\ d.sent = h /\ d.callbacks = c.callbacks
      BY <1>1, <2>3 DEF ExecuteCommand, Client
    <2> HIDE DEF d
    <2>5. Queued(d) = Queued(c) \ {h}
      BY <2>1, <2>4 DEF Queued
    <2>6. h # Null
      BY <2>1, IdNat
    <2>7. ~Stuck(d)
      BY <2>4, <2>6 DEF Stuck
    <2>8. Lost(d) \subseteq Lost(c)
      <3>1. Null \notin c.callbacks
        BY Places, IdNat
      <3> QED
        BY <2>4, <2>5, <3>1 DEF Lost
    <2> QED
      BY <2>2, <2>7, <2>8
  <1> QED
    BY <1>2, <1>3

(* Nothing in flight and no connection: the aged entries are settled, and   *)
(* if a fresh one is left it is polled for.                                 *)
LEMMA DropAgedTracks ==
  ASSUME NEW c, NEW last \in Nat, Consistent(c, last), c.sent = Null
  PROVE  ~Stuck(DropAged(c)) /\ Lost(DropAged(c)) \subseteq Lost(c)
  <1> DEFINE q == SubSeq(c.queue, c.aged + 1, Len(c.queue))
             N == Bump(c.calls, Aged(c))
             K == c.callbacks \ Aged(c)
             p == c.poll \/ c.aged < Len(c.queue)
             b == [c EXCEPT !.calls = N, !.callbacks = K]
             e == [b EXCEPT !.queue = q, !.aged = 0]
             d == [e EXCEPT !.poll = p]
  <1>1. /\ c \in Client /\ c.queue \in Seq(Id) /\ c.aged \in Nat /\ c.aged <= Len(c.queue)
        /\ \A i, j \in 1 .. Len(c.queue) : i < j => c.queue[i] < c.queue[j]
    BY DEF Consistent, Typed, Client, QueueOrdered
  <1>2. {q[i] : i \in 1 .. Len(q)} =
          {c.queue[i] : i \in 1 .. Len(c.queue)} \ {c.queue[i] : i \in 1 .. c.aged}
    BY <1>1, SuffixQueued
  <1>3. Aged(c) \subseteq c.callbacks
    BY Places
  <1>4. ~p => q = <<>>
    <2>1. Len(q) = Len(c.queue) - c.aged /\ q \in Seq(Id) /\ Len(c.queue) \in Nat
      BY <1>1, Suffix
    <2>2. ~p => Len(q) = 0
      BY <1>1, <2>1
    <2> QED
      BY <2>1, <2>2, EmptySeq
  <1> HIDE DEF N, K
  <1>5. b.queue = c.queue /\ b.aged = c.aged /\ e.poll = c.poll
    BY <1>1 DEF Client
  <1>6. DropAged(c) = d
    BY <1>3, <1>5 DEF DropAged, RemoveAged, q, N, K, p
  <1> HIDE DEF q, p
  <1>7. d.queue = q /\ d.sent = c.sent /\ d.callbacks = K /\ d.poll = p
    BY <1>1 DEF Client
  <1> HIDE DEF d
  <1>8. Queued(d) = Queued(c) \ Aged(c)
    BY <1>2, <1>7 DEF Queued, Aged
  <1> QED
    BY <1>4, <1>6, <1>7, <1>8 DEF Stuck, Lost, K

(* processQueue never leaves a queue stuck and orphans no command.          *)
LEMMA ProcessQueueTracks ==
  ASSUME NEW c, NEW last \in Nat, Consistent(c, last), ~c.threw
  PROVE  ~Stuck(ProcessQueue(c)) /\ Lost(ProcessQueue(c)) \subseteq Lost(c)
  <1> DEFINE d == IF c.sent # Null THEN c
                  ELSE IF c.connected THEN SendNext(c)
                  ELSE IF c.queue # <<>> THEN DropAged(c)
                  ELSE c
             e == [d EXCEPT !.timedOut = {}]
  <1>1. ~Stuck(d) /\ Lost(d) \subseteq Lost(c)
    <2>1. c.sent # Null \/ c.queue = <<>> => ~Stuck(c)
      BY DEF Stuck
    <2> QED
      BY <2>1, SendNextTracks, DropAgedTracks
  <1>2. ProcessQueue(c) = IF c.disposed THEN c ELSE IF d.threw THEN d ELSE e
    BY DEF ProcessQueue
  <1>3. d \in Client
    BY SendNextSound, DropAgedSound DEF Sound, Consistent, Typed
  <1> HIDE DEF d
  <1>4. /\ e.queue = d.queue /\ e.sent = d.sent /\ e.callbacks = d.callbacks
        /\ e.poll = d.poll /\ e.disposed = d.disposed
    BY <1>3 DEF Client
  <1> HIDE DEF e
  <1>5. ~Stuck(e) /\ Lost(e) = Lost(d)
    BY <1>1, <1>4 DEF Stuck, Lost, Queued
  <1>6. c.disposed => ~Stuck(c)
    BY DEF Stuck
  <1> QED
    BY <1>1, <1>2, <1>5, <1>6

(* What ends in processQueue tracks, if it orphaned nothing before.         *)
LEMMA ThenProcessQueueTracks ==
  ASSUME NEW c, NEW b, NEW last \in Nat, Consistent(b, last), ~b.threw,
         Lost(b) \subseteq Lost(c)
  PROVE  Tracks(c, ProcessQueue(b))
  BY ProcessQueueTracks DEF Tracks

(* What is settled is not orphaned: its callback is gone.                   *)
LEMMA SendReplyLosesNothing ==
  ASSUME NEW c, NEW last \in Nat, NEW id \in Id, Consistent(c, last),
         c.sent = id \/ (c.sent = Null /\ c.lingering = id)
  PROVE  Lost(SendReply(c, id)) \subseteq Lost(c)
  <1> DEFINE S == {id} \cap (c.callbacks \cup c.lingeringCallbacks)
             N == Bump(c.calls, S)
             K == c.callbacks \ {id}
             L == c.lingeringCallbacks \ {id}
             d == [c EXCEPT !.calls = N, !.callbacks = K, !.lingeringCallbacks = L,
                            !.sent = Null, !.lingering = Null]
  <1>1. c \in Client
    BY DEF Consistent, Typed
  <1>2. SendReply(c, id) = d
    BY <1>1 DEF SendReply, Call, Client
  <1> HIDE DEF N, K, L
  <1>3. d.queue = c.queue /\ d.callbacks = K /\ d.sent = Null
    BY <1>1 DEF Client
  <1> HIDE DEF d
  <1>4. Null \notin c.callbacks
    BY Places, IdNat
  <1> QED
    BY <1>2, <1>3, <1>4 DEF Lost, Queued, K

LEMMA SettleThenTracks ==
  ASSUME NEW c, NEW last \in Nat, NEW id \in Id, Consistent(c, last), ~c.threw,
         c.sent = id \/ (c.sent = Null /\ c.lingering = id)
  PROVE  Tracks(c, ProcessQueue(SendReply(c, id)))
  <1>1. Consistent(SendReply(c, id), last) /\ ~SendReply(c, id).threw
    BY SendReplySound DEF Sound
  <1> QED
    BY <1>1, SendReplyLosesNothing, ThenProcessQueueTracks

LEMMA FrameThenTracks ==
  ASSUME NEW c, NEW b, NEW last \in Nat, Consistent(c, last), ~c.threw, b \in Client,
         SameCommands(c, b), b.aged = c.aged, b.timers \subseteq c.timers
  PROVE  Tracks(c, ProcessQueue(b))
  <1>1. Consistent(b, last) /\ ~b.threw
    BY FrameConsistent DEF SameCommands
  <1>2. Lost(b) = Lost(c)
    BY DEF SameCommands, Lost, Queued
  <1> QED
    BY <1>1, <1>2, ThenProcessQueueTracks

-----------------------------------------------------------------------------
(* queueCommand: the new command is queued, so it is not orphaned.          *)
LEMMA QueueTracks ==
  ASSUME NEW c, NEW last \in Nat, NEW id \in Id, id = last + 1, Consistent(c, last), ~c.threw
  PROVE  Tracks(c, [QueueCommand(c, id) EXCEPT !.threw = FALSE])
  <1> DEFINE q == Append(c.queue, id)
             K == c.callbacks \cup {id}
             b == [c EXCEPT !.callbacks = K, !.queue = q]
             d == ProcessQueue(b)
             e == [d EXCEPT !.threw = FALSE]
  <1>1. c \in Client /\ c.queue \in Seq(Id)
    BY DEF Consistent, Typed, Client
  <1>2. {q[i] : i \in 1 .. Len(q)} = {c.queue[i] : i \in 1 .. Len(c.queue)} \cup {id}
    BY <1>1, AppendQueued
  <1>3. QueueCommand(c, id) = d
    BY DEF QueueCommand
  <1>4. Consistent(b, id) /\ ~b.threw /\ id \in Nat
    BY QueuedSound, IdNat DEF Sound
  <1> HIDE DEF q, K
  <1>5. b.queue = q /\ b.sent = c.sent /\ b.callbacks = K
    BY <1>1 DEF Client
  <1> HIDE DEF b
  <1>6. Lost(b) \subseteq Lost(c)
    <2>1. Queued(b) = Queued(c) \cup {id}
      BY <1>2, <1>5 DEF Queued
    <2> QED
      BY <1>5, <2>1 DEF Lost, K
  <1>7. d \in Client
    BY <1>4, ProcessQueueSound DEF Sound, Consistent, Typed
  <1>8. Tracks(c, d)
    BY <1>4, <1>6, ThenProcessQueueTracks
  <1> HIDE DEF d
  <1>9. /\ e.queue = d.queue /\ e.sent = d.sent /\ e.callbacks = d.callbacks
        /\ e.poll = d.poll /\ e.disposed = d.disposed
    BY <1>7 DEF Client
  <1> HIDE DEF e
  <1>10. Tracks(c, e)
    BY <1>8, <1>9 DEF Tracks, Stuck, Lost, Queued
  <1> QED
    BY <1>3, <1>10 DEF e

(* handOverQueue empties queue and table of callbacks alike.                *)
LEMMA HandOverTracks ==
  ASSUME NEW c \in Client
  PROVE  Tracks(c, HandOverQueue(c))
  <1>1. HandOverQueue(c).queue = <<>> /\ HandOverQueue(c).callbacks = {}
    BY DEF HandOverQueue, Client
  <1> QED
    BY <1>1 DEF Tracks, Stuck, Lost

(* The timer of a command retries it, or settles it and sends the next one. *)
LEMMA CommandTimeoutTracks ==
  ASSUME NEW c, NEW last \in Nat, NEW id \in Id, NEW isRetry \in BOOLEAN,
         Consistent(c, last), ~c.threw
  PROVE  Tracks(c, CommandTimeout(c, id, isRetry))
  <1> DEFINE T == c.timers \ {<<id, isRetry>>}
             d == [c EXCEPT !.timers = T]
             r == SendReply(d, id)
             O == r.timedOut \cup {id}
             e == [r EXCEPT !.timedOut = O]
             f == ExecuteCommand(d, id, TRUE)
  <1>1. c \in Client /\ T \in SUBSET (Id \X BOOLEAN) /\ T \subseteq c.timers
    BY DEF Consistent, Typed, Client
  <1>2. CommandTimeout(c, id, isRetry) =
          IF d.disposed \/ d.sent # id THEN d ELSE IF isRetry THEN ProcessQueue(e) ELSE f
    BY DEF CommandTimeout
  <1> HIDE DEF T
  <1>3. d \in Client
    BY <1>1, Zenon DEF Client
  <1>4. SameCommands(c, d) /\ d.aged = c.aged /\ d.timers = T
        /\ d.poll = c.poll /\ d.disposed = c.disposed
    BY <1>1 DEF Client, SameCommands
  <1> HIDE DEF d
  <1>5. Consistent(d, last) /\ ~d.threw
    BY <1>1, <1>3, <1>4, FrameConsistent DEF SameCommands
  <1>6. Lost(d) = Lost(c) /\ (Stuck(d) => Stuck(c))
    BY <1>4 DEF SameCommands, Lost, Queued, Stuck
  <1>7. CASE d.sent = id /\ isRetry
    <2>1. Consistent(r, last) /\ ~r.threw /\ r \in Client
      BY <1>5, <1>7, SendReplySound DEF Sound, Consistent, Typed
    <2>2. Lost(r) \subseteq Lost(c)
      BY <1>5, <1>6, <1>7, SendReplyLosesNothing
    <2>3. O \in SUBSET Id
      BY <2>1 DEF Client
    <2> HIDE DEF r, O
    <2>4. e \in Client
      BY <2>1, <2>3, Zenon DEF Client
    <2>5. SameCommands(r, e) /\ e.aged = r.aged /\ e.timers = r.timers
      BY <2>1 DEF Client, SameCommands
    <2> HIDE DEF e
    <2>6. Consistent(e, last) /\ ~e.threw
      BY <2>1, <2>4, <2>5, FrameConsistent DEF SameCommands
    <2>7. Lost(e) = Lost(r)
      BY <2>5 DEF SameCommands, Lost, Queued
    <2>8. Tracks(c, ProcessQueue(e))
      BY <2>2, <2>6, <2>7, ThenProcessQueueTracks
    <2> QED
      BY <1>2, <1>6, <1>7, <2>8 DEF Tracks
  <1>8. CASE d.sent = id /\ ~isRetry
    <2>1. f.queue = d.queue /\ f.callbacks = d.callbacks /\ f.sent = id
      BY <1>3, <1>8 DEF ExecuteCommand, Client
    <2> HIDE DEF f
    <2>2. Lost(f) = Lost(d) /\ ~Stuck(f)
      BY <1>8, <2>1, IdNat DEF Lost, Queued, Stuck
    <2> QED
      BY <1>2, <1>6, <1>8, <2>2 DEF Tracks
  <1>9. CASE d.sent # id
    BY <1>2, <1>6, <1>9 DEF Tracks
  <1> QED
    BY <1>7, <1>8, <1>9

LEMMA PollTracks ==
  ASSUME NEW c, NEW last \in Nat, Consistent(c, last), ~c.threw
  PROVE  Tracks(c, PollTimeout(c))
  <1> DEFINE b == [c EXCEPT !.poll = FALSE]
  <1>1. c \in Client /\ FALSE \in BOOLEAN
    BY DEF Consistent, Typed
  <1>2. b \in Client
    BY <1>1, Zenon DEF Client
  <1>3. SameCommands(c, b) /\ b.aged = c.aged /\ b.timers = c.timers
    BY <1>1 DEF Client, SameCommands
  <1>4. PollTimeout(c) = ProcessQueue(b)
    BY DEF PollTimeout
  <1> HIDE DEF b
  <1> QED
    BY <1>2, <1>3, <1>4, FrameThenTracks

(* What the socket receives settles at most the awaited command, and ends   *)
(* in processQueue.                                                         *)
LEMMA ReplyTracks ==
  ASSUME NEW c, NEW last \in Nat, NEW id \in Id, Consistent(c, last), ~c.threw
  PROVE  /\ Tracks(c, ReplyReceived(c, id))
         /\ Tracks(c, HeartBeatReceived(c))
         /\ Tracks(c, BuddyNackReceived(c))
         /\ Tracks(c, ProcessQueue(c))
  <1> DEFINE awaited == IF c.sent # Null THEN c.sent ELSE c.lingering
             O == c.timedOut \ {id}
             n == c.cleanups + 1
             x == [c EXCEPT !.timedOut = O]
             y == [c EXCEPT !.cleanups = n]
  <1>1. c \in Client /\ O \in SUBSET Id /\ n \in Nat /\ c.sent \in Id \cup {Null}
    BY DEF Consistent, Typed, Client
  <1>2. ReplyReceived(c, id) =
          ProcessQueue(IF awaited = Null THEN x ELSE IF awaited = id THEN SendReply(c, id) ELSE y)
    BY DEF ReplyReceived
  <1> HIDE DEF O, n
  <1>3. x \in Client /\ y \in Client
    BY <1>1, Zenon DEF Client
  <1>4. /\ SameCommands(c, x) /\ x.aged = c.aged /\ x.timers = c.timers
        /\ SameCommands(c, y) /\ y.aged = c.aged /\ y.timers = c.timers
    BY <1>1 DEF Client, SameCommands
  <1> HIDE DEF x, y
  <1>5. Tracks(c, ProcessQueue(x)) /\ Tracks(c, ProcessQueue(y))
    BY <1>3, <1>4, FrameThenTracks
  <1>6. Tracks(c, ProcessQueue(c))
    BY <1>1, FrameThenTracks DEF SameCommands
  <1>7. Tracks(c, ReplyReceived(c, id))
    <2>1. CASE awaited = id
      <3>1. c.sent = id \/ (c.sent = Null /\ c.lingering = id)
        BY <2>1
      <3>2. Tracks(c, ProcessQueue(SendReply(c, id)))
        BY <3>1, SettleThenTracks
      <3> QED
        BY <1>2, <1>5, <2>1, <3>2
    <2>2. CASE awaited # id
      BY <1>2, <1>5, <2>2
    <2> QED
      BY <2>1, <2>2
  <1>8. ASSUME c.sent # Null
        PROVE  Tracks(c, ProcessQueue(SendReply(c, c.sent)))
    BY <1>1, <1>8, SettleThenTracks
  <1>9. c.sent \in HeartBeats => c.sent # Null
    BY KindAssumption, IdNat
  <1>10. Tracks(c, HeartBeatReceived(c))
    BY <1>6, <1>8, <1>9 DEF HeartBeatReceived
  <1>11. Tracks(c, BuddyNackReceived(c))
    BY <1>6, <1>8 DEF BuddyNackReceived
  <1> QED
    BY <1>6, <1>7, <1>10, <1>11

-----------------------------------------------------------------------------
(* Every step but the cleanup keeps track of what was kept track of.        *)
LEMMA StepTracks ==
  ASSUME InductiveInv, Next
  PROVE  CleanupTimer \/ Tracks(client, client')
  <1>1. Consistent(client, lastId) /\ lastId \in Nat /\ lastId \in 0 .. MaxId
        /\ client \in Client
    BY MaxIdAssumption DEF InductiveInv, Consistent, Typed
  <1>2. CASE Queue
    <2>1. lastId' = lastId + 1 /\ lastId' \in Id /\ Running
      BY <1>1, <1>2, MaxIdAssumption DEF Queue, Id
    <2>2. client' = [QueueCommand(client, lastId') EXCEPT !.threw = FALSE]
      BY <1>2 DEF Queue, Ends
    <2> QED
      BY <1>1, <2>1, <2>2, QueueTracks DEF Running
  <1>3. CASE HandOver
    BY <1>1, <1>3, HandOverTracks DEF HandOver, Ends
  <1>4. ASSUME DisposeClient \/ Age \/ Connected \/ Closed
        PROVE  Tracks(client, client')
    <2>1. /\ client'.queue = client.queue /\ client'.sent = client.sent
          /\ client'.callbacks = client.callbacks /\ client'.poll = client.poll
          /\ client'.disposed = client.disposed \/ client'.disposed
      BY <1>1, <1>4 DEF DisposeClient, Dispose, Age, Connected, Closed, Client
    <2> QED
      BY <2>1 DEF Tracks, Stuck, Lost, Queued
  <1>5. ASSUME NEW id \in Id, NEW isRetry \in BOOLEAN, CommandTimer(id, isRetry)
        PROVE  Tracks(client, client')
    BY <1>1, <1>5, CommandTimeoutTracks DEF CommandTimer, Ends, Running
  <1>6. CASE PollTimer
    BY <1>1, <1>6, PollTracks DEF PollTimer, Ends, Running
  <1>7. ASSUME NEW id \in Id,
               Reply(id) \/ HeartBeatReply(id) \/ BuddyNack(id) \/ OtherReply(id)
        PROVE  Tracks(client, client')
    <2>1. /\ ~client.threw
          /\ client' \in {ReplyReceived(client, id), HeartBeatReceived(client),
                          BuddyNackReceived(client), ProcessQueue(client)}
      BY <1>7 DEF Reply, HeartBeatReply, BuddyNack, OtherReply, Received, Running
    <2> QED
      BY <1>1, <2>1, ReplyTracks
  <1> QED
    BY <1>2, <1>3, <1>4, <1>5, <1>6, <1>7 DEF Next, Timers, Peer

(* No step but the cleanup of aged entries stalls the queue or orphans a    *)
(* command.                                                                 *)
THEOREM HandlersKeepTrack == Spec => OnlyCleanupLosesTrack
  <1> DEFINE A == \/ CleanupTimer
                  \/ /\ Stalled' => Stalled
                     /\ Orphans' \subseteq Orphans
  <1>1. InductiveInv /\ [Next]_vars => [A]_vars
    <2> SUFFICES ASSUME InductiveInv, Next, ~CleanupTimer
                 PROVE  (Stalled' => Stalled) /\ Orphans' \subseteq Orphans
      OBVIOUS
    <2>1. Tracks(client, client')
      BY StepTracks
    <2> QED
      BY <2>1 DEF Tracks, Stuck, Stalled, Lost, Orphans, Queued
  <1>2. Spec => [][Next]_vars
    BY DEF Spec
  <1>3. Spec => [][A]_vars
    BY <1>1, <1>2, ClientStaysConsistent, PTL
  <1> QED
    BY <1>3 DEF OnlyCleanupLosesTrack

=============================================================================
