------------------------------ MODULE Failover ------------------------------
(***************************************************************************)
(* A MosDevice with a primary and a secondary connection: how its commands  *)
(* travel between the two, and what becomes of their promises               *)
(* (MosDevice.ts, executeCommand to _ensureReply; NCSServerConnection.ts,   *)
(* executeCommand, handOverQueue and receiveQueue).                         *)
(*                                                                         *)
(* A connection has one MosSocketClient here, that of the port the commands *)
(* use.  Heartbeats are seen by their outcome only, which is up.            *)
(*                                                                         *)
(*   current    _currentConnection                                          *)
(*   client     the MosSocketClient of each connection                      *)
(*   up         NCSServerConnection.connected                               *)
(*   announced  NCSServerConnection._emittedConnected                       *)
(*   lastId     MosMessage._messageID                                       *)
(*   owner      the command whose message an id was drawn for               *)
(*   latest     messageID of each message, which every prepare() overwrites *)
(*   tables     for an id that receiveQueue drew, the keys of the callbacks *)
(*              that were handed over with it; empty for the device's ids   *)
(*   call       where the device's executeCommand stands for each command:  *)
(*              the id whose promise it awaits, and whether it is a resend  *)
(*   jobs       settled promises whose continuations have yet to run; they  *)
(*              all do before the next callback of the event loop           *)
(***************************************************************************)
EXTENDS SocketClient

CONSTANTS
    Command,             \* the commands the application gives to the device
    NoCommand,
    Primary, Secondary,  \* the two connections
    OffspecFailover      \* the option offspecFailover of the configuration

ASSUME DeviceAssumption ==
  Primary # Secondary /\ NoCommand \notin Command /\ OffspecFailover \in BOOLEAN

(* The ids are those of the device's own commands: none is a heartbeat, and *)
(* each of their messages can be written.                                   *)
ASSUME ScopeAssumption == HeartBeats = {} /\ Unserialisable = {}

VARIABLE device

Connection == {Primary, Secondary}
Other(c) == IF c = Primary THEN Secondary ELSE Primary

(* "reply" satisfies _ensureReply and "nack" does not; "main" is the error  *)
(* 'Main server available', "timeout" is any other.                         *)
Outcome == {"reply", "nack", "main", "timeout"}

NewCall == [phase |-> "new", awaits |-> Null, resend |-> FALSE]

Device ==
  [current : Connection, client : [Connection -> Client],
   up : [Connection -> BOOLEAN], announced : [Connection -> BOOLEAN],
   lastId : Nat, owner : [Id -> Command \cup {NoCommand}],
   latest : [Command -> Id \cup {Null}], tables : [Id -> SUBSET Id],
   call : [Command -> [phase : {"new", "waiting", "resolved", "rejected"},
                       awaits : Id \cup {Null}, resend : BOOLEAN]],
   jobs : SUBSET [id : Id, outcome : Outcome]]

Init ==
  device = [current |-> Primary,
            client |-> [c \in Connection |-> NewClient],
            up |-> [c \in Connection |-> FALSE],
            announced |-> [c \in Connection |-> FALSE],
            lastId |-> 0, owner |-> [i \in Id |-> NoCommand],
            latest |-> [k \in Command |-> Null], tables |-> [i \in Id |-> {}],
            call |-> [k \in Command |-> NewCall], jobs |-> {}]

-----------------------------------------------------------------------------
(* The client of connection c is in state e after a handler.  The promises  *)
(* of the callbacks it called are settled: the one of the awaited reply     *)
(* with out, those of the commands that aged in the queue with a timeout.   *)
(* Timers of commands that are no longer in flight do nothing: dropped.     *)
Handled(d, c, e, awaited, out) ==
  [d EXCEPT
     !.client[c] = [e EXCEPT !.timers = {t \in @ : t[1] = e.sent}],
     !.jobs = @ \cup {[id |-> i, outcome |-> IF i = awaited THEN out ELSE "timeout"] :
                        i \in {j \in Id : e.calls[j] > d.client[c].calls[j]}}]

(* Faulty versions, for the properties to find; see SocketClient.           *)
QueueOnKeepsIdMutant(d, c, k) ==
  LET id == IF d.latest[k] # Null THEN d.latest[k] ELSE d.lastId + 1
  IN  Handled([d EXCEPT !.lastId = @ + 1, !.owner[id] = k, !.latest[k] = id],
              c, QueueCommand(d.client[c], id), Null, "timeout")

(* NCSServerConnection.executeCommand: prepare() gives the message of k a   *)
(* new id, and it is queued.                                                *)
QueueOn(d, c, k) ==
  LET id == d.lastId + 1
  IN  Handled([d EXCEPT !.lastId = id, !.owner[id] = k, !.latest[k] = id],
              c, QueueCommand(d.client[c], id), Null, "timeout")

(* receiveQueue, for one message: its caller's callback is in the table     *)
(* under the id it had before.                                              *)
Forward(d, c, k, table) ==
  LET e == QueueOn(d, c, k) IN [e EXCEPT !.tables[e.lastId] = table]

(* receiveQueue: the messages with the ids of queue, one after another.     *)
ReceiveQueue(d, c, queue, table) ==
  LET received[n \in 0 .. Len(queue)] ==
        IF n = 0 THEN d ELSE Forward(received[n - 1], c, d.owner[queue[n]], table)
  IN  received[Len(queue)]

(* switchConnections, which throws unless the other connection is up.       *)
CanSwitch(d) == d.up[Other(d.current)]

SwitchConnectionsCopiesMutant(d) ==
  LET old == d.client[d.current]
      to  == Other(d.current)
  IN  ReceiveQueue([d EXCEPT !.current = to], to, old.queue, old.callbacks)

SwitchConnectionsStaysMutant(d) ==
  LET old == d.client[d.current]
  IN  ReceiveQueue([d EXCEPT !.client[d.current] = HandOverQueue(@)], Other(d.current),
                   old.queue, old.callbacks)

SwitchConnections(d) ==
  LET old == d.client[d.current]
      to  == Other(d.current)
  IN  ReceiveQueue([d EXCEPT !.current = to, !.client[d.current] = HandOverQueue(@)], to,
                   old.queue, old.callbacks)

SendAwaitsOldPromiseMutant(d, k, resend) ==
  LET e == QueueOn(d, d.current, k)
  IN  [e EXCEPT !.call[k] = [phase |-> "waiting", resend |-> resend,
                             awaits |-> IF resend THEN @.awaits ELSE e.lastId]]

(* MosDevice.executeCommand, up to its await.                               *)
Send(d, k, resend) ==
  LET e == QueueOn(d, d.current, k)
  IN  [e EXCEPT !.call[k] = [phase |-> "waiting", awaits |-> e.lastId, resend |-> resend]]

Settle(d, k, phase) == [d EXCEPT !.call[k] = [@ EXCEPT !.phase = phase, !.awaits = Null]]

(* switchConnectionsAndExecuteCommand, up to its await.  Nothing runs       *)
(* between its switch and its call of executeCommand, so the connection is  *)
(* still up when that looks.                                                *)
SwitchAndSend(d, k) ==
  IF CanSwitch(d) THEN Send(SwitchConnections(d), k, TRUE) ELSE Settle(d, k, "rejected")

Execute(d, k) ==
  IF d.up[d.current] THEN Send(d, k, FALSE) ELSE SwitchAndSend(d, k)

(* The continuations of the await: a resend that failed switches back, and  *)
(* is rejected whether or not it can; 'Main server available' is tried      *)
(* again on the other connection.                                           *)
Continue(d, k, out) ==
  IF out = "reply" THEN Settle(d, k, "resolved")
  ELSE IF ~d.call[k].resend \/ out = "main" THEN SwitchAndSend(d, k)
  ELSE Settle(IF CanSwitch(d) THEN SwitchConnections(d) ELSE d, k, "rejected")

(* The continuations of receiveQueue look for a callback under the id the   *)
(* message has now.  It would be called with no error, and with an error    *)
(* for data, which _ensureReply refuses.                                    *)
CallBack(d, id, out) ==
  LET now == d.latest[d.owner[id]]
  IN  IF now \in d.tables[id]
      THEN [d EXCEPT !.jobs = @ \cup {[id |-> now, outcome |->
                                        IF out = "reply" THEN out ELSE "nack"]}]
      ELSE d

-----------------------------------------------------------------------------
(* A step of the event loop begins when no continuation is left, and a      *)
(* behaviour ends where it would draw more than MaxId ids.                  *)
Idle == device.jobs = {}

Becomes(d) == d.lastId <= MaxId /\ device' = d

(* The application sends a command. *)
Request(k) ==
  /\ Idle /\ device.call[k].phase = "new"
  /\ Becomes(Execute(device, k))

(* A continuation runs.  Promises that were settled together may be nested  *)
(* differently deep, so their continuations may run in any order.           *)
RunJob ==
  \E j \in device.jobs :
    LET d == [device EXCEPT !.jobs = @ \ {j}]
    IN  IF d.tables[j.id] # {} THEN Becomes(CallBack(d, j.id, j.outcome))
        ELSE \E k \in Command :
               /\ d.call[k].phase = "waiting" /\ d.call[k].awaits = j.id
               /\ Becomes(Continue(d, k, j.outcome))

(* The peer of c answers the command in flight. *)
Answer(c) ==
  LET q == device.client[c]
  IN  /\ Idle /\ q.connected /\ q.sent # Null
      /\ \/ \E out \in {"reply", "nack"} :
              Becomes(Handled(device, c, ReplyReceived(q, q.sent), q.sent, out))
         \/ Becomes(Handled(device, c, BuddyNackReceived(q), q.sent, "main"))

(* Timers and the clock of the client of c. *)
CommandTimer(c) ==
  LET q == device.client[c]
  IN  /\ Idle
      /\ \E t \in q.timers :
           Becomes(Handled(device, c, CommandTimeout(q, t[1], t[2]), t[1], "timeout"))

PollTimer(c) ==
  LET q == device.client[c]
  IN  Idle /\ q.poll /\ Becomes(Handled(device, c, PollTimeout(q), Null, "timeout"))

Age(c) ==
  /\ Idle /\ device.client[c].aged < Len(device.client[c].queue)
  /\ device' = [device EXCEPT !.client[c].aged = @ + 1]

(* The socket of the client of c connects or closes. *)
Socket(c) ==
  /\ Idle
  /\ device' = [device EXCEPT !.client[c].connected = ~@]

(* A heartbeat is answered, or times out, when it was not before. *)
HeartBeatOutcome(c) ==
  /\ Idle
  /\ device' = [device EXCEPT !.up[c] = ~@]

(* A round of heartbeats ends, and the device hears of the change.          *)
ConnectionChanged(c) ==
  LET d == [device EXCEPT !.announced[c] = device.up[c]]
  IN  /\ Idle /\ device.up[c] # device.announced[c]
      /\ Becomes(IF OffspecFailover /\ c = Primary /\ d.current # Primary /\ d.up[Primary]
                 THEN SwitchConnections(d) ELSE d)

Next ==
  \/ \E k \in Command : Request(k)
  \/ RunJob
  \/ \E c \in Connection :
       \/ Answer(c) \/ CommandTimer(c) \/ PollTimer(c) \/ Age(c) \/ Socket(c)
       \/ HeartBeatOutcome(c) \/ ConnectionChanged(c)

Spec == Init /\ [][Next]_device

(* Timers fire, time passes and continuations run.  Nothing is assumed of   *)
(* the application, the sockets, the heartbeats or the peers.               *)
FairSpec ==
  /\ Spec /\ WF_device(RunJob)
  /\ \A c \in Connection : WF_device(CommandTimer(c)) /\ WF_device(PollTimer(c))
                           /\ WF_device(Age(c))

-----------------------------------------------------------------------------
(* Every field of the device and of its clients has its type.               *)
TypeOK == device \in Device

(* Each client's queue, callbacks and timers agree with each other also     *)
(* when queues are handed over between two of them, and no handler throws.  *)
ClientsConsistent ==
  /\ TypeOK
  /\ \A c \in Connection : Consistent(device.client[c], device.lastId)

(* The message of a command is one object, and every prepare() overwrites   *)
(* the id in it.  The clients compare that id with what their timers and    *)
(* the peer say (lines 271 and 368 of mosSocketClient.ts): that works only  *)
(* because a message is never in two clients, or twice in one, and is there *)
(* under the id it was given last.                                          *)
OneCopyOfAMessage ==
  \A c \in Connection :
    \A id \in Queued(device.client[c]) \cup ({device.client[c].sent} \ {Null}) :
      /\ device.latest[device.owner[id]] = id
      /\ id \notin device.client[Other(c)].callbacks

(* A promise that is settled is awaited: by the command that asked for it,  *)
(* once, or by the continuation of receiveQueue.                            *)
SettledPromisesAreAwaited ==
  \A j \in device.jobs :
    \/ device.tables[j.id] # {}
    \/ \E k \in Command : device.call[k].phase = "waiting" /\ device.call[k].awaits = j.id

(* A command is lost when its caller awaits a promise that no client has a  *)
(* callback for, and that has no continuation left to run.                  *)
Lost(k) ==
  LET a == device.call[k].awaits
  IN  /\ device.call[k].phase = "waiting"
      /\ \A c \in Connection : a \notin device.client[c].callbacks
      /\ \A j \in device.jobs : j.id # a

Promise == INSTANCE CommandPromise
  WITH status <- [k \in Command |-> IF Lost(k) THEN "lost" ELSE device.call[k].phase],
       current <- device.current

(* The device implements CommandPromise: it loses commands when it switches *)
(* connections, in handOverQueue, and in no other step; and no reply to the *)
(* handed over message ever reaches the caller of a lost command.           *)
ImplementsPromise == Promise!Spec

(* A continuation that would draw more than MaxId ids: the model ends here. *)
OutOfIds == ~Idle /\ ~ENABLED RunJob

(* A command that waits is resolved or rejected in the end, whatever the    *)
(* peers and the sockets do, unless it was lost.                            *)
EveryCommandEnds ==
  \A k \in Command :
    device.call[k].phase = "waiting" ~>
      device.call[k].phase # "waiting" \/ Lost(k) \/ OutOfIds
=============================================================================
