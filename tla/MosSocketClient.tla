-------------------------- MODULE MosSocketClient --------------------------
(***************************************************************************)
(* One MosSocketClient at work: the code that queues commands on it, its    *)
(* timers, its socket, and the peer at the other end of the connection.     *)
(* Every action is one callback of the event loop and runs to its end.      *)
(*                                                                         *)
(* Time is abstracted: an armed timer may fire at any later moment, and an  *)
(* entry of the queue may at any moment have become older than              *)
(* _commandTimeout, oldest first (queueCommand stamps with Date.now()).     *)
(***************************************************************************)
EXTENDS SocketClient

CONSTANTS
    MaxCleanups   \* bounds the cleanup timers that are armed at a time

ASSUME MaxCleanupsAssumption == MaxCleanups \in Nat

VARIABLES
    client,       \* the private state of the MosSocketClient
    lastId,       \* MosMessage._messageID: the last id given to a command
    owed,         \* copies of each command the peer may still answer
    handedOver    \* commands whose callback a handOverQueue gave to its caller

vars == <<client, lastId, owed, handedOver>>

Init ==
  /\ client = NewClient
  /\ lastId = 0
  /\ owed = [i \in Id |-> 0]
  /\ handedOver = {}

(* The handler ends with the client in state d.  What it wrote goes to the  *)
(* peer; a socket without a connection either keeps it until there is one   *)
(* or drops it.                                                             *)
Ends(d) ==
  /\ client' = d
  /\ \/ owed' = [i \in Id |-> owed[i] + (d.writes[i] - client.writes[i])]
     \/ ~client.connected /\ owed' = owed

(* An exception that leaves a callback of the event loop ends the process.  *)
Running == ~client.threw

-----------------------------------------------------------------------------
(* The caller.  NCSServerConnection.executeCommand calls queueCommand in    *)
(* the executor of a Promise, where an exception rejects the promise.       *)
Queue ==
  /\ Running /\ lastId < MaxId
  /\ lastId' = lastId + 1
  /\ Ends([QueueCommand(client, lastId') EXCEPT !.threw = FALSE])
  /\ UNCHANGED handedOver

HandOver ==
  /\ Running
  /\ Ends(HandOverQueue(client))
  /\ handedOver' = handedOver \cup client.callbacks
  /\ UNCHANGED lastId

DisposeClient ==
  /\ Running /\ ~client.disposed
  /\ client' = Dispose(client)
  /\ owed' = [i \in Id |-> 0]
  /\ UNCHANGED <<lastId, handedOver>>

(* Timers. *)
CommandTimer(id, isRetry) ==
  /\ Running /\ <<id, isRetry>> \in client.timers
  /\ Ends(CommandTimeout(client, id, isRetry))
  /\ UNCHANGED <<lastId, handedOver>>

PollTimer ==
  /\ Running /\ client.poll
  /\ Ends(PollTimeout(client))
  /\ UNCHANGED <<lastId, handedOver>>

CleanupTimer ==
  /\ Running /\ client.cleanups > 0
  /\ Ends(QueueCleanup(client))
  /\ UNCHANGED <<lastId, handedOver>>

(* The clock: the oldest fresh entry of the queue passes _commandTimeout.   *)
Age ==
  /\ Running /\ client.aged < Len(client.queue)
  /\ client' = [client EXCEPT !.aged = @ + 1]
  /\ UNCHANGED <<lastId, owed, handedOver>>

(* The socket. *)
Connected ==
  /\ Running /\ ~client.connected /\ ~client.disposed
  /\ client' = [client EXCEPT !.connected = TRUE]
  /\ UNCHANGED <<lastId, owed, handedOver>>

Closed ==
  /\ Running /\ client.connected
  /\ client' = [client EXCEPT !.connected = FALSE]
  /\ owed' = [i \in Id |-> 0]
  /\ UNCHANGED <<lastId, handedOver>>

(* The peer answers a command it has received, in any order, each copy at   *)
(* most once, with or without the messageID.                                *)
Received(id, d) ==
  /\ Running /\ client.connected /\ owed[id] > 0
  /\ d.cleanups <= MaxCleanups
  /\ client' = d
  /\ owed' = [i \in Id |-> owed[i] + (d.writes[i] - client.writes[i])
                                   - (IF i = id THEN 1 ELSE 0)]
  /\ UNCHANGED <<lastId, handedOver>>

Reply(id)          == Received(id, ReplyReceived(client, id))
HeartBeatReply(id) == id \in HeartBeats /\ Received(id, HeartBeatReceived(client))
BuddyNack(id)      == Received(id, BuddyNackReceived(client))
OtherReply(id)     == Received(id, ProcessQueue(client))

-----------------------------------------------------------------------------
Timers == \/ \E id \in Id, isRetry \in BOOLEAN : CommandTimer(id, isRetry)
          \/ PollTimer
          \/ CleanupTimer

Peer == \E id \in Id : Reply(id) \/ HeartBeatReply(id) \/ BuddyNack(id) \/ OtherReply(id)

Next == Queue \/ HandOver \/ DisposeClient \/ Timers \/ Age \/ Connected \/ Closed \/ Peer

Spec == Init /\ [][Next]_vars

(* Timers fire and time passes.  Nothing is assumed of callers, of the      *)
(* connection, or of the peer.                                              *)
Fairness ==
  /\ \A id \in Id, isRetry \in BOOLEAN : WF_vars(CommandTimer(id, isRetry))
  /\ WF_vars(PollTimer)
  /\ WF_vars(CleanupTimer)
  /\ WF_vars(Age)

FairSpec == Spec /\ Fairness

-----------------------------------------------------------------------------
(* Every field has its type, in every reachable state.                      *)
TypeOK ==
  /\ client \in Client
  /\ client.aged <= Len(client.queue)
  /\ lastId \in 0 .. MaxId
  /\ owed \in [Id -> Nat]
  /\ handedOver \in SUBSET Id

(* The inductive invariant behind the safety properties below: queue,       *)
(* callbacks, timers and counters of the client always agree.               *)
InductiveInv ==
  /\ Consistent(client, lastId)
  /\ lastId \in 0 .. MaxId /\ owed \in [Id -> Nat] /\ handedOver \in SUBSET Id

(* A command is settled at most once: no run of timeouts, retries, late and *)
(* repeated replies, cleanups and handovers calls its callback twice, or    *)
(* calls it once more after it has been settled.                            *)
AtMostOnce ==
  \A id \in Id :
    /\ client.calls[id] <= 1
    /\ client.calls[id] = 1 => id \notin client.callbacks \cup client.lingeringCallbacks

(* processQueue calls _queueCallback[id] unchecked (line 149) and           *)
(* executeCommand throws if a command is in flight (line 255): neither can  *)
(* fail, because every queued command still has its callback.               *)
NeverThrowsUnlessUnserialisable ==
  /\ Queued(client) \subseteq client.callbacks
  /\ client.threw => client.sent \in Unserialisable

(* Commands reach the wire in the order in which they were queued, and are  *)
(* written at most twice: nothing queued is older than what was written.    *)
FirstInFirstOut ==
  /\ \A i, j \in 1 .. Len(client.queue) : i < j => client.queue[i] < client.queue[j]
  /\ \A id \in Id, i \in 1 .. Len(client.queue) :
       client.writes[id] > 0 => id < client.queue[i]
  /\ \A id \in Id : client.writes[id] <= 2

(* The command in flight can always time out: its timer, of the first or of *)
(* the second attempt, is armed.  Only a message whose toString() throws    *)
(* blocks the line, for nothing ever times it out.                          *)
InFlightCanTimeOut ==
  ~client.disposed /\ client.sent \notin {Null} \cup Unserialisable =>
    \E isRetry \in BOOLEAN : <<client.sent, isRetry>> \in client.timers

(* The table of timed out commands is empty whenever the event loop runs,   *)
(* so the branch of _onData that looks a late reply up in it is dead.       *)
TimedOutTableIsEmpty == Running => client.timedOut = {}

(* The client waits for at most one reply.                                  *)
OneAwaited == client.sent = Null \/ client.lingering = Null

(* The queue is stalled when it holds commands, none is in flight, and      *)
(* nothing is armed that would call processQueue.                           *)
Stalled ==
  /\ ~client.disposed
  /\ client.queue # <<>> /\ client.sent = Null /\ ~client.poll

(* A command is orphaned when its callback is kept but it is neither queued *)
(* nor in flight: no timeout and no reply can settle it.                    *)
Orphans == client.callbacks \ (Queued(client) \cup {client.sent})

(* No step but the cleanup of aged entries stalls the queue or orphans a    *)
(* command; all other handlers leave every command with something that will *)
(* settle it.                                                               *)
OnlyCleanupLosesTrack ==
  [][\/ CleanupTimer
     \/ /\ Stalled' => Stalled
        /\ Orphans' \subseteq Orphans]_vars

(* A reply that carries a messageID settles no command but that one.        *)
RepliesSettleTheirCommand ==
  [][\A id \in Id : Reply(id) =>
       \A other \in Id \ {id} : client'.calls[other] = client.calls[other]]_vars

(* handOverQueue, line 173: "Temporary hack, to allow heartbeats to be       *)
(* received after a handover"; CHANGELOG.md, line 187: "to allow heartbeat  *)
(* replies to come through, even after a handOver".  The reply to a         *)
(* heartbeat whose callback was kept would then settle it.                  *)
HeartBeatsComeThrough ==
  [][\A id \in HeartBeats :
       Reply(id) /\ id \in client.lingeringCallbacks => client'.calls[id] = 1]_vars

(* A disposed client writes nothing, calls no callback and never comes back.*)
DisposedIsSilent ==
  [][client.disposed =>
       /\ client'.disposed /\ ~client'.connected
       /\ client'.calls = client.calls /\ client'.writes = client.writes]_vars

(* A command leaves the client: it is settled or handed over, whatever the  *)
(* connection and the peer do, unless the client is disposed or a cleanup   *)
(* lost track of it.                                                        *)
EveryCommandSettles ==
  \A id \in Id :
    id \in client.callbacks ~>
      \/ id \notin client.callbacks
      \/ client.disposed \/ client.threw
      \/ id \in Orphans \/ Stalled

(* _triggerQueueCleanup, line 461: "in case we're in unsync with messages,  *)
(* prevent deadlock".  A queued command would then always leave the queue.  *)
CleanupPreventsDeadlock ==
  \A id \in Id :
    id \in Queued(client) ~>
      \/ id \notin Queued(client)
      \/ client.disposed \/ client.threw
-----------------------------------------------------------------------------
(* The life cycle of CommandLifecycle, read off the client's fields.        *)
StatusOf(id) ==
  CASE id > lastId                          -> "new"
    [] client.calls[id] = 1                 -> "settled"
    [] client.calls[id] > 1                 -> "settledAgain"
    [] id \in Queued(client)                -> "queued"
    [] client.sent = id                     -> "inFlight"
    [] id \in client.lingeringCallbacks     -> "lingering"
    [] id \in Orphans                       -> "orphaned"
    [] OTHER                                -> "handedOver"

Lifecycle == INSTANCE CommandLifecycle WITH status <- [id \in Id |-> StatusOf(id)]

(* The client implements CommandLifecycle: one command at a time, in order, *)
(* and what is settled or handed over is so for good.                       *)
ImplementsLifecycle == Lifecycle!Spec
=============================================================================
