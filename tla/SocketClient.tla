---------------------------- MODULE SocketClient ----------------------------
(***************************************************************************)
(* The command queue of one MosSocketClient (connection/mosSocketClient.ts): *)
(* its private fields as a record, and each of its synchronous methods as   *)
(* an operator from the record before the call to the record after it.      *)
(* MosSocketClient.tla turns the methods into the steps of one client;      *)
(* modules that hold several clients use the same operators.                *)
(*                                                                         *)
(* A command is named by its messageID.  Ids come from one growing counter  *)
(* (MosMessage.prepare), so a later command has a larger id.                *)
(*   queue               _queueMessages                                     *)
(*   aged                how many entries at the head of the queue are      *)
(*                       older than _commandTimeout                         *)
(*   callbacks           the keys of _queueCallback                         *)
(*   sent                _sentMessage                                       *)
(*   lingering           _lingeringMessage                                  *)
(*   lingeringCallbacks  the keys of _lingeringCallback                     *)
(*   timers              the armed command timers of executeCommand, each   *)
(*                       with the sentMessageId and isRetry of its closure  *)
(*   poll                whether processQueueTimeout is armed               *)
(*   cleanups            how many timers of _triggerQueueCleanup are armed  *)
(*   timedOut            the keys of _timedOutCommands                      *)
(*   connected, disposed _connected, _disposed                              *)
(*   threw               an exception left the method that ran last         *)
(* Two ghost fields count what the client does to the outside:              *)
(*   calls               how often a command's callback was called          *)
(*   writes              how often a command was written to the socket      *)
(***************************************************************************)
EXTENDS Naturals, Sequences

CONSTANTS
    MaxId,           \* ids are 1..MaxId: bounds the number of commands
    HeartBeats,      \* the commands that are instances of HeartBeat
    Unserialisable   \* the commands whose toString() throws

Id == 1 .. MaxId
Null == 0

ASSUME MaxIdAssumption == MaxId \in Nat
ASSUME KindAssumption == HeartBeats \subseteq Id /\ Unserialisable \subseteq Id

Client == [queue : Seq(Id), aged : Nat, callbacks : SUBSET Id,
           sent : Id \cup {Null}, lingering : Id \cup {Null},
           lingeringCallbacks : SUBSET Id, timers : SUBSET (Id \X BOOLEAN),
           poll : BOOLEAN, cleanups : Nat, timedOut : SUBSET Id,
           connected : BOOLEAN, disposed : BOOLEAN, threw : BOOLEAN,
           calls : [Id -> Nat], writes : [Id -> Nat]]

NewClient == [queue |-> <<>>, aged |-> 0, callbacks |-> {},
              sent |-> Null, lingering |-> Null,
              lingeringCallbacks |-> {}, timers |-> {},
              poll |-> FALSE, cleanups |-> 0, timedOut |-> {},
              connected |-> FALSE, disposed |-> FALSE, threw |-> FALSE,
              calls |-> [i \in Id |-> 0], writes |-> [i \in Id |-> 0]]

Queued(c) == {c.queue[i] : i \in 1 .. Len(c.queue)}
Aged(c)   == {c.queue[i] : i \in 1 .. c.aged}

(* The function f with 1 added at the members of S.                        *)
Bump(f, S) == [i \in Id |-> IF i \in S THEN f[i] + 1 ELSE f[i]]

-----------------------------------------------------------------------------

(* Definitions named ...Mutant are faulty versions of the operator that     *)
(* follows them.  No action uses them: they show which property would catch *)
(* the fault.                                                               *)
ExecuteCommandNoRetryTimerMutant(c, id, isRetry) ==
  LET begun == [c EXCEPT !.sent = id, !.lingering = Null]
  IN  IF c.sent # Null /\ ~isRetry THEN [c EXCEPT !.threw = TRUE]
      ELSE IF id \in Unserialisable THEN [begun EXCEPT !.threw = TRUE]
      ELSE [begun EXCEPT !.timers = IF isRetry THEN @ ELSE @ \cup {<<id, isRetry>>},
                         !.writes = Bump(@, {id})]

(* executeCommand: a write and a timer of its own for every attempt.  The   *)
(* message counts as sent before it is serialised.                          *)
ExecuteCommand(c, id, isRetry) ==
  LET begun == [c EXCEPT !.sent = id, !.lingering = Null]
  IN  IF c.sent # Null /\ ~isRetry THEN [c EXCEPT !.threw = TRUE]
      ELSE IF id \in Unserialisable THEN [begun EXCEPT !.threw = TRUE]
      ELSE [begun EXCEPT !.timers = @ \cup {<<id, isRetry>>},
                         !.writes = Bump(@, {id})]

CallKeepsCallbackMutant(c, S) ==
  [c EXCEPT !.calls = Bump(@, S \cap (c.callbacks \cup c.lingeringCallbacks))]

(* Call the callbacks of the commands S, where there are any.               *)
Call(c, S) ==
  [c EXCEPT !.calls = Bump(@, S \cap (c.callbacks \cup c.lingeringCallbacks)),
            !.callbacks = @ \ S, !.lingeringCallbacks = @ \ S]

(* _sendReply: whatever it settles, nothing is in flight or lingering after. *)
SendReply(c, id) == [Call(c, {id}) EXCEPT !.sent = Null, !.lingering = Null]

RemoveAged(c) == [c EXCEPT !.queue = SubSeq(@, c.aged + 1, Len(@)), !.aged = 0]

(* processQueue, the branch that sends the head of the queue.               *)
SendNext(c) ==
  IF c.queue = <<>> THEN [c EXCEPT !.poll = FALSE]
  ELSE ExecuteCommand([c EXCEPT !.poll = FALSE, !.queue = Tail(@),
                                !.aged = IF @ = 0 THEN 0 ELSE @ - 1],
                      Head(c.queue), FALSE)

(* processQueue, the branch that waits for a connection: the calls it makes *)
(* to itself drop the aged entries one by one, a fresh head is polled for.  *)
(* Calling a callback that is not there is a TypeError.                     *)
DropAged(c) ==
  IF ~(Aged(c) \subseteq c.callbacks) THEN [c EXCEPT !.threw = TRUE]
  ELSE [RemoveAged([c EXCEPT !.calls = Bump(@, Aged(c)), !.callbacks = @ \ Aged(c)])
          EXCEPT !.poll = @ \/ c.aged < Len(c.queue)]

ProcessQueueSendsAnywayMutant(c) ==
  IF c.disposed THEN c
  ELSE LET d == IF c.connected THEN SendNext(c)
                ELSE IF c.queue # <<>> THEN DropAged(c)
                ELSE c
       IN  IF d.threw THEN d ELSE [d EXCEPT !.timedOut = {}]

(* processQueue.  Its last lines compare the key of a _timedOutCommands     *)
(* entry, a message id, with a time of an hour ago: every entry goes.       *)
ProcessQueue(c) ==
  IF c.disposed THEN c
  ELSE LET d == IF c.sent # Null THEN c
                ELSE IF c.connected THEN SendNext(c)
                ELSE IF c.queue # <<>> THEN DropAged(c)
                ELSE c
       IN  IF d.threw THEN d ELSE [d EXCEPT !.timedOut = {}]

QueueCommandAtFrontMutant(c, id) ==
  ProcessQueue([c EXCEPT !.callbacks = @ \cup {id}, !.queue = <<id>> \o @])

(* queueCommand, with the id its call of prepare() has just drawn.          *)
QueueCommand(c, id) ==
  ProcessQueue([c EXCEPT !.callbacks = @ \cup {id}, !.queue = Append(@, id)])

CommandTimeoutStopsMutant(c, id, isRetry) ==
  LET d == [c EXCEPT !.timers = @ \ {<<id, isRetry>>}]
  IN  IF d.disposed \/ d.sent # id THEN d
      ELSE IF isRetry THEN SendReply(d, id)
           ELSE ExecuteCommand(d, id, TRUE)

CommandTimeoutAfterDisposeMutant(c, id, isRetry) ==
  LET d == [c EXCEPT !.timers = @ \ {<<id, isRetry>>}]
  IN  IF d.sent # id THEN d
      ELSE IF isRetry
           THEN ProcessQueue([SendReply(d, id) EXCEPT !.timedOut = @ \cup {id}])
           ELSE ExecuteCommand(d, id, TRUE)

(* The handler of executeCommand's timer, for the attempt that armed it.    *)
CommandTimeout(c, id, isRetry) ==
  LET d == [c EXCEPT !.timers = @ \ {<<id, isRetry>>}]
  IN  IF d.disposed \/ d.sent # id THEN d
      ELSE IF isRetry
           THEN ProcessQueue([SendReply(d, id) EXCEPT !.timedOut = @ \cup {id}])
           ELSE ExecuteCommand(d, id, TRUE)

(* The handler of processQueueTimeout.                                      *)
PollTimeout(c) == ProcessQueue([c EXCEPT !.poll = FALSE])

QueueCleanupKeepsEntriesMutant(c) ==
  LET d == [c EXCEPT !.cleanups = @ - 1]
  IN  IF d.disposed \/ d.aged = 0 THEN d
      ELSE [Call(d, Aged(d)) EXCEPT !.sent = Null, !.lingering = Null]

(* The handler of _triggerQueueCleanup's timer: every aged entry is settled *)
(* with _sendReply and removed.                                             *)
QueueCleanup(c) ==
  LET d == [c EXCEPT !.cleanups = @ - 1]
  IN  IF d.disposed \/ d.aged = 0 THEN d
      ELSE RemoveAged([Call(d, Aged(d)) EXCEPT !.sent = Null, !.lingering = Null])

HandOverQueueKeepsSentMutant(c) ==
  [c EXCEPT !.queue = <<>>, !.aged = 0, !.callbacks = {}, !.poll = FALSE]

(* handOverQueue, what is left behind.  The caller gets queue and callbacks. *)
HandOverQueue(c) ==
  LET keep == c.sent # Null /\ c.sent \in HeartBeats
  IN  [c EXCEPT
         !.lingering = IF keep THEN c.sent ELSE Null,
         !.lingeringCallbacks =
            IF keep THEN @ \cup ({c.sent} \cap c.callbacks) ELSE @ \ {c.lingering},
         !.queue = <<>>, !.aged = 0, !.callbacks = {}, !.sent = Null,
         !.poll = FALSE]

ReplyReceivedAnyIdMutant(c, id) ==
  LET awaited == IF c.sent # Null THEN c.sent ELSE c.lingering
  IN  ProcessQueue(IF awaited = Null THEN [c EXCEPT !.timedOut = @ \ {id}]
                   ELSE SendReply(c, awaited))

(* _onData, a document that carries a messageID.                            *)
ReplyReceived(c, id) ==
  LET awaited == IF c.sent # Null THEN c.sent ELSE c.lingering
      d == IF awaited = Null THEN [c EXCEPT !.timedOut = @ \ {id}]
           ELSE IF awaited = id THEN SendReply(c, id)
           ELSE [c EXCEPT !.cleanups = @ + 1]
  IN  ProcessQueue(d)

(* _onData, a heartbeat without a messageID.                                *)
HeartBeatReceived(c) ==
  ProcessQueue(IF c.sent \in HeartBeats THEN SendReply(c, c.sent) ELSE c)

(* _onData, "Buddy server cannot respond", which carries no messageID.      *)
BuddyNackReceived(c) ==
  ProcessQueue(IF c.sent # Null THEN SendReply(c, c.sent) ELSE c)

(* dispose, as far as the queue is concerned.                               *)
Dispose(c) == [c EXCEPT !.disposed = TRUE, !.connected = FALSE]
-----------------------------------------------------------------------------
(* What holds of a client between any two handlers, when last is the last   *)
(* id that was given to a command.                                          *)

Typed(c) == c \in Client /\ c.aged <= Len(c.queue)

QueueOrdered(c, last) ==
  /\ \A i \in 1 .. Len(c.queue) : c.queue[i] \in c.callbacks /\ c.sent < c.queue[i]
  /\ \A i, j \in 1 .. Len(c.queue) : i < j => c.queue[i] < c.queue[j]
  /\ \A id \in Id, i \in 1 .. Len(c.queue) : c.writes[id] > 0 => id < c.queue[i]
  /\ \A id \in Id : c.writes[id] > 0 => id <= last

CallbacksKept(c, last) ==
  /\ c.sent # Null => c.sent \in c.callbacks
  /\ c.lingering # Null => c.sent = Null /\ c.lingering \in c.lingeringCallbacks
  /\ c.callbacks \cap c.lingeringCallbacks = {}
  /\ \A id \in c.callbacks \cup c.lingeringCallbacks : id <= last /\ c.calls[id] = 0
  /\ \A id \in Id : c.calls[id] <= 1 /\ (c.calls[id] = 1 => id <= last)

AttemptsCounted(c) ==
  \A id \in Id : c.writes[id] <= 2 /\ (<<id, FALSE>> \in c.timers => c.writes[id] = 1)

Consistent(c, last) ==
  /\ Typed(c) /\ QueueOrdered(c, last) /\ CallbacksKept(c, last) /\ AttemptsCounted(c)
  /\ c.threw => c.sent \in Unserialisable
=============================================================================
