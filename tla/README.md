# mos-connection: a verification model

TLA+ modules, TLC runs and TLAPS proofs for `mos-connection`, the TypeScript
library in `src/` that speaks the MOS protocol with newsroom computer systems
(NCS). Paths below are relative to `src/src/`.

## 1. The system and its parts

A `MosConnection` holds one `MosDevice` per peer. A device has one or two
`NCSServerConnection`s (primary and buddy). Each of those has two or three
`MosSocketClient`s, one per port (`lower`, `upper`, `query`), and each of those
one TCP socket and a queue of commands. In the other direction, three
`MosSocketServer`s accept connections, and `MosConnection` routes what arrives
on them to a device. The program is single-threaded: its concurrency is that of
the event loop, that is timers, socket events and promise continuations that
interleave with the calls of the application.

| Component | State | Operations | Talks to | What is hard | What makes it correct |
|---|---|---|---|---|---|
| Command queue, `connection/mosSocketClient.ts` | `_queueMessages`, `_queueCallback`, `_sentMessage`, `_lingeringMessage`, `_lingeringCallback`, `_timedOutCommands`, timers | `queueCommand`, `processQueue`, `executeCommand`, `_sendReply`, `_onData`, `_triggerQueueCleanup`, `handOverQueue`, `dispose` | the peer (socket), callers (callbacks) | timers that are never cancelled, retries, late and id-less replies, handover with a reply outstanding | every command is settled exactly once, in order, one at a time |
| Reconnection, same file | `_connected`, `_shouldBeConnected`, `_lastConnectionAttempt`, `_reconnectAttempt`, `_connectionAttemptTimer`, `_client` | `connect`, `_autoReconnectionAttempt`, `_onConnected`, `_onClose`, `dispose` | the socket | throttle against retry interval, attempts counted and reset from several places | keeps trying until connected or disposed, within the limit; no socket after `dispose` |
| Framing, same file and `MosConnection.ts` | `dataChunks`, `chunks` | `_onData`, the `data` handler of an incoming socket | the socket | documents split over packets, several documents in one packet, reconnection in the middle | each document is parsed once and whole |
| Connection to a server, `connection/NCSServerConnection.ts` | `_clients`, `heartbeatConnected`, `_emittedConnected`, `_heartBeatsTimer` | `executeCommand`, `_sendHeartBeats`, `handOverQueue`, `receiveQueue`, `dispose` | its clients, its device (`connectionChanged`) | the heartbeat loop goes on only if every heartbeat is settled | `connected` follows the peer; the loop never stops before `dispose` |
| Failover, `MosDevice.ts` 1210-1288 | `_currentConnection` | `executeCommand`, `switchConnections`, `switchConnectionsAndExecuteCommand`, `_ensureReply` | two `NCSServerConnection`s | awaits between the connected check, the failure and the switch; several commands failing at once | every command is answered once; the device ends up on a connection that works |
| Dispatch, `MosDevice.ts` 271-689 | the `_callbackOn...` fields | `routeData`, `on...`, `_checkProfileValidness` | the application | order of the branches, missing callbacks, paused `mosReqAll` | each message reaches the callback of its kind |
| Registry, `MosConnection.ts` | `_mosDevices`, `_ncsConnections`, `_incomingSockets` | `connect`, `_registerMosDevice`, `disposeMosDevice`, `dispose`, `_registerIncomingClient` | devices, socket servers | a device under two keys, registration across an await | a disposed device is gone, a known peer has one device |
| Socket server, `connection/mosSocketServer.ts` | `_connectedSockets` | `listen`, `_onClientConnection`, `dispose` | `MosConnection` | an error after listening | `dispose` closes every socket |
| Message ids, `mosModel/MosMessage.ts` | `_messageID` | `getNewMessageID`, `prepare` | all queues | the wrap at 2^31-2 | no two live commands share an id |
| Configuration, `config/connectionConfig.ts` | `_profiles` | the `profiles` setter | `MosDevice` | profile dependencies stated twice | both statements agree |
| Messages, parsers and data types, `mosModel/`, `dataTypes/`, `utils/Utils.ts` | none | conversions | everything | repeated and missing elements | parsing what was written gives it back |
| `connection/Server.ts`, `api.ts` | - | unused, declarations | - | - | - |

`PROJECT.json` lists the components with their status, and the hazards: the
lines of this code where a test would hardly reach the failing schedule.

How the modules depend on each other (an arrow reads "extends" or "instantiates"):

```
SocketClient <- MosSocketClient -> CommandLifecycle
             <- Failover -> CommandPromise      <- MCFailover
SocketReconnect <- MCSocketReconnect        Heartbeats
MosMessages, NativeType <- Dialogue, ObjectTransfer <- MCDevice
Registry, Listening <- MosConnection
NativeType <- XmlObjects <- Documents (-> Dialogue), Framing <- MCReading
MessageIds, Profiles <- MCSetup

SocketClient <- SocketClient_proofs <- MosSocketClient_proofs, Failover_proofs
SocketReconnect_proofs, Heartbeats_proofs     extend the module of that name
Dialogue, ObjectTransfer <- Device_proofs     MosConnection, Profiles <- MosConnection_proofs
Framing, Documents, MessageIds <- Messages_proofs
```

## 2. The modules

Definitions have the names of the code where TLA+ allows it. Those whose name
ends in `Mutant` are faulty versions of the definition that follows them, one
for each property: no action uses them, and the property is violated when the
definition is replaced by its mutant.

### `SocketClient.tla`: the methods of one queue

A record holds the private fields of a `MosSocketClient`, and every synchronous
method is an operator from the record before the call to the record after it
(`QueueCommand`, `ProcessQueue`, `ExecuteCommand`, `CommandTimeout`,
`QueueCleanup`, `HandOverQueue`, `ReplyReceived`, ...). What a method calls is
part of its operator: `QueueCommand` ends in `ProcessQueue`, a reply settles the
command and sends the next one. An exception inside a method is the field
`threw`. The methods are operators of a record, and not actions, because later
modules hold several clients whose methods are called in one step (a handover
empties one queue and fills another).

| Field | Code |
|---|---|
| `queue` | `_queueMessages`, by message id |
| `aged` | how many entries at the head of the queue are older than `_commandTimeout` |
| `callbacks`, `lingeringCallbacks` | the keys of `_queueCallback`, `_lingeringCallback` |
| `sent`, `lingering` | `_sentMessage`, `_lingeringMessage` |
| `timers` | armed timers of `executeCommand`, with the `sentMessageId` and `isRetry` they close over |
| `poll` | `processQueueTimeout` is armed |
| `cleanups` | armed timers of `_triggerQueueCleanup` |
| `timedOut` | the keys of `_timedOutCommands` |
| `connected`, `disposed` | `_connected`, `_disposed` |
| `calls`, `writes` | ghost: how often each callback was called, each command written |

### `MosSocketClient.tla`: one client at work

Every action is one callback of the event loop. `Queue` is the caller
(`NCSServerConnection.executeCommand`), `HandOver` and `DisposeClient` the
device; `CommandTimer`, `PollTimer`, `CleanupTimer` are the timers; `Age` is the
clock; `Connected` and `Closed` are the socket; `Reply`, `HeartBeatReply`,
`BuddyNack` and `OtherReply` are what `_onData` does with a whole document.

- *Time.* An armed timer may fire at any later moment and an entry of the queue
  may become older than `_commandTimeout` at any moment, oldest first, since
  entries are stamped when they are appended. No schedule of the real clock is
  excluded; some that it excludes are allowed (a timer that fires early).
- *Peer.* It answers what was written to it: `owed` counts the copies of each
  command it has received and not answered, so a retried command has two. It
  answers in any order, with or without a message id, or not at all. A reply to
  something that was never sent is not modelled.
- *Exceptions.* `Queue` runs in the executor of a promise, which turns an
  exception into a rejection. In a timer or socket callback an exception ends
  the process: nothing happens after it (`Running`). (The `try` of `_onData`
  covers the parsing and not the `processQueue` at its end.)
- *Left out.* The bytes (`Framing.tla`), reconnection (any order of `Connected`
  and `Closed` is possible; which ones happen is in `SocketReconnect.tla`), the
  events a client emits.

### `CommandLifecycle.tla`: what a client promises

The abstract specification. Each command moves along
`new -> queued -> inFlight -> settled`, may be handed over, may linger (a
heartbeat whose reply is awaited after a handover), and may be `orphaned`: its
callback is kept, but it is neither queued nor in flight. A settled command
stays settled; one command is in flight at a time; commands start in the order
of their ids. `ImplementsLifecycle` is the refinement: `StatusOf` reads the
status of a command off the fields of the client.

### `Failover.tla`: a device with two connections

The state is one record, `device`: the current connection, the `SocketClient`
record of each connection (the client of the port the commands use), which
connections are up, and for each command of the application where its
`executeCommand` stands: the id whose promise it awaits and whether it is a
resend. The methods are operators again, so that one step can run all of
`switchConnectionsAndExecuteCommand`: switch, empty one queue, fill the other,
queue the failed command.

| Definition | Code |
|---|---|
| `Execute`, `Send`, `Continue` | `MosDevice.executeCommand` before and after its `await` |
| `SwitchAndSend`, `CanSwitch`, `SwitchConnections` | `switchConnectionsAndExecuteCommand`, `switchConnections`, `NCSServerConnection.handOverQueue` |
| `QueueOn` | `NCSServerConnection.executeCommand`: `prepare()` and `queueCommand` |
| `ReceiveQueue`, `Forward`, `CallBack` | `receiveQueue`: its loop, queueing one message again, and the `then` handlers |
| `Request`, `Answer`, `CommandTimer`, `PollTimer`, `Socket`, `HeartBeatOutcome`, `ConnectionChanged` | the callbacks of the event loop |
| `RunJob` | one promise continuation |

- *The option.* With `OffspecFailover` the device goes back to a primary that is
  announced again. A primary whose change is never announced behaves as without
  the option, so `TRUE` covers both.
- *Promises.* A handler of a client settles promises (`jobs`); their
  continuations run before the next callback of the event loop (`Idle`), in any
  order, since some are nested deeper than others.
- *Scope.* `ScopeAssumption`: none of the commands is a heartbeat, and all of
  them can be serialised; both are subjects of `MosSocketClient`.
- *Ids.* `latest` is the id in the message object, which every `prepare()`
  overwrites; `tables` are the keys of the callbacks that `handOverQueue` passed
  on. `receiveQueue` looks in that table under the *new* id: the model does the
  same, and never finds it.
- *Reductions.* Timers of commands that are no longer in flight are dropped:
  their handler does nothing, since an id is never drawn twice. Heartbeats are
  seen by their outcome only (`up` changes at any time) and do not take places
  in the queues. Replies to anything but the command in flight are left to
  `MosSocketClient`, and with them the cleanup.

### `CommandPromise.tla`: what a device promises

Each command moves from `new` over `waiting` to `resolved` or `rejected`, once.
It may instead become `lost`: its caller waits for a promise that nothing will
settle. The specification allows that only in a step in which the device
switches connections, and for good. `ImplementsPromise` is the refinement.

### `SocketReconnect.tla`: getting a socket, and getting it back

The fields of `mosSocketClient.ts` that concern the socket: `connected`,
`shouldBeConnected`, `interval` (the `setInterval` of
`_connectionAttemptTimer`, as the time since it fired), `attempt`, `since` (the
time since `_lastConnectionAttempt`) and the state of the `net.Socket`. Actions:
`Connect`, `Fire` (`_autoReconnectionAttempt`, with the cases `Retry`, `GiveUp`
and `IdleInterval`), `Connected`, `Close` (`_onClose`, which connects and arms
the interval again), `LateClose` (the close event of a socket that `dispose()`
has already dropped) and `Dispose`.

Time is counted here, since a throttle (`since < Delay`) races with an interval
of the same length. `TimePasses` advances all clocks by one; a timer that is due
fires at most `Late` later. `since` stops counting at `2 * Delay + Late`, where
nothing distinguishes it any more. Options do not change after construction.

### `Heartbeats.tla`: the loop of an `NCSServerConnection`

Rounds of heartbeats, one to each client (`_sendHeartBeats`). A settled heartbeat
and its promise reactions are one step (`RoundBeat`), since the reactions run
before the next callback. `Throws` is what makes the loop hard: the emit of an
error throws when nobody listens, and so may any listener. A round that fails
this way goes through `.catch` *and* `.then`, each of which arms the timer, but
`_heartBeatsTimer` remembers one; `forgotten` counts the other. `sound` says that
somebody listens to errors and no listener throws. `late` counts heartbeats that
are settled after the round they belong to has failed. That a heartbeat is
settled at all is what `MosSocketClient` shows of a client.

### `MosMessages.tla`, `Dialogue.tla`: one request and its reply

`MosMessages` has one definition for each message class (port, tag, the attribute
that names the operation, the tag below `element_source`), one table row for each
branch of `MosDevice.routeData` in its order, and for each send method the
message it sends and the reply it understands. `Dialogue` runs them against each
other: `Ask` (a send method), `Receive` (the first row that takes the message and
whose callback is set), `Return` (the callback resolves, rejects, returns null or
a list), `Settle` (`_ensureReply` and the rest of the send method). `given` is
what the callback got; how the elements get there from the XML is `reads` of the
row. A request is an operation with its elements, which may be none where the API
takes an array (`RequestsAssumption`). Exchanges share nothing but the callbacks, so one at a time is enough; the
user sets the callbacks in any order, and at most one is still missing.

What parsing does to the elements is part of `reads`. `Native` (`NativeType.tla`)
is the option `nativeType` of `Utils.ts:25`: a text that reads as a number or a
boolean becomes one, and is written in its own way when the text is asked for
again. Which texts these are, and what each is written as, is the constant
`Rewritten`: TLC has `007` for 7 and zeros for 0, the proofs hold for any.
`BecomesText` is the level that gets lost when an `element_source` has one element
with one text below it: an id, or a story of `Bare`, which has nothing but its
ID; `xml2Stories` then reads the ID `undefined` of a text. Stories and items are
known by their ids; an item always has more than one.

### `ObjectTransfer.tla`: `mosReqAll`

What goes on after the exchange: with a pause, one `mosObj` after another, each
sent by a timer that the reply before it has armed; without, one `mosListAll`.
Several transfers run at a time over arrays in memory that the application may
have handed out twice (`shared`).

| Definition | Code |
|---|---|
| `AskForAll`, `Begin` | the row of `mosReqAll`, its `setImmediate` |
| `SendNextObject` | `sendNextObject`: the object is taken out of the array *before* it is sent |
| `BeginList` | `_sendAllMOSObjects`, which keeps a reference to the array |
| `Execute` | `executeCommand`: it rejects at once where no connection is up |
| `GetsThrough` | the client writes the message and the peer gets it; a list is serialised here, from the array as it is by then |
| `Reply`, `Fails` | the promise of the send resolves; or it rejects, by a timeout or a refusal |
| `Loses` | a handover or a cleanup forgets the command |
| `Dispose` | the connections are disposed: their callbacks and timers do nothing any more |

`received` is what has got through to the peer, which the sender does not know. A
message may get through and still fail (the reply is late), and may be forgotten
and still get through (it was queued again on the other connection). A transfer
whose promise was forgotten, or that waits when the connections are disposed,
waits for ever. The test of `_disposed` in line 309 of `MosDevice.ts` stops
nothing, since nothing sets that field of a device: what stops a transfer between
two objects is that the next send rejects.

`MCDevice.tla` gives TLC both: the variable `part` says whether a behaviour is a
dialogue or has transfers, and the other part stays in its initial state. They
have no variable in common, so a product of the two would show nothing more.
`MCReading` and `MCSetup` are built the same way.

### `Registry.tla`, `Listening.tla`, `MosConnection.tla`

`Registry` is `_mosDevices`: `register` maps the id of a peer to its device,
`RegisterDevice` is `_registerMosDevice` (by `connect()` or, with `openRelay`, by
a message of an unknown peer), `Disposing` and `Forget` are `disposeMosDevice()`
before and after its `await`: in between, devices may be registered and disposed
again. `Listening` is `init()`, the servers it makes, their sockets, and the
socket and server part of `dispose()`. `listen()` binds the port in the call;
`close()` frees it in the call and is done with the last connection; another
process may hold a port at first. `MosConnection` composes the two: `dispose()`
is a step of both (`CloseAll /\ DisposeAllDevices`), a relayed message needs an
open socket, and `Disposed` waits for what both have to finish.

### `Framing.tla`: documents in a byte stream

A document is seven pieces (`<m`, `os>`, text, white space, text, `</m`, `os>`),
and a packet ends after any of them, so that tags are cut, documents share a
packet and white space comes to an end of it. `OnData` is `_onData` and the
`data` handler of `_registerIncomingClient`; `side` says which. `Reconnect` loses
the rest of the document: the client keeps its buffer, an incoming connection is
a new socket.

### `XmlObjects.tla`, `Documents.tla`: what the parsers read

`XmlObjects` is `Utils.ts`: `Compact` is `concatChildrenAndTraverseObject` with
its four ways to fold children (`FoldOne`, `FoldSame`, `FoldUnique`,
`FoldMixed`), `XmlToObject` its short cut, and `String128`, `AsArray`,
`ObjectPath` what the `fromXML` functions make of the result. Both functions of
the code recurse; here one call is an operator that is given the results for the
children (`Compact`, `ObjectOf`), and the recursion is written out for the three
levels of these documents: `FieldNode`, `ElementNode` and `ParentNode`. What the
code collects by pushing and filtering is selected by position (`InOrder`,
`Selected`), so that a list that was sent and the list that was read can be
compared place by place. `FoldText` converts the text it is given (`Native`).
`Documents` enumerates elements child by child, in four places: alone in their
parent, among others, next to a twin, and both. It compares what is read with
what was written. `KeepsItsLevel` says where the element is there to be read: not
where it is alone and has one text, since it then *is* that text, nor where it is
one of twins and was replaced by what is below it. Its
`NamesAssumption` says that ids and paths have none of the names that the folding
gives to properties of its own (`text`, `attributes`, `$name`, ...): the protocol has
no such tags for them.

`Dialogue` has a shorter statement of the same (`ReadIds`, `SourcePresent`,
`BecomesText`); `DialogueReadsAlike` says that it agrees with the whole way
through `Xml2js`.

### `MessageIds.tla`, `Profiles.tla`

`MessageIds`: the static counter, and the commands that hold an id while it goes
on and wraps. `Window` is how many ids may be drawn during the life of a command.
`Profiles`: the setter of `ConnectionConfig`, which sets one profile after the
other and may throw in the middle, the copies of `MosConnection` and `MosDevice`,
and the strict check, which states the dependencies a second time.

## 3. The runs

| Run | Instance | States | Question |
|---|---|---|---|
| `client_safety` | 3 commands, the second a heartbeat, 1 cleanup timer, with fairness | 45 032 | Is a command settled at most once, in order, one at a time, by its own reply, and settled in the end, whatever timers, peer and connection do? |
| `client_tracking` | 4 commands, the second a heartbeat, the last unserialisable | 215 228 | Can any handler but the cleanup leave the queue without a driver, or a command without anything that will settle it? |
| `client_cleanup_deadlock` | 4 commands, with fairness | violated | Does the cleanup prevent a deadlock, as its comment says? |
| `client_lingering` | 2 commands, the first a heartbeat | violated | Do heartbeat replies come through after a handover, as the change log says? |
| `failover_promise` | 2 interchangeable commands, 5 ids, `offspecFailover` | 4 197 568 | Does the device lose commands only when it switches? Is a message ever in two queues? |
| `failover_liveness` | 1 command, 4 ids, with fairness | 52 576 | Does a command that is not lost end? |
| `reconnect` | delay 4, timers up to 2 late; no limit, limit 2, limit -1, no automatic reconnection | 858 | Is a client that is down back in time, a silent server given up, a disposed client down for good? |
| `heartbeats` | 2 clients, up to 2 late heartbeats each, sound listeners or not | 1 816 | Do rounds overlap or outlive `dispose()`? Is every change announced, does the loop go on? |
| `device` | every operation, none to 2 elements with the ids `007`, `00` and bare stories among them, at most one callback missing; 3 transfers of 3 objects, one array or three, a disposal | 236 764 | Does a resolved promise tell the truth, a rejected one that nothing was done, and does everything end? |
| `connection` | 2 peers, 2 devices, 2 disposals at a time, 2 ports, 1 socket, 2 calls of `init()` | 1 288 995 | Is every live device found and every disposed one gone? Does `dispose()` end, and release everything? |
| `reading` | 3 documents of 7 pieces; elements of up to 3 children of 3 names and 4 texts (empty, plain, `007`, `FALSE`) in 4 places | 70 823 | Is what is read what the peer has written, however it was cut and whatever its shape? |
| `setup` | profiles 0, 1, 2, 3 and 5; 7 ids, commands up to 6 ids old | 1 163 | Do profiles keep their dependencies, are ids unique over the wrap? |

The type invariants are parts of the invariants that the runs check
(`InductiveInv`, `ClientsConsistent`, `EveryObjectIsSent`, `RegistryConsistent`,
`ListeningConsistent`, `DeliveredIsSent`) or proved (section 4).

*Bounds.* `MaxId` bounds the commands of a behaviour. Three make the cases that
matter for safety happen: one in flight, one that timed out before it and whose
reply is late, one queued behind; the heartbeat in the middle lets a handover
keep one. A stalled queue needs four: one answered late, one in flight, one
aged, one fresh. `MaxCleanups` bounds the cleanup timers armed at a time: each
does the same to the queue. In `Failover` an id is drawn for every send: two
commands that fail together, each sent again, and one of them handed over draw
five. The behaviour ends where a step would draw more; `OutOfIds` names that end
in the liveness property. `failover_promise` uses the symmetry of the commands:
no definition tells them apart, and its properties quantify over all of them.
Two devices over two peers make a device with a secondary and its successor, two
disposals the one that ends after the successor is there; two calls of `init()`
a retry; one socket suffices, as sockets do not concern each other and the wait
for the last one is the wait for one. Three documents make one that is lost in
the middle, one joined to it and one after. Three children make the only child,
children of one name, of different names, and the mix. Two texts that are
converted make one that only looks different and one that is falsy. Three
transfers over three objects let one take an object down with it while another
goes on and a third finds none. Timers late by half of
the delay fall on both sides of the throttle. `MAX - 2` is the largest window for
which ids can be unique. What is bounded nowhere: the steps of sockets, of the
clock and of listeners.

*Fairness.* Weak fairness on every timer and on the passing of time (`FairSpec`
of `MosSocketClient` and `Heartbeats`, `TimerSpec`): Node runs its timers. On
promise continuations (`RunJob`, `Forget`, `InitSettles`). On the settling of a
command in `Heartbeats` (answered or timed out: a result of `MosSocketClient`,
with the exceptions it names). In `ObjectTransfer` (`TransferFairness`) on the
timers between two objects, and on what becomes of a command: it is answered, it
times out, or it is forgotten (`Loses`). That is all the code guarantees, so the
liveness property excepts a transfer whose command was forgotten; and nothing
settles after `Dispose`, so it excepts one that waits by then. On the receiving device in
`Dialogue`: it reads what comes in and its callbacks settle. In `MosConnection`
on what the process asked the operating system for, but nothing is assumed of
the peers, which may keep their connections for ever. `EventuallyConnected` has
strong fairness of `Connected` as its premise: the server accepts in the end.

*Exceptions.* The properties hold, of the code as it is. Where the code does not
do what one would state at first, the property names the exception. The next two
subsections list these.

### What the runs show of commands

`EveryCommandSettles` has three exceptions: a disposed client drops its callbacks
without calling them, an unserialisable command blocks the line, and a cleanup
may orphan the command in flight or stall the queue. The last one contradicts the
comment in line 461 of `mosSocketClient.ts` ("prevent deadlock") and is the
finding of `client_cleanup_deadlock`:

1. a command times out, the next one is sent, a third and a fourth are queued;
2. the reply of the first arrives: its id differs, and a cleanup is armed;
3. when it fires, the third entry has aged, the fourth has not. `_sendReply`
   settles the third and sets `_sentMessage` to null, although the second is in
   flight: its timer will do nothing, its promise stays pending;
4. the cleanup does not call `processQueue`, and the fourth stays in the queue
   until someone queues another command or the peer sends something.

`client_lingering` shows that the reply to a heartbeat that was in flight during
a handover does not always come through: the next command the client sends makes
it forget the heartbeat (line 258; CHANGELOG.md:187 says otherwise). Its callback
stays in `_lingeringCallback` and nothing times it out, so the heartbeat loop of
that connection ends.

`TimedOutTableIsEmpty` (proved, section 4) states what line 162 amounts to: it
compares the *key* of an entry, a message id below 2^31, with a time in
milliseconds of an hour ago, so the table of timed out commands is emptied in the
call that fills it, and the branch that recognises late replies is never taken.

`ImplementsPromise` says where the device loses commands, not that it does not.
It loses them at every switch:

- the command in flight on the connection that is left: `handOverQueue` empties
  `_queueCallback` and forgets `_sentMessage`, and only queued messages are
  queued on the other connection;
- every queued command: it is sent on the other connection, but the reply finds
  no callback, because `receiveQueue` looks it up under the id the message was
  given by the second `prepare()`.

Their promises stay pending. The comment in line 208 of `MosDevice.ts` ("and hope
no current message goes lost") shows that this is known for the first kind. When
two commands fail in the same step (both aged in the queue of a closed socket),
the first switches, and the second switches back and so loses the first one's
resend.

### Exceptions that properties name

| Where | What the code does | What it is compared with | Named in |
|---|---|---|---|
| `mosModel/profile2/roActions.ts:77`, `:176` | `ROReplaceItems` writes the operation `INSERT`, `ROSwapItems` writes `DELETE`: the other side inserts, or deletes, the items | `api.ts:290`, `:368` | `Misrouted` |
| `MosDevice.ts:527` | a `roStoryMove` calls the callback that deletes | `api.ts:323` | `Misrouted` |
| `MosDevice.ts:425` | of several stories in a `roStoryInsert`, the callback gets one | `api.ts:251` | `Mangled` |
| `utils/Utils.ts:53`, `mosModel/profile2/xmlConversion.ts:143` | one story in an `element_source` that has nothing but its ID is folded into a text: the callback gets a story with the ID `undefined`, and the message is acknowledged | `api.ts:251` | `Mangled` (`BecomesText`) |
| `utils/Utils.ts:25` | ids that look like numbers or booleans are converted: `007` arrives as `7`, in both directions | `api.ts:303` | `ResolvedMeansDone`, `IdsAreRead` (`Natives`) |
| `MosDevice.ts:516` | a message with the single id 0 or false is taken for one without ids | `api.ts:303` | `SourcePresent` |
| `MosDevice.ts:617` | the ids of a `mosItemReplace` are not those that were sent | `api.ts:409` | `Mangled` |
| `MosDevice.ts:786` | `requestAllMOSObjects` rejects the `mosAck` that its own counterpart sends | `api.ts:106` | `RejectedMeansNotAccepted` |
| `MosDevice.ts:858` | a running order that is not there rejects, instead of `null` | `api.ts:176` | `ReplyOf` |
| `mosModel/profile1/xmlConversion.ts:103` | fewer than two search groups end in an internal error | `Profile3.spec.ts:286` | `Unreadable` |
| `mosModel/profile4/ROListAll.ts:24` | running orders of a `roListAll` are written next to an empty `<ro>` | `api.ts:517` | `ResolvedMeansDone` |
| `MosDevice.ts:310` | a paused `mosReqAll` empties the application's own array: requests that share it divide the objects | `api.ts:98` | `EveryObjectIsSent` (`shared`) |
| `MosDevice.ts:310` | the object is taken out before it is sent: with a send that is refused, times out or is forgotten it is gone, and the transfer ends | `api.ts:98` | `EveryObjectIsSent` (`Loss`) |
| `MosDevice.ts:309`, `connection/mosSocketClient.ts:270` | a transfer that waits for a reply when its connections are disposed, or its command is forgotten, waits for ever | line 309 | `TransfersEnd` |
| `connection/mosSocketClient.ts:290` | with a limit of -1, "no reconnection", a close still reconnects | its comment, line 291 | `ClosedStaysClosed` (`Connect`, `Close`) |
| `connection/NCSServerConnection.ts:265` | if nobody listens to errors, a failed round compares nothing: a loss may never be announced | `api.ts:60` | `ChangesAreAnnounced` (`sound`) |
| `connection/NCSServerConnection.ts:271` | a listener of `connectionChanged` that throws ends the heartbeats | `api.ts:60` | `HeartbeatsGoOn` (`stopped`) |
| `MosConnection.ts:245` | the second key of a device with a secondary stays behind | its comment, line 174 | `DisposedDevicesLeave` |
| `MosConnection.ts:246` | a second disposal of one device deletes the key of its successor | line 218 | `LiveDevicesAreListed` (`hasty`) |
| `MosConnection.ts:330` | an `init()` after a failed one loses the servers that were open | line 174 | `DisposeReleases` (`careless`) |
| `MosConnection.ts:389`, `mosSocketClient.ts:350` | documents that share a packet are lost; a tag cut in two is not recognised | line 380; line 351 | `ReceivedIsDelivered` (`mistaken`) |
| `connection/mosSocketClient.ts:333` | white space where a packet ends is lost from the text | line 351 | `DeliveredIsUnchanged` (`trimmed`) |
| `dataTypes/mosString128.ts:16`, `utils/Utils.ts:105` | an id 0 or false among several is read as JSON; empty elements among several are undefined | `mosString128.spec.ts:8`, `Utils.spec.ts:50` | `IdsAreRead` |
| `utils/Utils.ts:191` | two paths of one type are lost on the way through `xmlToObject` | line 188 | `PathsAreRead` (`Distinct`) |

Met while modelling and outside of any property: the query port of the secondary
depends on the option of the primary (`MosConnection.ts:135`), the options of a
relayed device are dropped (`:455`), `isListening` is never reset (`:61`); a
second, shorter list of profiles removes none (`connectionConfig.ts:70`,
`api.ts:679`); `isNCS` is not copied (`connectionConfig.ts:53`), so a device is
never of the type `NCS`; the first message id is 2 (`MosMessage.ts:22`).

## 4. What is proved

Every safety property of a passing run is also a theorem, for all values of the
constants. The assumptions on the constants are
in the modules that declare them, and TLC evaluates each in a run. Most say that
a bound is a number; the others are `KindAssumption` (client), `DeviceAssumption`
and `ScopeAssumption` (failover), `OptionsAssumption` (reconnection),
`ClientsAssumption` (heartbeats), `WindowAssumption` (ids), `ProfilesAssumption`,
`ListsAssumption`, `RequestsAssumption`, `SupportedAssumption` (dialogue),
`TransfersAssumption` (transfers), `PeersAssumption` (registry) and
`NamesAssumption` (documents) and `RewrittenAssumption` (conversion: what is
converted is neither empty nor 0 or false already, and is written as some text).
Eight modules
hold the proofs; the lemmas about the methods of a client, `SocketClient_proofs`,
serve two of them.

| Module | Theorem | States |
|---|---|---|
| `MosSocketClient_proofs` | `ClientStaysConsistent` | `Spec => []InductiveInv` |
| | `TypeCorrect` | `Spec => []TypeOK` |
| | `SettledAtMostOnce` | `Spec => []AtMostOnce` |
| | `NeverThrows` | `Spec => []NeverThrowsUnlessUnserialisable` |
| | `WrittenInOrder` | `Spec => []FirstInFirstOut` |
| | `AwaitsOneReply` | `Spec => []OneAwaited` |
| | `AlwaysTimesOut` | `Spec => []InFlightCanTimeOut` |
| | `NothingIsLookedUp` | `Spec => []TimedOutTableIsEmpty` |
| | `RepliesAreNotMixedUp` | `Spec => RepliesSettleTheirCommand` |
| | `DisposedForGood` | `Spec => DisposedIsSilent` |
| | `ClientImplementsLifecycle` | `Spec => ImplementsLifecycle` |
| | `HandlersKeepTrack` | `Spec => OnlyCleanupLosesTrack` |
| `Failover_proofs` | `ClientsStayConsistent` | `Spec => []ClientsConsistent` |
| | `MessagesHaveOneCopy` | `Spec => []OneCopyOfAMessage` |
| | `SettledAreAwaited` | `Spec => []SettledPromisesAreAwaited` |
| | `DeviceImplementsPromise` | `Spec => ImplementsPromise` |
| `SocketReconnect_proofs` | `TypeCorrect` | `Spec => []TypeOK` |
| | `RetriesAreInTime` | `Spec => []RetriesInTime` |
| | `DisposedIsDown` | `Spec => []DisposedStaysDown` |
| | `ClosedIsClosed` | `Spec => ClosedStaysClosed` |
| `Heartbeats_proofs` | `TypeCorrect` | `Spec => []TypeOK` |
| | `RoundsAreSeparate` | `Spec => []RoundsDoNotOverlap` |
| | `DisposedIsQuiet` | `Spec => NoRoundAfterDispose` |
| `Device_proofs` | `ObjectsAreSent` | `TransferSpec => []EveryObjectIsSent` |
| | `ResolvedIsDone` | `Spec => []ResolvedMeansDone` |
| | `RejectedIsNotAccepted` | `Spec => []RejectedMeansNotAccepted` |
| | `ValidIsSupported` | `Spec => ValidMeansSupported` |
| `MosConnection_proofs` | `RegistryIsConsistent` | `Spec => []RegistryConsistent` |
| | `ListeningIsConsistent` | `Spec => []ListeningConsistent` |
| | `DisposeDoesRelease` | `Spec => []DisposeReleases` |
| | `ProfilesTypeCorrect` | `ProfilesSpec => []ProfilesTypeOK` |
| | `DependenciesAlwaysHold` | `ProfilesSpec => []DependenciesHold` |
| | `CopyIsAlwaysAccepted` | `ProfilesSpec => []CopyIsAccepted` |
| `Messages_proofs` | `DeliveredIsWhatWasSent` | `FramingSpec => []DeliveredIsSent` |
| | `ReceivedIsPassedOn` | `FramingSpec => []ReceivedIsDelivered` |
| | `DocumentsAreWritten` | `DocumentsSpec => []DocumentsTypeInv` |
| | `IdsAreAlwaysRead` | `DocumentsSpec => []IdsAreRead` |
| | `DialogueAlwaysReadsAlike` | `DocumentsSpec => []DialogueReadsAlike` |
| | `PathsAreAlwaysRead` | `DocumentsSpec => []PathsAreRead` |
| | `IdsTypeCorrect` | `IdsSpec => []IdsTypeOK` |
| | `LiveIdsAreUnique` | `IdsSpec => []IdsAreUnique` |

*The client.* That a callback is called once needs that the callbacks kept and
the calls made never overlap; that needs that the queued commands are exactly
younger than what was sent, since an id that came back would be called again; and
that needs that the queue is sorted and bounded by the last id drawn.
`Consistent` collects these facts, in four parts named `Typed`, `QueueOrdered`,
`CallbacksKept` and `AttemptsCounted`. The proof follows the calls of the code:
one lemma per operator says that it maps a consistent record to a consistent
record (`SendReplySound`, `ProcessQueueSound`, ...), so a lemma about
`ProcessQueue` is used wherever the code calls `processQueue`. The invariance
proof then has one step per action.

About steps: lemmas say which fields each operator leaves alone, `Steady` what
every handler does: it calls no callback but the one it names, and nothing once
disposed. `TimersInv` strengthens `InFlightCanTimeOut`: a disposed client is not
connected (so it cannot send), the command in flight has its timer, and the table
of timed out commands is empty.

The refinement: `Life` reads the status of a command off any client record.
`Places`, from `Consistent`, says that the queue, the command in flight and the
two tables of callbacks never hold the same command in two roles; so a lemma per
kind of change (`SendMoves`, `DropMoves`, `SettleMoves`, `FrameMoves`) can say
which commands move and how. The handlers compose them: first they settle at most
the awaited command (`Settles`), then `processQueue` sends or drops (`Sends`),
and since these are different commands a handler makes one move per command
(`ThenProcessQueueMoves`). A new command could be queued and dropped in one step,
which the life cycle forbids: `QueueMoves` shows that it cannot, since an entry
that was just appended is not aged. `InFlightInOrder` gives the order in which
commands start. `HandlersKeepTrack` adds to this that every method that ends in
`processQueue` leaves a queue that is empty, or has a command in flight, or has
the poll timer armed; the cleanup is the one that does not end in it.

*Failover.* A queue and a table of callbacks move from one client to the other
while promises that the device has settled wait for their continuations.
`DeviceInv` says where an id can be: its callback is in one client or its promise
among the jobs, never in two places (`InOnePlace`); what is somewhere is there
under the id the message has now (`PendingIsLatest`), which makes the comparisons
of timers and replies mean the message they look at; the callbacks handed over
with a message are of older ids (`TablesAreOlder`), which is why `CallBack` finds
none under the new one; and a command that waits awaits an id of its own
(`CallsAwaitTheirs`, `PendingIsAwaited`). Inside of a step the id that is being
drawn is excepted: the `x` of `DeviceInv(d, x)`. The methods of the clients come
in through one lemma, `TurnedKeeps`, and `Answers`, which says which callbacks a
method calls. `receiveQueue` is a loop, and `ReceiveQueueKeeps` an induction over
the queue: after `n` messages the invariant holds and the rest of the queue is
still pending nowhere (`Received`, `HandedOver`). For the refinement `Follows`
says what a step does to every command: the one that acts moves as
`CommandPromise` allows (`Ends`), all others keep their promise, or lose it in a
step that switches.

*Reconnection.* That two attempts are never `2 * Delay + Late` apart is not
inductive: it depends on when the interval fires next. `IntervalFollows` says
that while the client is down the interval is armed, and its time runs less than
one delay behind the time since the last attempt; `DisposedIsOff` and
`DroppedIsDisposed` that no socket of a disposed client can bring it back.

*Heartbeats.* Rounds do not overlap because a timer is only armed while no round
is open (`Timers`), at most one armed timer is forgotten (`TypeOK`), and a client
owes no more late heartbeats than there were failed rounds (`LateOK`,
`RoomForLate`, `Fresh`).

*Dialogue.* Most of it is a statement about tables: whatever row can take the
message of an operation calls the callback that the operation is carried out as,
and replies what it understands (`Agree`). `EachTableAgrees` checks every
operation against every row, and `TablesAgree` puts the tables together. Nothing
is known of `Rewritten` there: what is read is compared with `Natives` of what was
sent, so the theorem holds of any conversion.
`ExchangeInv` then follows the exchange phase by phase: that a row has been chosen
(`RouteFacts`), what it has read (`ReadArrives`), what was replied (`ReplyFacts`).
`ValidIsSupported` needs `SomeRowFor`, the converse: every operation has a row,
and the strict check asks for the callback of each row that needs one
(`RequiredTogether`).

*ObjectTransfer.* Several transfers take from the front of one array while others
have sent already. The proof gives each array the number `t` of objects that have
left it (`TakenInv`): what is in it is the rest, and what a transfer has brought
was taken before and comes in order. Without sharing, what a transfer has brought
is what was taken, but for the object it has in its hands (`RequestInv`); with a
shared array, whatever was taken has come with one of the transfers or is the last
object of one that waits or has failed (`Settled`). `TransferInv` is both.

*Connection.* `RegistryInv`: a key of the register leads to a device with that
id, and no disposal that goes on will delete a key of a live device, unless it
began before the device was made (`LiveKeysStay`, the reason for `hasty`).
`ListeningInv`: a call of `init()` that has not happened has no server (`Unused`)
and only the servers of the last call are open (`Careful`). `DisposeHolds` is what
`dispose()` keeps while it waits: nothing is open or comes in, and every key that
is left is about to go or is one of those that stay behind.

*Framing.* `BufferInv`: the buffer has pieces of the stream in their order, and
with a piece all that are before it in its document, but for white space that was
trimmed. `MiddleInv`: within a document it has what has arrived of it, and
nothing else unless a packet was mistaken. Neither is kept by a packet as such,
since `trim()` may take a piece from either end: `TrimIsRun` says that the packet
is a run of the stream that is short of at most these two, and `ArrivedKeeps`
that they are already counted in `trimmed`. What the parser takes for one
document has the first piece of the document it ends with (`ParsedDocument`), so
it is of that document alone; and what is of one document and ends with it is
whole (`EndedDocument`), so the parser takes it.

*Documents.* The state is the element written so far; `DocumentsTypeInv` says what
it may be, with any number of children, names and texts, and is inductive. The
rest is about the folding, and holds in each of these states. There are five
shapes of an element: no child, one, several of one name, all of different names,
a mix. One lemma per shape says what node the element becomes (`SourceOfNone`,
`SourceOfOne`, `SourceOfOneEmpty`, `SourceOfSame`, `SourceOfUnique`,
`SourceOfMixed`). `Shows` is what is left of that node after the folding of the
parent, and `ReceivedIsTheSource` that nothing else is: this is where the level of
an element can get lost, so it needs `KeepsItsLevel`. From the value of each child
(`ValuesFind`, `FieldKeys`) follow the ids (`ValuesAreRead`) and the paths
(`KeyIsRead`, `AllKeysAreRead`; `OnlyPath` for an only child, whose attributes end
up in its parent). What was sent and what is read are both selections from the
children; that they agree in order is a matter of positions, for which
`OrderOf`, `OrderIsUnique` and `OrderComposes` are used throughout.
`BuiltIsTheSource` is the same for `xmlToObject`.

*Ids.* `AgeGivesId`: the id of a command is the counter minus the number of ids
drawn since, up to one wrap; two commands with one id then have the same age.

*Profiles.* `SetterKeepsClosed`: what the setter has set when it throws is closed
under the dependencies; `NeedsAgree`: the two statements of the dependencies
agree where both speak. `Acceptable` strengthens `CopyIsAccepted`: it says of a
configuration what makes every list made of it pass, and the setter keeps it.

*Induction.* The library's induction theorems take a predicate, which the provers
cannot instantiate. `LeastNat` and `SetInduction` (`Failover_proofs`) state
induction over the naturals for sets instead, from the well-foundedness of `<`;
the proofs about `receiveQueue` and about the first row of a table use it.

*Only model-checked* are the liveness properties: `EveryCommandSettles`,
`EveryCommandEnds`, `SilentServerIsGivenUp`, `EventuallyConnected`,
`EverythingEnds`, `ChangesAreAnnounced`, `HeartbeatsGoOn`, `DisposeEnds`. They rest
on fairness, and the proof system has no rules for `ENABLED`. Nor is it proved
what the folding does to documents of any depth: that is an induction over trees.

## 5. Plan

Done: every module of section 2 with its run, and the proofs of section 4.
Left, in this order:

1. `Failover`: late replies and the cleanup during a switch, devices with one
   connection, `dispose` of the device. A primary that is down for us and up for
   the buddy makes both sides reject, and the command goes back and forth
   (`MosDevice.ts:1261`): every turn draws an id, so a bound on ids ends the
   exchange before it repeats, and a model of it needs ids that are reused.
2. That the steps behind the liveness properties make progress, without fairness:
   a timer that fires settles or retries its command, a round that is settled
   arms the next one. The ranking arguments are safety properties and could be
   theorems.

## 6. Not modelled, and why

- The other fields of objects, items, stories and running orders, and the rows of
  a `roAck` (`xmlConversion.ts:57`): field by field translations without state.
  Their interesting part, repeated, missing and falsy elements, is in
  `XmlObjects` and `Documents`.
- Times, durations, the length limit of `MosString128`, the formatting of
  metadata: values without state.
- CDATA, comments, and text next to elements; a packet that ends inside a UTF-16
  code unit: pieces and texts are whole. Documents deeper than the three levels
  from the parent to a field: at every level the folding is the same call. Which
  texts `nativeType` takes for numbers: that is in the parser, and a constant here.
- The ports on which incoming sockets are registered with a device, and the flag
  `isListening`: nothing that is modelled reads them.
- A listener of `connectionChanged` that throws while a device is disposed:
  `NCSServerConnection.dispose()` emits in the executor of its promise
  (`NCSServerConnection.ts:223`), which then rejects, so the `then` of
  `MosConnection.ts:246` does not delete the key and `MosConnection.dispose()`
  rejects. `Forget` and `DeviceDisposed` are of a disposal that resolves, and
  `RegistryConsistent`, `DisposeReleases` and `DisposeEnds` say nothing of the
  other.
- A peer that answers an object of a `mosReqAll` without an id, or under another:
  replies of that kind are in `MosSocketClient`, and `ObjectTransfer` takes a reply
  for one to the message.
- A listener of `onConnection` that throws, and disposing a device with an object
  of an earlier one of the same id.
- `connection/Server.ts` is used by nothing; `api.ts` and `index.ts` declare and
  export. Logging, `rawMessage` events and `setDebug` change nothing.
