---------------------------- MODULE Failover_proofs ----------------------------
(***************************************************************************)
(* Proofs about a MosDevice with two connections, for any number of         *)
(* commands and ids: its clients stay consistent, a message is in one place *)
(* only, settled promises are awaited, and the device implements            *)
(* CommandPromise.                                                          *)
(*                                                                         *)
(* The lemmas about the methods of a client are in SocketClient_proofs.     *)
(* Here a first part says which callbacks the methods call, the second what *)
(* the operators on a device do with the invariant DeviceInv, the third     *)
(* puts the steps together.                                                 *)
(***************************************************************************)
EXTENDS Failover, SocketClient_proofs, WellFoundedInduction

(* Nothing lingers in a client: that is for heartbeats only.                *)
Quiet(c) == c.lingering = Null /\ c.lingeringCallbacks = {} /\ ~c.threw

(* The ids with a callback in a client or a settled promise.                *)
Pending(d) ==
  d.client[Primary].callbacks \cup d.client[Secondary].callbacks \cup {j.id : j \in d.jobs}

ClientsKept(d) ==
  \A c \in Connection : Consistent(d.client[c], d.lastId) /\ Quiet(d.client[c])

IdsAreOwned(d) == \A id \in Id : id <= d.lastId => d.owner[id] \in Command

(* An id has one callback or one settled promise.                           *)
InOnePlace(d) ==
  /\ d.client[Primary].callbacks \cap d.client[Secondary].callbacks = {}
  /\ \A c \in Connection, j \in d.jobs : j.id \notin d.client[c].callbacks
  /\ \A i, j \in d.jobs : i.id = j.id => i = j

(* A message that is somewhere is there under the id it has now.            *)
PendingIsLatest(d) ==
  \A id \in Pending(d) : id <= d.lastId /\ d.latest[d.owner[id]] = id

(* The callbacks handed over with a message are those of older ids.         *)
TablesAreOlder(d) ==
  /\ \A id \in Id : \A old \in d.tables[id] : old < id
  /\ \A id \in Id : id > d.lastId => d.tables[id] = {}

(* A command that waits awaits an id that was drawn for it.                 *)
CallsAwaitTheirs(d) ==
  \A k \in Command : d.call[k].phase = "waiting" =>
    /\ d.call[k].awaits \in Id /\ d.call[k].awaits <= d.lastId
    /\ d.owner[d.call[k].awaits] = k /\ d.tables[d.call[k].awaits] = {}

(* No id is drawn for a command before it is sent; x is the one that is     *)
(* being drawn.                                                             *)
SentHaveBegun(d, x) ==
  \A id \in Id \ {x} : id <= d.lastId => d.call[d.owner[id]].phase # "new"

(* A callback that was not handed over is that of the id a command awaits.  *)
PendingIsAwaited(d, x) ==
  \A id \in Pending(d) \ {x} : d.tables[id] = {} =>
    d.call[d.owner[id]].phase = "waiting" /\ d.call[d.owner[id]].awaits = id

DeviceInv(d, x) ==
  /\ d \in Device /\ d.lastId <= MaxId
  /\ ClientsKept(d) /\ IdsAreOwned(d) /\ InOnePlace(d) /\ PendingIsLatest(d)
  /\ TablesAreOlder(d) /\ CallsAwaitTheirs(d) /\ SentHaveBegun(d, x) /\ PendingIsAwaited(d, x)

-----------------------------------------------------------------------------
(* Which callbacks the methods of a client call.                            *)

(* The callbacks that c had and d has not were called, and no others.       *)
Answers(c, d) ==
  /\ Quiet(d) /\ d.callbacks \subseteq c.callbacks
  /\ \A id \in Id :
       d.calls[id] = c.calls[id] + (IF id \in c.callbacks \ d.callbacks THEN 1 ELSE 0)

LEMMA AnswersTransitive ==
  ASSUME NEW c \in Client, NEW d \in Client, NEW e \in Client, Answers(c, d), Answers(d, e)
  PROVE  Answers(c, e)
  <1>1. c.calls \in [Id -> Nat] /\ d.calls \in [Id -> Nat] /\ e.calls \in [Id -> Nat]
    BY DEF Client
  <1>2. ASSUME NEW id \in Id
        PROVE  e.calls[id] = c.calls[id] + (IF id \in c.callbacks \ e.callbacks THEN 1 ELSE 0)
    <2>1. c.calls[id] \in Nat
      BY <1>1
    <2> QED
      BY <2>1 DEF Answers
  <1> QED
    BY <1>2 DEF Answers

(* Nothing happens to the callbacks when these fields stay.                 *)
LEMMA FrameAnswers ==
  ASSUME NEW c \in Client, Quiet(c), NEW d, d.callbacks = c.callbacks, d.calls = c.calls,
         d.lingering = Null, d.lingeringCallbacks = c.lingeringCallbacks, ~d.threw
  PROVE  Answers(c, d)
  <1>1. \A id \in Id : c.calls[id] \in Nat
    BY DEF Client
  <1> QED
    BY <1>1 DEF Answers, Quiet

LEMMA ExecuteCommandAnswers ==
  ASSUME NEW c \in Client, Quiet(c), NEW id \in Id, NEW r \in BOOLEAN, c.sent = Null \/ r
  PROVE  Answers(c, ExecuteCommand(c, id, r))
  <1> DEFINE d == [c EXCEPT !.sent = id, !.lingering = Null]
             e == [d EXCEPT !.timers = @ \cup {<<id, r>>}, !.writes = Bump(@, {id})]
  <1>1. ExecuteCommand(c, id, r) = e
    BY ScopeAssumption, Zenon DEF ExecuteCommand
  <1>2. /\ d.callbacks = c.callbacks /\ d.calls = c.calls /\ d.lingering = Null
        /\ d.lingeringCallbacks = c.lingeringCallbacks /\ d.threw = c.threw
    BY DEF Client
  <1>3. e.callbacks = d.callbacks /\ e.calls = d.calls /\ e.lingering = d.lingering
        /\ e.lingeringCallbacks = d.lingeringCallbacks /\ e.threw = d.threw
    OBVIOUS
  <1> HIDE DEF d, e
  <1> QED
    BY <1>1, <1>2, <1>3, FrameAnswers DEF Quiet

LEMMA SendNextAnswers ==
  ASSUME NEW c \in Client, Quiet(c), c.sent = Null
  PROVE  Answers(c, SendNext(c))
  <1>0. c.queue \in Seq(Id) /\ c.aged \in Nat
    BY DEF Client
  <1>1. CASE c.queue = <<>>
    <2>1. SendNext(c) = [c EXCEPT !.poll = FALSE]
      BY <1>1 DEF SendNext
    <2>2. /\ SendNext(c).callbacks = c.callbacks /\ SendNext(c).calls = c.calls
          /\ SendNext(c).lingering = c.lingering /\ SendNext(c).threw = c.threw
          /\ SendNext(c).lingeringCallbacks = c.lingeringCallbacks
      BY <2>1 DEF Client
    <2> QED
      BY <2>2, FrameAnswers DEF Quiet
  <1>2. CASE c.queue # <<>>
    <2> DEFINE b == [c EXCEPT !.poll = FALSE, !.queue = Tail(@),
                              !.aged = IF @ = 0 THEN 0 ELSE @ - 1]
               h == Head(c.queue)
    <2>1. SendNext(c) = ExecuteCommand(b, h, FALSE)
      BY <1>2 DEF SendNext
    <2>2. Tail(c.queue) \in Seq(Id) /\ h \in Id
      BY <1>0, <1>2, HeadTailProperties
    <2>3. (IF c.aged = 0 THEN 0 ELSE c.aged - 1) \in Nat
      BY <1>0
    <2>4. /\ b \in Client /\ b.callbacks = c.callbacks /\ b.calls = c.calls /\ b.sent = c.sent
          /\ b.lingering = c.lingering /\ b.threw = c.threw
          /\ b.lingeringCallbacks = c.lingeringCallbacks
      BY <2>2, <2>3 DEF Client
    <2> HIDE DEF b, h
    <2>5. Answers(b, ExecuteCommand(b, h, FALSE))
      BY <2>2, <2>4, ExecuteCommandAnswers DEF Quiet
    <2> QED
      BY <2>1, <2>4, <2>5 DEF Answers
  <1> QED
    BY <1>1, <1>2

LEMMA DropAgedAnswers ==
  ASSUME NEW c \in Client, Quiet(c), Aged(c) \subseteq c.callbacks
  PROVE  Answers(c, DropAged(c))
  <1> DEFINE d == [c EXCEPT !.calls = Bump(@, Aged(c)), !.callbacks = @ \ Aged(c)]
             e == RemoveAged(d)
             p == e.poll \/ c.aged < Len(c.queue)
             f == [e EXCEPT !.poll = p]
  <1>1. DropAged(c) = f
    BY Zenon DEF DropAged
  <1>2. /\ d.callbacks = c.callbacks \ Aged(c) /\ d.calls = Bump(c.calls, Aged(c))
        /\ d.lingering = c.lingering /\ d.threw = c.threw
        /\ d.lingeringCallbacks = c.lingeringCallbacks
    BY DEF Client
  <1>3. /\ e.callbacks = d.callbacks /\ e.calls = d.calls
        /\ e.lingering = d.lingering /\ e.threw = d.threw
        /\ e.lingeringCallbacks = d.lingeringCallbacks
    BY DEF RemoveAged
  <1>4. /\ f.callbacks = e.callbacks /\ f.calls = e.calls
        /\ f.lingering = e.lingering /\ f.threw = e.threw
        /\ f.lingeringCallbacks = e.lingeringCallbacks
    OBVIOUS
  <1> HIDE DEF d, e, f
  <1>5. c.calls \in [Id -> Nat]
    BY DEF Client
  <1>6. \A id \in Id : f.calls[id] = c.calls[id] + (IF id \in Aged(c) THEN 1 ELSE 0)
    BY <1>2, <1>3, <1>4, <1>5, BumpType
  <1>7. \A id : id \in c.callbacks \ f.callbacks <=> id \in Aged(c)
    BY <1>2, <1>3, <1>4
  <1> QED
    BY <1>1, <1>2, <1>3, <1>4, <1>6, <1>7 DEF Answers, Quiet

LEMMA ProcessQueueAnswers ==
  ASSUME NEW c \in Client, Quiet(c), Aged(c) \subseteq c.callbacks
  PROVE  Answers(c, ProcessQueue(c))
  <1>1. CASE c.disposed
    BY <1>1, FrameAnswers DEF ProcessQueue, Quiet
  <1>2. CASE ~c.disposed
    <2> DEFINE d == IF c.sent # Null THEN c
                    ELSE IF c.connected THEN SendNext(c)
                    ELSE IF c.queue # <<>> THEN DropAged(c)
                    ELSE c
    <2>1. Answers(c, d)
      BY SendNextAnswers, DropAgedAnswers, FrameAnswers DEF Quiet
    <2>2. ProcessQueue(c) = IF d.threw THEN d ELSE [d EXCEPT !.timedOut = {}]
      BY <1>2, Zenon DEF ProcessQueue
    <2> HIDE DEF d
    <2>3. /\ ProcessQueue(c).callbacks = d.callbacks /\ ProcessQueue(c).calls = d.calls
          /\ ProcessQueue(c).lingering = d.lingering /\ ProcessQueue(c).threw = d.threw
          /\ ProcessQueue(c).lingeringCallbacks = d.lingeringCallbacks
      BY <2>2
    <2> QED
      BY <2>1, <2>3 DEF Answers, Quiet
  <1> QED
    BY <1>1, <1>2

LEMMA SendReplyAnswers ==
  ASSUME NEW c \in Client, Quiet(c), NEW id \in Id, id \in c.callbacks
  PROVE  Answers(c, SendReply(c, id))
  <1> DEFINE d == Call(c, {id})
             e == [d EXCEPT !.sent = Null, !.lingering = Null]
  <1>1. SendReply(c, id) = e
    BY DEF SendReply
  <1>2. /\ d.callbacks = c.callbacks \ {id} /\ d.threw = c.threw
        /\ d.calls = Bump(c.calls, {id} \cap (c.callbacks \cup c.lingeringCallbacks))
        /\ d.lingeringCallbacks = c.lingeringCallbacks \ {id}
    BY DEF Call, Client
  <1>3. /\ e.callbacks = d.callbacks /\ e.calls = d.calls
        /\ e.lingering = Null /\ e.threw = d.threw
        /\ e.lingeringCallbacks = d.lingeringCallbacks
    BY DEF Call, Client
  <1> HIDE DEF d, e
  <1>4. c.calls \in [Id -> Nat] /\ {id} \cap (c.callbacks \cup c.lingeringCallbacks) = {id}
    BY DEF Client
  <1>5. \A i \in Id : e.calls[i] = c.calls[i] + (IF i = id THEN 1 ELSE 0)
    BY <1>2, <1>3, <1>4, BumpType
  <1> QED
    BY <1>1, <1>2, <1>3, <1>5 DEF Answers, Quiet

(* A call that is followed by processQueue.                                 *)
LEMMA ThenProcessQueueAnswers ==
  ASSUME NEW c, NEW last \in Nat, Consistent(c, last), NEW b, Sound(c, b, last), Answers(c, b)
  PROVE  Answers(c, ProcessQueue(b))
  <1>1. c \in Client /\ b \in Client /\ Consistent(b, last)
    BY DEF Sound, Consistent, Typed
  <1>2. Aged(b) \subseteq b.callbacks
    BY <1>1, AgedRemoved
  <1>3. Answers(b, ProcessQueue(b))
    BY <1>1, <1>2, ProcessQueueAnswers DEF Answers
  <1>4. ProcessQueue(b) \in Client
    BY <1>1, ProcessQueueSound DEF Sound, Consistent, Typed, Answers, Quiet
  <1> QED
    BY <1>1, <1>3, <1>4, AnswersTransitive

LEMMA ReplyAnswers ==
  ASSUME NEW c, NEW last \in Nat, Consistent(c, last), Quiet(c), c.sent # Null
  PROVE  /\ Answers(c, ReplyReceived(c, c.sent))
         /\ Answers(c, BuddyNackReceived(c))
  <1>1. c \in Client /\ c.sent \in Id /\ c.sent \in c.callbacks
    BY DEF Consistent, Typed, Client, CallbacksKept
  <1> DEFINE b == SendReply(c, c.sent)
  <1>2. Sound(c, b, last)
    BY <1>1, SendReplySound DEF Quiet
  <1>3. Answers(c, b)
    BY <1>1, SendReplyAnswers
  <1>4. ReplyReceived(c, c.sent) = ProcessQueue(b) /\ BuddyNackReceived(c) = ProcessQueue(b)
    BY <1>1, IdNat DEF ReplyReceived, BuddyNackReceived
  <1> HIDE DEF b
  <1> QED
    BY <1>2, <1>3, <1>4, ThenProcessQueueAnswers

LEMMA PollAnswers ==
  ASSUME NEW c, NEW last \in Nat, Consistent(c, last), Quiet(c)
  PROVE  Answers(c, PollTimeout(c))
  <1> DEFINE b == [c EXCEPT !.poll = FALSE]
  <1>1. c \in Client
    BY DEF Consistent, Typed
  <1>2. /\ b \in Client /\ SameCommands(c, b) /\ b.timers = c.timers /\ b.aged = c.aged
        /\ b.threw = c.threw
    BY <1>1 DEF Client, SameCommands
  <1>3. PollTimeout(c) = ProcessQueue(b)
    BY DEF PollTimeout
  <1> HIDE DEF b
  <1>4. Sound(c, b, last)
    BY <1>2, FrameSound DEF Typed, Consistent, SameCommands
  <1>5. Answers(c, b)
    BY <1>1, <1>2, FrameAnswers DEF SameCommands, Quiet
  <1> QED
    BY <1>3, <1>4, <1>5, ThenProcessQueueAnswers

LEMMA CommandTimeoutAnswers ==
  ASSUME NEW c, NEW last \in Nat, Consistent(c, last), Quiet(c),
         NEW id \in Id, NEW r \in BOOLEAN, <<id, r>> \in c.timers
  PROVE  Answers(c, CommandTimeout(c, id, r))
  <1> DEFINE d == [c EXCEPT !.timers = @ \ {<<id, r>>}]
             s == SendReply(d, id)
             b == [s EXCEPT !.timedOut = @ \cup {id}]
  <1>1. c \in Client
    BY DEF Consistent, Typed
  <1>2. /\ d \in Client /\ SameCommands(c, d) /\ d.timers \subseteq c.timers /\ d.aged = c.aged
        /\ d.threw = c.threw
    BY <1>1 DEF Client, SameCommands
  <1>3. CommandTimeout(c, id, r) = IF d.disposed \/ d.sent # id THEN d
                                   ELSE IF r THEN ProcessQueue(b) ELSE ExecuteCommand(d, id, TRUE)
    BY Zenon DEF CommandTimeout
  <1> HIDE DEF d
  <1>4. Sound(c, d, last)
    BY <1>2, FrameSound DEF Typed, Consistent, SameCommands
  <1>5. Answers(c, d) /\ Quiet(d)
    BY <1>1, <1>2, FrameAnswers DEF SameCommands, Quiet
  <1>6. CASE d.disposed \/ d.sent # id
    BY <1>3, <1>5, <1>6
  <1>7. CASE ~(d.disposed \/ d.sent # id) /\ ~r
    <2>1. Answers(d, ExecuteCommand(d, id, TRUE))
      BY <1>2, <1>5, ExecuteCommandAnswers
    <2>2. ExecuteCommand(d, id, TRUE) \in Client
      BY <1>2, ExecuteCommandFields, Zenon
    <2> QED
      BY <1>1, <1>2, <1>3, <1>5, <1>7, <2>1, <2>2, AnswersTransitive
  <1>8. CASE ~(d.disposed \/ d.sent # id) /\ r
    <2>1. Consistent(d, last) /\ id \in d.callbacks
      BY <1>4, <1>8, IdNat DEF Sound, Consistent, CallbacksKept
    <2>2. Answers(d, s) /\ Sound(d, s, last) /\ s \in Client
      BY <1>2, <1>5, <1>8, <2>1, SendReplyAnswers, SendReplySound DEF Quiet, Sound, Consistent, Typed
    <2> HIDE DEF s
    <2>3. /\ b \in Client /\ SameCommands(s, b) /\ b.timers = s.timers /\ b.aged = s.aged
          /\ b.threw = s.threw
      BY <2>2 DEF Client, SameCommands
    <2> HIDE DEF b
    <2>4. Sound(s, b, last)
      BY <2>2, <2>3, FrameSound DEF Typed, Consistent, SameCommands, Sound
    <2>5. Answers(s, b)
      BY <2>2, <2>3, FrameAnswers DEF SameCommands, Quiet, Answers
    <2>6. Sound(c, b, last)
      BY <1>4, <2>2, <2>4, SoundTransitive DEF Sound, Consistent
    <2>7. Answers(c, b)
      BY <1>1, <1>2, <1>5, <2>2, <2>3, <2>5, AnswersTransitive
    <2>8. Answers(c, ProcessQueue(b))
      BY <2>6, <2>7, ThenProcessQueueAnswers
    <2> QED
      BY <1>3, <1>8, <2>8
  <1> QED
    BY <1>6, <1>7, <1>8

-----------------------------------------------------------------------------
(* What the operators on a device do with DeviceInv.                        *)

LEMMA Connections ==
  /\ Primary \in Connection /\ Secondary \in Connection
  /\ \A c \in Connection : /\ Other(c) \in Connection /\ Other(c) # c /\ Other(Other(c)) = c
                           /\ Connection = {c, Other(c)}
  BY DeviceAssumption DEF Connection, Other

(* b and f agree on what a handler of a client cannot change.               *)
SameDevice(b, f) ==
  /\ f.current = b.current /\ f.lastId = b.lastId /\ f.owner = b.owner
  /\ f.latest = b.latest /\ f.tables = b.tables /\ f.call = b.call

(* b becomes f by a handler of the client of c: the promises of its         *)
(* callbacks that are gone were settled.                                    *)
Turned(b, f, c) ==
  /\ f \in Device /\ SameDevice(b, f)
  /\ f.client[Other(c)] = b.client[Other(c)]
  /\ Consistent(f.client[c], f.lastId) /\ Quiet(f.client[c])
  /\ f.client[c].callbacks \subseteq b.client[c].callbacks
  /\ b.jobs \subseteq f.jobs
  /\ \A j \in f.jobs \ b.jobs : j.id \in b.client[c].callbacks \ f.client[c].callbacks
  /\ \A i, j \in f.jobs \ b.jobs : i.id = j.id => i = j
  /\ \A id \in b.client[c].callbacks \ f.client[c].callbacks : \E j \in f.jobs : j.id = id

LEMMA PendingOf ==
  ASSUME NEW d, NEW c \in Connection
  PROVE  Pending(d) = d.client[c].callbacks \cup d.client[Other(c)].callbacks
                        \cup {j.id : j \in d.jobs}
  BY Connections DEF Pending, Connection, Other

LEMMA TurnedKeeps ==
  ASSUME NEW b, NEW f, NEW x, NEW c \in Connection, DeviceInv(b, x), Turned(b, f, c)
  PROVE  DeviceInv(f, x) /\ Pending(f) = Pending(b)
  <1> DEFINE o == Other(c)
  <1>1. o \in Connection /\ o # c /\ Connection = {c, o}
    BY Connections
  <1>2. /\ {Primary, Secondary} = {c, o}
        /\ (c = Primary /\ o = Secondary) \/ (c = Secondary /\ o = Primary)
    BY DEF Connection, Other
  <1> HIDE DEF o
  <1>3. /\ f \in Device /\ SameDevice(b, f) /\ f.client[o] = b.client[o]
        /\ f.client[c].callbacks \subseteq b.client[c].callbacks
    BY DEF Turned, o
  <1>4. Pending(f) = Pending(b)
    <2>1. /\ Pending(b) = b.client[c].callbacks \cup b.client[o].callbacks \cup {j.id : j \in b.jobs}
          /\ Pending(f) = f.client[c].callbacks \cup f.client[o].callbacks \cup {j.id : j \in f.jobs}
      BY PendingOf DEF o
    <2>2. ASSUME NEW id \in Pending(b) PROVE id \in Pending(f)
      BY <1>3, <2>1, <2>2 DEF Turned
    <2>3. ASSUME NEW id \in Pending(f) PROVE id \in Pending(b)
      BY <1>3, <2>1, <2>3 DEF Turned
    <2> QED
      BY <2>2, <2>3
  <1>5. ClientsKept(f)
    BY <1>1, <1>3 DEF Turned, DeviceInv, ClientsKept, SameDevice
  <1>6. InOnePlace(f)
    <2>1. f.client[c].callbacks \cap f.client[o].callbacks = {}
      BY <1>2, <1>3 DEF DeviceInv, InOnePlace
    <2>2. f.client[Primary].callbacks \cap f.client[Secondary].callbacks = {}
      BY <1>2, <2>1
    <2>3. \A j \in f.jobs : j.id \notin f.client[c].callbacks /\ j.id \notin f.client[o].callbacks
      <3> SUFFICES ASSUME NEW j \in f.jobs
                   PROVE  j.id \notin f.client[c].callbacks /\ j.id \notin f.client[o].callbacks
        OBVIOUS
      <3>1. CASE j \in b.jobs
        BY <1>1, <1>3, <3>1 DEF DeviceInv, InOnePlace
      <3>2. CASE j \notin b.jobs
        <4>1. j.id \in b.client[c].callbacks /\ j.id \notin f.client[c].callbacks
          BY <3>2 DEF Turned
        <4>2. b.client[c].callbacks \cap b.client[o].callbacks = {}
          BY <1>2 DEF DeviceInv, InOnePlace
        <4> QED
          BY <1>3, <4>1, <4>2
      <3> QED
        BY <3>1, <3>2
    <2>4. ASSUME NEW i \in f.jobs, NEW j \in f.jobs, i.id = j.id PROVE i = j
      <3>1. CASE i \in b.jobs /\ j \in b.jobs
        BY <2>4, <3>1 DEF DeviceInv, InOnePlace
      <3>2. CASE i \notin b.jobs /\ j \notin b.jobs
        BY <2>4, <3>2 DEF Turned
      <3>3. CASE ~(i \in b.jobs <=> j \in b.jobs)
        <4>1. \A y \in b.jobs : y.id \notin b.client[c].callbacks
          BY DEF DeviceInv, InOnePlace
        <4>2. \A y \in f.jobs \ b.jobs : y.id \in b.client[c].callbacks
          BY DEF Turned
        <4> QED
          BY <2>4, <3>3, <4>1, <4>2
      <3> QED
        BY <3>1, <3>2, <3>3
    <2> QED
      BY <1>1, <2>2, <2>3, <2>4 DEF InOnePlace
  <1>7. PendingIsLatest(f) /\ PendingIsAwaited(f, x)
    BY <1>3, <1>4 DEF DeviceInv, PendingIsLatest, PendingIsAwaited, SameDevice
  <1>8. f.lastId <= MaxId /\ IdsAreOwned(f) /\ TablesAreOlder(f)
    BY <1>3 DEF DeviceInv, IdsAreOwned, TablesAreOlder, SameDevice
  <1>9. CallsAwaitTheirs(f) /\ SentHaveBegun(f, x)
    BY <1>3 DEF DeviceInv, CallsAwaitTheirs, SentHaveBegun, SameDevice
  <1> QED
    BY <1>3, <1>4, <1>5, <1>6, <1>7, <1>8, <1>9 DEF DeviceInv

(* The fields of a device.                                                  *)
LEMMA DeviceFields ==
  ASSUME NEW d \in Device
  PROVE  /\ d.current \in Connection /\ d.client \in [Connection -> Client]
         /\ d.up \in [Connection -> BOOLEAN] /\ d.announced \in [Connection -> BOOLEAN]
         /\ d.lastId \in Nat /\ d.owner \in [Id -> Command \cup {NoCommand}]
         /\ d.latest \in [Command -> Id \cup {Null}] /\ d.tables \in [Id -> SUBSET Id]
         /\ d.call \in [Command -> [phase : {"new", "waiting", "resolved", "rejected"},
                                    awaits : Id \cup {Null}, resend : BOOLEAN]]
         /\ d.jobs \in SUBSET [id : Id, outcome : Outcome]
  BY DEF Device

(* A client whose timers are fewer is as good.                              *)
LEMMA FewerTimers ==
  ASSUME NEW e, NEW last \in Nat, Consistent(e, last)
  PROVE  LET g == [e EXCEPT !.timers = {t \in @ : t[1] = e.sent}]
         IN  /\ g \in Client /\ Consistent(g, last) /\ g.callbacks = e.callbacks
             /\ Quiet(e) => Quiet(g)
  <1> DEFINE T == {t \in e.timers : t[1] = e.sent}
             g == [e EXCEPT !.timers = T]
  <1>1. e \in Client
    BY DEF Consistent, Typed
  <1>2. T \subseteq e.timers /\ T \in SUBSET (Id \X BOOLEAN)
    BY <1>1 DEF Client
  <1> HIDE DEF T
  <1>3. /\ g \in Client /\ SameCommands(e, g) /\ g.timers = T /\ g.aged = e.aged
        /\ g.threw = e.threw
    BY <1>1, <1>2 DEF Client, SameCommands
  <1> HIDE DEF g
  <1>4. Consistent(g, last)
    BY <1>2, <1>3, FrameSound DEF Typed, Consistent, SameCommands, Sound
  <1> QED
    BY <1>3, <1>4 DEF g, T, SameCommands, Quiet

(* The callbacks whose promises a handler settled.                          *)
LEMMA CalledOnes ==
  ASSUME NEW q \in Client, NEW e, Answers(q, e)
  PROVE  \A j \in Id : e.calls[j] > q.calls[j] <=> j \in q.callbacks \ e.callbacks
  <1>1. \A j \in Id : q.calls[j] \in Nat
    BY DEF Client
  <1> QED
    BY <1>1 DEF Answers

LEMMA HandledTurns ==
  ASSUME NEW d, NEW b, NEW c \in Connection, NEW e, NEW awaited, NEW out \in Outcome,
         d \in Device, b \in Device, SameDevice(b, d), b.jobs = d.jobs,
         b.client[Other(c)] = d.client[Other(c)],
         b.client[c].calls = d.client[c].calls, b.client[c] \in Client,
         Consistent(e, d.lastId), Answers(b.client[c], e)
  PROVE  Turned(b, Handled(d, c, e, awaited, out), c)
  <1> DEFINE g == [e EXCEPT !.timers = {t \in @ : t[1] = e.sent}]
             called == {j \in Id : e.calls[j] > d.client[c].calls[j]}
             settled == {[id |-> i, outcome |-> IF i = awaited THEN out ELSE "timeout"] : i \in called}
             cl == [d.client EXCEPT ![c] = g]
             js == d.jobs \cup settled
             f == [d EXCEPT !.client = cl, !.jobs = js]
  <1>1. Handled(d, c, e, awaited, out) = f
    BY DEF Handled
  <1>2. /\ d.lastId \in Nat /\ d.client \in [Connection -> Client]
        /\ d.jobs \in SUBSET [id : Id, outcome : Outcome]
    BY DeviceFields
  <1>3. g \in Client /\ Consistent(g, d.lastId) /\ g.callbacks = e.callbacks /\ Quiet(g)
    BY <1>2, FewerTimers, Zenon DEF Answers
  <1> HIDE DEF g
  <1>4. \A i \in Id : i \in called <=> i \in b.client[c].callbacks \ e.callbacks
    BY CalledOnes
  <1>5. called \subseteq Id
    OBVIOUS
  <1> HIDE DEF called
  <1>6. settled \in SUBSET [id : Id, outcome : Outcome]
    BY <1>5 DEF Outcome
  <1>7. /\ \A j \in settled : j.id \in called
        /\ \A i \in called : \E j \in settled : j.id = i
        /\ \A i, j \in settled : i.id = j.id => i = j
    <2> DEFINE job(i) == [id |-> i, outcome |-> IF i = awaited THEN out ELSE "timeout"]
    <2>1. settled = {job(i) : i \in called} /\ \A i : job(i).id = i
      OBVIOUS
    <2> HIDE DEF settled, job
    <2> QED
      BY <2>1
  <1> HIDE DEF settled
  <1>8. /\ cl \in [Connection -> Client] /\ cl[c] = g
        /\ \A o \in Connection : o # c => cl[o] = d.client[o]
    BY <1>2, <1>3
  <1> HIDE DEF cl
  <1>9. js \in SUBSET [id : Id, outcome : Outcome]
    BY <1>2, <1>6
  <1>10. /\ f \in Device /\ f.current = d.current /\ f.lastId = d.lastId /\ f.owner = d.owner
         /\ f.latest = d.latest /\ f.tables = d.tables /\ f.call = d.call
         /\ f.client = cl /\ f.jobs = d.jobs \cup settled
    BY <1>8, <1>9 DEF Device
  <1> HIDE DEF f, js
  <1>11. Other(c) \in Connection /\ Other(c) # c
    BY Connections
  <1>12. b.client[c].callbacks \subseteq Id
    BY DEF Client
  <1>13. /\ f \in Device /\ SameDevice(b, f) /\ f.client[Other(c)] = b.client[Other(c)]
         /\ Consistent(f.client[c], f.lastId) /\ Quiet(f.client[c])
         /\ f.client[c].callbacks = e.callbacks
    BY <1>3, <1>8, <1>10, <1>11 DEF SameDevice
  <1>14. e.callbacks \subseteq b.client[c].callbacks
    BY DEF Answers
  <1>15. /\ b.jobs \subseteq f.jobs
         /\ \A j \in f.jobs \ b.jobs : j \in settled
         /\ settled \subseteq f.jobs
    BY <1>10
  <1>16. \A j \in settled : j.id \in b.client[c].callbacks \ e.callbacks
    BY <1>4, <1>5, <1>7
  <1>17. \A id \in b.client[c].callbacks \ e.callbacks : \E j \in settled : j.id = id
    BY <1>4, <1>7, <1>12
  <1> QED
    BY <1>1, <1>7, <1>13, <1>14, <1>15, <1>16, <1>17 DEF Turned

(* A handler of a client keeps the invariant.                               *)
LEMMA HandledKeeps ==
  ASSUME NEW d, NEW x, NEW c \in Connection, NEW e, NEW awaited, NEW out \in Outcome,
         DeviceInv(d, x), Consistent(e, d.lastId), Answers(d.client[c], e)
  PROVE  LET f == Handled(d, c, e, awaited, out)
         IN  DeviceInv(f, x) /\ Pending(f) = Pending(d) /\ SameDevice(d, f)
  <1>1. d \in Device /\ d.client[c] \in Client
    BY DeviceFields DEF DeviceInv
  <1>2. Turned(d, Handled(d, c, e, awaited, out), c)
    BY <1>1, HandledTurns DEF SameDevice
  <1> QED
    BY <1>2, TurnedKeeps DEF Turned

(* No id that is pending was drawn for k.                                   *)
Absent(d, k) == \A id \in Pending(d) : d.owner[id] # k

LEMMA PendingIds ==
  ASSUME NEW d, NEW x, DeviceInv(d, x)
  PROVE  \A id \in Pending(d) : id \in Id /\ id # Null /\ d.owner[id] \in Command
  <1>1. /\ d.client \in [Connection -> Client] /\ d.jobs \in SUBSET [id : Id, outcome : Outcome]
        /\ Primary \in Connection /\ Secondary \in Connection
    BY DeviceFields, Connections DEF DeviceInv
  <1>2. d.client[Primary].callbacks \subseteq Id /\ d.client[Secondary].callbacks \subseteq Id
    <2>1. d.client[Primary] \in Client /\ d.client[Secondary] \in Client
      BY <1>1
    <2> QED
      BY <2>1 DEF Client
  <1>3. \A id \in Pending(d) : id \in Id
    BY <1>1, <1>2 DEF Pending
  <1> QED
    BY <1>3, IdNat DEF DeviceInv, PendingIsLatest, IdsAreOwned

LEMMA ConsistentGrows ==
  ASSUME NEW c, NEW last \in Nat, NEW n \in Nat, last <= n, Consistent(c, last)
  PROVE  Consistent(c, n)
  <1>1. \A id \in Id : id <= last => id <= n
    BY IdNat
  <1>2. QueueOrdered(c, n)
    BY <1>1 DEF Consistent, QueueOrdered
  <1>3. c.callbacks \subseteq Id /\ c.lingeringCallbacks \subseteq Id
    BY DEF Consistent, Typed, Client
  <1>4. CallbacksKept(c, n)
    BY <1>1, <1>3 DEF Consistent, CallbacksKept
  <1> QED
    BY <1>2, <1>4 DEF Consistent

(* prepare() draws the next id for k, and queueCommand puts it in a queue;  *)
(* processQueue has yet to run.                                             *)
Queueing(q, id) == [q EXCEPT !.callbacks = @ \cup {id}, !.queue = Append(@, id)]

Enqueued(d, c, k) ==
  LET id == d.lastId + 1
  IN  [d EXCEPT !.lastId = id, !.owner = [d.owner EXCEPT ![id] = k],
                !.latest = [d.latest EXCEPT ![k] = id],
                !.client = [d.client EXCEPT ![c] = Queueing(d.client[c], id)]]

LEMMA EnqueuedFields ==
  ASSUME NEW d \in Device, NEW c \in Connection, NEW k \in Command, d.lastId < MaxId
  PROVE  LET id == d.lastId + 1
             b == Enqueued(d, c, k)
         IN  /\ id \in Id /\ b \in Device /\ b.lastId = id
             /\ b.owner = [d.owner EXCEPT ![id] = k] /\ b.latest = [d.latest EXCEPT ![k] = id]
             /\ b.client[c] = Queueing(d.client[c], id)
             /\ b.client[c].callbacks = d.client[c].callbacks \cup {id}
             /\ b.client[c].calls = d.client[c].calls
             /\ b.client[Other(c)] = d.client[Other(c)]
             /\ b.current = d.current /\ b.tables = d.tables /\ b.call = d.call
             /\ b.jobs = d.jobs
  <1> DEFINE id == d.lastId + 1
             q == d.client[c]
             cb == q.callbacks \cup {id}
             qu == Append(q.queue, id)
             base == Queueing(q, id)
             ow == [d.owner EXCEPT ![id] = k]
             la == [d.latest EXCEPT ![k] = id]
             cl == [d.client EXCEPT ![c] = base]
             b == [d EXCEPT !.lastId = id, !.owner = ow, !.latest = la, !.client = cl]
  <1>1. Enqueued(d, c, k) = b
    BY DEF Enqueued
  <1>2. /\ d.lastId \in Nat /\ d.client \in [Connection -> Client] /\ q \in Client
        /\ d.owner \in [Id -> Command \cup {NoCommand}] /\ d.latest \in [Command -> Id \cup {Null}]
    BY DeviceFields
  <1>3. id \in Id /\ id \in Nat
    BY <1>2, MaxIdAssumption DEF Id
  <1> HIDE DEF id
  <1>4. cb \in SUBSET Id /\ qu \in Seq(Id)
    BY <1>2, <1>3, AppendProperties DEF Client
  <1> HIDE DEF q
  <1>5. base \in Client /\ base.callbacks = cb /\ base.calls = q.calls
    BY <1>2, <1>4 DEF Client, Queueing
  <1>6. Other(c) \in Connection /\ Other(c) # c
    BY Connections
  <1> HIDE DEF base
  <1>7. cl \in [Connection -> Client] /\ cl[c] = base /\ cl[Other(c)] = d.client[Other(c)]
    BY <1>2, <1>5, <1>6
  <1>8. ow \in [Id -> Command \cup {NoCommand}] /\ la \in [Command -> Id \cup {Null}]
    BY <1>2, <1>3
  <1> HIDE DEF cl, ow, la
  <1>9. /\ b \in Device /\ b.lastId = id /\ b.owner = ow /\ b.latest = la /\ b.client = cl
        /\ b.current = d.current /\ b.tables = d.tables /\ b.call = d.call /\ b.jobs = d.jobs
    BY <1>3, <1>7, <1>8 DEF Device
  <1> QED
    BY <1>1, <1>3, <1>5, <1>7, <1>9 DEF id, q, base, ow, la

LEMMA EnqueuedKeeps ==
  ASSUME NEW d, NEW c \in Connection, NEW k \in Command,
         DeviceInv(d, Null), Absent(d, k), d.lastId < MaxId
  PROVE  LET id == d.lastId + 1
             b == Enqueued(d, c, k)
         IN  /\ DeviceInv(b, id) /\ Pending(b) = Pending(d) \cup {id}
             /\ b.client[c] \in Client
  <1>0. d \in Device /\ d.lastId \in Nat
    BY DeviceFields DEF DeviceInv
  <1>a. PICK id, b, o : id = d.lastId + 1 /\ b = Enqueued(d, c, k) /\ o = Other(c)
    OBVIOUS
  <1>1. /\ id \in Id /\ b \in Device /\ b.lastId = id
        /\ b.owner = [d.owner EXCEPT ![id] = k] /\ b.latest = [d.latest EXCEPT ![k] = id]
        /\ b.client[c] = Queueing(d.client[c], id)
        /\ b.client[c].callbacks = d.client[c].callbacks \cup {id}
        /\ b.client[o] = d.client[o]
        /\ b.tables = d.tables /\ b.call = d.call /\ b.jobs = d.jobs
    <2> DEFINE i == d.lastId + 1
               e == Enqueued(d, c, k)
    <2>1. /\ i \in Id /\ e \in Device /\ e.lastId = i
          /\ e.owner = [d.owner EXCEPT ![i] = k] /\ e.latest = [d.latest EXCEPT ![k] = i]
          /\ e.client[c] = Queueing(d.client[c], i)
          /\ e.client[c].callbacks = d.client[c].callbacks \cup {i}
          /\ e.client[Other(c)] = d.client[Other(c)]
          /\ e.tables = d.tables /\ e.call = d.call /\ e.jobs = d.jobs
      BY <1>0, EnqueuedFields
    <2>2. i = id /\ e = b /\ Other(c) = o
      BY <1>a
    <2> HIDE DEF i, e
    <2> QED
      BY <2>1, <2>2
  <1>2. /\ id \in Nat /\ id # Null /\ id > d.lastId /\ id <= MaxId
        /\ \A i \in Id : i <= id => i = id \/ i <= d.lastId
        /\ \A i \in Id : i <= d.lastId => i # id /\ i <= id
    BY <1>0, <1>1, <1>a, IdNat DEF Id
  <1>3. o \in Connection /\ o # c /\ Connection = {c, o}
    BY <1>a, Connections
  <1>4. \A p \in Pending(d) : p \in Id /\ p # Null /\ p # id /\ p <= d.lastId
    BY <1>2, PendingIds DEF DeviceInv, PendingIsLatest
  <1>5. Pending(b) = Pending(d) \cup {id}
    <2>1. /\ Pending(d) = d.client[c].callbacks \cup d.client[o].callbacks \cup {j.id : j \in d.jobs}
          /\ Pending(b) = b.client[c].callbacks \cup b.client[o].callbacks \cup {j.id : j \in b.jobs}
      BY <1>a, PendingOf
    <2> QED
      BY <1>1, <2>1
  <1>6. \A p \in Id : p # id => b.owner[p] = d.owner[p]
    BY <1>0, <1>1, DeviceFields
  <1>7. b.owner[id] = k /\ b.latest[k] = id
    BY <1>0, <1>1, DeviceFields
  <1>8. ClientsKept(b)
    <2>1. Consistent(d.client[c], d.lastId) /\ Quiet(d.client[c])
      BY DEF DeviceInv, ClientsKept
    <2>2. Consistent(b.client[c], id) /\ ~b.client[c].threw
      <3> DEFINE base == Queueing(d.client[c], id)
      <3>1. ~d.client[c].threw
        BY <2>1 DEF Quiet
      <3>2. Sound(d.client[c], base, id) /\ ~base.threw
        BY <1>0, <1>1, <1>a, <2>1, <3>1, QueuedSound DEF Queueing
      <3> HIDE DEF base
      <3> QED
        BY <1>1, <3>2 DEF Sound, base
    <2>3. d.client[c] \in Client
      BY <2>1 DEF Consistent, Typed
    <2>4. Quiet(b.client[c])
      BY <1>1, <2>1, <2>3 DEF Quiet, Client, Queueing
    <2>5. Consistent(d.client[o], d.lastId) /\ Quiet(d.client[o])
      BY <1>3 DEF DeviceInv, ClientsKept
    <2>6. Consistent(d.client[o], id)
      BY <1>0, <1>2, <2>5, ConsistentGrows
    <2> QED
      BY <1>1, <1>3, <2>2, <2>4, <2>5, <2>6 DEF ClientsKept
  <1>9. IdsAreOwned(b)
    BY <1>1, <1>2, <1>6, <1>7 DEF DeviceInv, IdsAreOwned
  <1>10. InOnePlace(b)
    <2>1. id \notin Pending(d)
      BY <1>4
    <2>2. /\ id \notin d.client[Primary].callbacks /\ id \notin d.client[Secondary].callbacks
          /\ \A j \in d.jobs : j.id # id
      BY <2>1 DEF Pending
    <2>3. \A p \in Connection : /\ b.client[p].callbacks \subseteq d.client[p].callbacks \cup {id}
                                /\ p = o => b.client[p].callbacks = d.client[p].callbacks
      BY <1>1, <1>3
    <2>4. (c = Primary /\ o = Secondary) \/ (c = Secondary /\ o = Primary)
      BY <1>a DEF Connection, Other
    <2>5. b.client[Primary].callbacks \cap b.client[Secondary].callbacks = {}
      <3>1. d.client[Primary].callbacks \cap d.client[Secondary].callbacks = {}
        BY DEF DeviceInv, InOnePlace
      <3>2. (d.client[c].callbacks \cup {id}) \cap d.client[o].callbacks = {}
        BY <2>2, <2>4, <3>1
      <3>3. b.client[c].callbacks \cap b.client[o].callbacks = {}
        BY <1>1, <3>2
      <3> QED
        BY <2>4, <3>3
    <2> QED
      BY <1>1, <2>2, <2>3, <2>5 DEF DeviceInv, InOnePlace
  <1>11. PendingIsLatest(b)
    <2> SUFFICES ASSUME NEW p \in Pending(b) PROVE p <= b.lastId /\ b.latest[b.owner[p]] = p
      BY DEF PendingIsLatest
    <2>1. CASE p = id
      BY <1>1, <1>2, <1>7, <2>1
    <2>2. CASE p \in Pending(d)
      <3>1. p \in Id /\ p # id /\ p <= d.lastId /\ b.owner[p] = d.owner[p]
        BY <1>4, <1>6, <2>2
      <3>2. d.owner[p] # k /\ d.owner[p] \in Command
        BY <2>2, PendingIds DEF Absent
      <3>3. b.latest[d.owner[p]] = d.latest[d.owner[p]]
        BY <1>0, <1>1, <3>2, DeviceFields
      <3> QED
        BY <1>1, <1>2, <2>2, <3>1, <3>3 DEF DeviceInv, PendingIsLatest
    <2> QED
      BY <1>5, <2>1, <2>2
  <1>12. TablesAreOlder(b)
    <2>1. \A i \in Id : i > id => i > d.lastId
      BY <1>0, <1>2, IdNat
    <2> QED
      BY <1>1, <2>1 DEF DeviceInv, TablesAreOlder
  <1>13. CallsAwaitTheirs(b)
    <2> SUFFICES ASSUME NEW j \in Command, d.call[j].phase = "waiting"
                 PROVE  /\ d.call[j].awaits \in Id /\ d.call[j].awaits <= id
                        /\ b.owner[d.call[j].awaits] = j /\ d.tables[d.call[j].awaits] = {}
      BY <1>1 DEF CallsAwaitTheirs
    <2>1. /\ d.call[j].awaits \in Id /\ d.call[j].awaits <= d.lastId
          /\ d.owner[d.call[j].awaits] = j /\ d.tables[d.call[j].awaits] = {}
      BY DEF DeviceInv, CallsAwaitTheirs
    <2> QED
      BY <1>2, <1>6, <2>1
  <1>14. SentHaveBegun(b, id)
    BY <1>1, <1>2, <1>6, IdNat DEF DeviceInv, SentHaveBegun
  <1>15. PendingIsAwaited(b, id)
    BY <1>1, <1>4, <1>5, <1>6 DEF DeviceInv, PendingIsAwaited
  <1>16. b.client[c] \in Client
    BY <1>1, DeviceFields
  <1> QED
    BY <1>1, <1>2, <1>5, <1>8, <1>9, <1>10, <1>11, <1>12, <1>13, <1>14, <1>15, <1>16, <1>a
       DEF DeviceInv

(* A message that is queued has an id that is pending and was not before.   *)
LEMMA QueueOnKeeps ==
  ASSUME NEW d, NEW c \in Connection, NEW k \in Command,
         DeviceInv(d, Null), Absent(d, k), d.lastId < MaxId
  PROVE  LET id == d.lastId + 1
             f == QueueOn(d, c, k)
         IN  /\ DeviceInv(f, id) /\ Pending(f) = Pending(d) \cup {id} /\ id \in Id
             /\ f.lastId = id /\ f.owner[id] = k /\ f.current = d.current /\ f.call = d.call
             /\ f.tables = d.tables
             /\ \A i \in Id : i <= d.lastId => f.owner[i] = d.owner[i]
  <1>0. d \in Device /\ d.lastId \in Nat /\ "timeout" \in Outcome
    BY DeviceFields DEF DeviceInv, Outcome
  <1> DEFINE ow == [d.owner EXCEPT ![d.lastId + 1] = k]
             la == [d.latest EXCEPT ![k] = d.lastId + 1]
  <1>a. PICK id, b, g, q, e :
          /\ id = d.lastId + 1 /\ b = Enqueued(d, c, k)
          /\ g = [d EXCEPT !.lastId = id, !.owner[id] = k, !.latest[k] = id]
          /\ q = d.client[c] /\ e = QueueCommand(q, id)
    OBVIOUS
  <1>1. /\ id \in Id /\ b \in Device /\ b.lastId = id
        /\ b.owner = ow /\ b.latest = la
        /\ b.client[c] = Queueing(q, id)
        /\ b.client[c].calls = q.calls
        /\ b.client[Other(c)] = d.client[Other(c)]
        /\ b.current = d.current /\ b.tables = d.tables /\ b.call = d.call /\ b.jobs = d.jobs
    <2> DEFINE i == d.lastId + 1
               z == Enqueued(d, c, k)
    <2>1. /\ i \in Id /\ z \in Device /\ z.lastId = i
          /\ z.owner = [d.owner EXCEPT ![i] = k] /\ z.latest = [d.latest EXCEPT ![k] = i]
          /\ z.client[c] = Queueing(d.client[c], i)
          /\ z.client[c].calls = d.client[c].calls
          /\ z.client[Other(c)] = d.client[Other(c)]
          /\ z.current = d.current /\ z.tables = d.tables /\ z.call = d.call /\ z.jobs = d.jobs
      BY <1>0, EnqueuedFields
    <2>2. i = id /\ z = b /\ d.client[c] = q
      BY <1>a
    <2> HIDE DEF i, z
    <2> QED
      BY <2>1, <2>2 DEF i
  <1>2. /\ DeviceInv(b, id) /\ Pending(b) = Pending(d) \cup {id} /\ b.client[c] \in Client
    BY <1>a, EnqueuedKeeps
  <1>3. /\ d.owner \in [Id -> Command \cup {NoCommand}] /\ d.latest \in [Command -> Id \cup {Null}]
    BY <1>0, DeviceFields
  <1>4. ow \in [Id -> Command \cup {NoCommand}] /\ la \in [Command -> Id \cup {Null}]
    BY <1>1, <1>3, <1>a
  <1>5. g = [d EXCEPT !.lastId = id, !.owner = ow, !.latest = la]
    BY <1>a
  <1> HIDE DEF ow, la
  <1>6. /\ g \in Device /\ g.lastId = id /\ g.owner = ow /\ g.latest = la /\ g.client = d.client
        /\ g.current = d.current /\ g.tables = d.tables /\ g.call = d.call /\ g.jobs = d.jobs
    BY <1>0, <1>1, <1>4, <1>5, IdNat DEF Device
  <1>7. QueueOn(d, c, k) = Handled(g, c, e, Null, "timeout")
    BY <1>a DEF QueueOn
  <1>8. SameDevice(b, g) /\ g.client[c].calls = b.client[c].calls
    BY <1>1, <1>6, <1>a DEF SameDevice
  <1>9. e = ProcessQueue(b.client[c])
    BY <1>1, <1>a DEF QueueCommand, Queueing
  <1>10. Consistent(b.client[c], id) /\ Quiet(b.client[c]) /\ id \in Nat
    BY <1>1, <1>2, IdNat DEF DeviceInv, ClientsKept
  <1>11. Aged(b.client[c]) \subseteq b.client[c].callbacks
    BY <1>10, AgedRemoved
  <1>12. Consistent(e, id) /\ Answers(b.client[c], e)
    BY <1>2, <1>9, <1>10, <1>11, ProcessQueueAnswers, ProcessQueueSound DEF Sound, Quiet
  <1>13. Turned(b, Handled(g, c, e, Null, "timeout"), c)
    BY <1>0, <1>1, <1>2, <1>6, <1>8, <1>12, HandledTurns
  <1>14. LET f == QueueOn(d, c, k)
         IN DeviceInv(f, id) /\ Pending(f) = Pending(b) /\ SameDevice(b, f)
    BY <1>2, <1>7, <1>13, TurnedKeeps DEF Turned
  <1>15. /\ ow[id] = k
         /\ \A i \in Id : i <= d.lastId => ow[i] = d.owner[i]
    BY <1>0, <1>1, <1>3, <1>a, IdNat DEF ow
  <1> QED
    BY <1>1, <1>2, <1>14, <1>15, <1>a DEF SameDevice

(* A command is sent: the id that is drawn for it is pending, and awaited.  *)
LEMMA SendKeeps ==
  ASSUME NEW d, NEW k \in Command, NEW r \in BOOLEAN,
         DeviceInv(d, Null), Absent(d, k), d.lastId < MaxId
  PROVE  LET s == Send(d, k, r)
         IN  /\ DeviceInv(s, Null) /\ s.lastId = d.lastId + 1 /\ s.current = d.current
             /\ Pending(s) = Pending(d) \cup {s.lastId}
             /\ s.call[k].phase = "waiting" /\ s.call[k].awaits = s.lastId
             /\ \A other \in Command \ {k} : s.call[other] = d.call[other]
  <1>0. d \in Device /\ d.lastId \in Nat /\ d.current \in Connection
    BY DeviceFields DEF DeviceInv
  <1>a. PICK id, e : id = d.lastId + 1 /\ e = QueueOn(d, d.current, k)
    OBVIOUS
  <1>1. /\ DeviceInv(e, id) /\ Pending(e) = Pending(d) \cup {id} /\ id \in Id
        /\ e.lastId = id /\ e.owner[id] = k /\ e.current = d.current /\ e.call = d.call
        /\ e.tables = d.tables
        /\ \A i \in Id : i <= d.lastId => e.owner[i] = d.owner[i]
    BY <1>0, <1>a, QueueOnKeeps
  <1> DEFINE rec == [phase |-> "waiting", awaits |-> id, resend |-> r]
             ca == [d.call EXCEPT ![k] = rec]
             s == [e EXCEPT !.call = ca]
  <1>2. Send(d, k, r) = s
    BY <1>1, <1>a DEF Send
  <1>3. e \in Device /\ id \in Nat /\ id > d.lastId
    BY <1>0, <1>1, <1>a DEF DeviceInv
  <1>4. /\ ca \in [Command -> [phase : {"new", "waiting", "resolved", "rejected"},
                               awaits : Id \cup {Null}, resend : BOOLEAN]]
        /\ ca[k].phase = "waiting" /\ ca[k].awaits = id
        /\ \A other \in Command \ {k} : ca[other] = d.call[other]
    BY <1>0, <1>1, DeviceFields
  <1> HIDE DEF ca
  <1>5. /\ s \in Device /\ s.call = ca /\ s.lastId = id /\ s.current = d.current
        /\ s.client = e.client /\ s.jobs = e.jobs /\ s.owner = e.owner /\ s.latest = e.latest
        /\ s.tables = e.tables
    BY <1>1, <1>3, <1>4 DEF Device
  <1> HIDE DEF s
  <1>6. Pending(s) = Pending(e)
    BY <1>5 DEF Pending
  <1>7. /\ ClientsKept(s) /\ IdsAreOwned(s) /\ InOnePlace(s) /\ PendingIsLatest(s)
        /\ TablesAreOlder(s) /\ s.lastId <= MaxId
    BY <1>1, <1>5, <1>6 DEF DeviceInv, ClientsKept, IdsAreOwned, InOnePlace, PendingIsLatest,
         TablesAreOlder
  <1>8. d.tables[id] = {}
    BY <1>1, <1>3 DEF DeviceInv, TablesAreOlder
  <1>9. CallsAwaitTheirs(s)
    <2> SUFFICES ASSUME NEW j \in Command, ca[j].phase = "waiting"
                 PROVE  /\ ca[j].awaits \in Id /\ ca[j].awaits <= id
                        /\ e.owner[ca[j].awaits] = j /\ e.tables[ca[j].awaits] = {}
      BY <1>5 DEF CallsAwaitTheirs
    <2>1. CASE j = k
      BY <1>1, <1>3, <1>4, <1>8, <2>1
    <2>2. CASE j # k
      BY <1>1, <1>4, <2>2 DEF DeviceInv, CallsAwaitTheirs
    <2> QED
      BY <2>1, <2>2
  <1>10. SentHaveBegun(s, Null)
    <2> SUFFICES ASSUME NEW j \in Id, j <= id PROVE ca[e.owner[j]].phase # "new"
      BY <1>5 DEF SentHaveBegun
    <2>1. e.owner[j] \in Command
      BY <1>1 DEF DeviceInv, IdsAreOwned
    <2>2. CASE e.owner[j] = k
      BY <1>4, <2>2
    <2>3. CASE e.owner[j] # k
      BY <1>1, <1>4, <2>1, <2>3 DEF DeviceInv, SentHaveBegun
    <2> QED
      BY <2>2, <2>3
  <1>11. PendingIsAwaited(s, Null)
    <2> SUFFICES ASSUME NEW p \in Pending(e), e.tables[p] = {}
                 PROVE  ca[e.owner[p]].phase = "waiting" /\ ca[e.owner[p]].awaits = p
      BY <1>5, <1>6 DEF PendingIsAwaited
    <2>1. CASE p = id
      BY <1>1, <1>4, <2>1
    <2>2. CASE p # id
      <3>1. p \in Pending(d) /\ p \in Id /\ p <= d.lastId
        BY <1>1, <2>2, PendingIds DEF DeviceInv, PendingIsLatest
      <3>2. e.owner[p] = d.owner[p] /\ d.owner[p] # k /\ d.owner[p] \in Command
        BY <1>1, <3>1, PendingIds DEF Absent
      <3> QED
        BY <1>1, <1>4, <2>2, <3>2 DEF DeviceInv, PendingIsAwaited
    <2> QED
      BY <2>1, <2>2
  <1>12. DeviceInv(s, Null)
    BY <1>5, <1>7, <1>9, <1>10, <1>11 DEF DeviceInv
  <1> QED
    BY <1>1, <1>2, <1>4, <1>5, <1>6, <1>12, <1>a

(* A message that is handed over is queued on the other connection, with a  *)
(* table of callbacks, so that no command awaits its new id.                *)
LEMMA ForwardKeeps ==
  ASSUME NEW d, NEW c \in Connection, NEW k \in Command, NEW table \in SUBSET Id,
         DeviceInv(d, Null), Absent(d, k), d.lastId < MaxId,
         table # {}, \A t \in table : t <= d.lastId, d.call[k].phase # "new"
  PROVE  LET f == Forward(d, c, k, table)
         IN  /\ DeviceInv(f, Null) /\ f.lastId = d.lastId + 1 /\ f.current = d.current
             /\ Pending(f) = Pending(d) \cup {f.lastId} /\ f.lastId \in Id
             /\ f.call = d.call /\ f.owner[f.lastId] = k
             /\ \A i \in Id : i <= d.lastId => f.owner[i] = d.owner[i]
  <1>0. d \in Device /\ d.lastId \in Nat
    BY DeviceFields DEF DeviceInv
  <1>a. PICK id, e : id = d.lastId + 1 /\ e = QueueOn(d, c, k)
    OBVIOUS
  <1>1. /\ DeviceInv(e, id) /\ Pending(e) = Pending(d) \cup {id} /\ id \in Id
        /\ e.lastId = id /\ e.owner[id] = k /\ e.current = d.current /\ e.call = d.call
        /\ e.tables = d.tables
        /\ \A i \in Id : i <= d.lastId => e.owner[i] = d.owner[i]
    BY <1>0, <1>a, QueueOnKeeps
  <1> DEFINE ta == [d.tables EXCEPT ![id] = table]
             f == [e EXCEPT !.tables = ta]
  <1>2. Forward(d, c, k, table) = f
    BY <1>1, <1>a DEF Forward
  <1>3. e \in Device /\ id \in Nat /\ id > d.lastId /\ ~(id <= d.lastId)
    BY <1>0, <1>1, <1>a DEF DeviceInv
  <1>4. /\ ta \in [Id -> SUBSET Id] /\ ta[id] = table
        /\ \A i \in Id : i # id => ta[i] = d.tables[i]
    BY <1>0, <1>1, DeviceFields
  <1> HIDE DEF ta
  <1>5. /\ f \in Device /\ f.tables = ta /\ f.lastId = id /\ f.current = d.current
        /\ f.client = e.client /\ f.jobs = e.jobs /\ f.owner = e.owner /\ f.latest = e.latest
        /\ f.call = d.call
    BY <1>1, <1>3, <1>4 DEF Device
  <1> HIDE DEF f
  <1>6. Pending(f) = Pending(e)
    BY <1>5 DEF Pending
  <1>7. /\ ClientsKept(f) /\ IdsAreOwned(f) /\ InOnePlace(f) /\ PendingIsLatest(f)
        /\ f.lastId <= MaxId
    BY <1>1, <1>5, <1>6 DEF DeviceInv, ClientsKept, IdsAreOwned, InOnePlace, PendingIsLatest
  <1>8. TablesAreOlder(f)
    <2>1. \A t \in table : t < id
      BY <1>0, <1>3, IdNat
    <2>2. \A i \in Id : i > id => i # id
      BY <1>3, IdNat
    <2>3. \A i \in Id : \A old \in ta[i] : old < i
      BY <1>1, <1>4, <2>1 DEF DeviceInv, TablesAreOlder
    <2>4. \A i \in Id : i > id => ta[i] = {}
      BY <1>1, <1>4, <2>2 DEF DeviceInv, TablesAreOlder
    <2> QED
      BY <1>5, <2>3, <2>4 DEF TablesAreOlder
  <1>9. CallsAwaitTheirs(f)
    <2> SUFFICES ASSUME NEW j \in Command, d.call[j].phase = "waiting"
                 PROVE  /\ d.call[j].awaits \in Id /\ d.call[j].awaits <= id
                        /\ e.owner[d.call[j].awaits] = j /\ ta[d.call[j].awaits] = {}
      BY <1>5 DEF CallsAwaitTheirs
    <2>1. /\ d.call[j].awaits \in Id /\ d.call[j].awaits <= d.lastId
          /\ d.tables[d.call[j].awaits] = {}
      BY DEF DeviceInv, CallsAwaitTheirs
    <2>2. d.call[j].awaits # id
      BY <1>3, <2>1
    <2>3. d.call[j].awaits <= id /\ e.owner[d.call[j].awaits] = j
      BY <1>1 DEF DeviceInv, CallsAwaitTheirs
    <2> QED
      BY <1>4, <2>1, <2>2, <2>3
  <1>10. SentHaveBegun(f, Null)
    <2> SUFFICES ASSUME NEW j \in Id, j <= id PROVE d.call[e.owner[j]].phase # "new"
      BY <1>5 DEF SentHaveBegun
    <2>1. CASE j = id
      BY <1>1, <2>1
    <2>2. CASE j # id
      BY <1>1, <2>2 DEF DeviceInv, SentHaveBegun
    <2> QED
      BY <2>1, <2>2
  <1>11. PendingIsAwaited(f, Null)
    <2> SUFFICES ASSUME NEW p \in Pending(e), ta[p] = {}
                 PROVE  d.call[e.owner[p]].phase = "waiting" /\ d.call[e.owner[p]].awaits = p
      BY <1>5, <1>6 DEF PendingIsAwaited
    <2>1. p # id
      BY <1>4
    <2>2. p \in Id
      BY <1>1, PendingIds
    <2>3. d.tables[p] = {}
      BY <1>4, <2>1, <2>2
    <2> QED
      BY <1>1, <2>1, <2>3 DEF DeviceInv, PendingIsAwaited
  <1>12. DeviceInv(f, Null)
    BY <1>5, <1>7, <1>8, <1>9, <1>10, <1>11 DEF DeviceInv
  <1> QED
    BY <1>1, <1>2, <1>5, <1>6, <1>12, <1>a

(* The connection that is left: its callbacks are gone.                     *)
LeftConnection(d) ==
  [d EXCEPT !.current = Other(d.current), !.client[d.current] = HandOverQueue(@)]

LEMMA LeftKeeps ==
  ASSUME NEW d, DeviceInv(d, Null)
  PROVE  LET e == LeftConnection(d)
         IN  /\ DeviceInv(e, Null) /\ e.current = Other(d.current)
             /\ Pending(e) = Pending(d) \ d.client[d.current].callbacks
             /\ e.lastId = d.lastId /\ e.owner = d.owner /\ e.latest = d.latest
             /\ e.call = d.call
  <1>a. PICK c, o, q, h : c = d.current /\ o = Other(c) /\ q = d.client[c] /\ h = HandOverQueue(q)
    OBVIOUS
  <1>0. /\ d \in Device /\ d.lastId \in Nat /\ c \in Connection /\ q \in Client
        /\ d.client \in [Connection -> Client]
    BY <1>a, DeviceFields DEF DeviceInv
  <1>1. o \in Connection /\ o # c /\ Connection = {c, o}
    BY <1>0, <1>a, Connections
  <1>2. Consistent(q, d.lastId) /\ Quiet(q)
    BY <1>0, <1>a DEF DeviceInv, ClientsKept
  <1>3. Consistent(h, d.lastId) /\ h \in Client
    BY <1>0, <1>2, <1>a, HandOverQueueSound DEF Sound, Quiet, Consistent, Typed
  <1>4. Quiet(h) /\ h.callbacks = {}
    <2> DEFINE f == [q EXCEPT !.lingering = Null, !.lingeringCallbacks = @ \ {q.lingering},
                              !.queue = <<>>, !.aged = 0, !.callbacks = {}, !.sent = Null,
                              !.poll = FALSE]
    <2>1. h = f
      BY <1>a, ScopeAssumption DEF HandOverQueue
    <2>2. /\ f.lingering = Null /\ f.lingeringCallbacks = q.lingeringCallbacks \ {q.lingering}
          /\ f.callbacks = {} /\ f.threw = q.threw
      BY <1>0 DEF Client
    <2> HIDE DEF f
    <2> QED
      BY <1>2, <2>1, <2>2 DEF Quiet
  <1> DEFINE cl == [d.client EXCEPT ![c] = h]
             e == [d EXCEPT !.current = o, !.client = cl]
  <1>5. LeftConnection(d) = e
    BY <1>0, <1>a DEF LeftConnection, Device
  <1>6. cl \in [Connection -> Client] /\ cl[c] = h /\ cl[o] = d.client[o]
    BY <1>0, <1>1, <1>3
  <1> HIDE DEF cl
  <1>7. /\ e \in Device /\ e.current = o /\ e.client = cl /\ e.lastId = d.lastId
        /\ e.owner = d.owner /\ e.latest = d.latest /\ e.tables = d.tables
        /\ e.call = d.call /\ e.jobs = d.jobs
    BY <1>0, <1>1, <1>6 DEF Device
  <1> HIDE DEF e
  <1>8. Pending(e) = Pending(d) \ q.callbacks
    <2>1. /\ Pending(d) = d.client[c].callbacks \cup d.client[o].callbacks \cup {j.id : j \in d.jobs}
          /\ Pending(e) = e.client[c].callbacks \cup e.client[o].callbacks \cup {j.id : j \in e.jobs}
      BY <1>0, <1>a, PendingOf
    <2>2. d.client[c].callbacks \cap d.client[o].callbacks = {}
      BY <1>0, <1>1, <1>a DEF DeviceInv, InOnePlace, Connection, Other
    <2>3. \A j \in d.jobs : j.id \notin d.client[c].callbacks
      BY <1>0 DEF DeviceInv, InOnePlace
    <2>4. Pending(e) = d.client[o].callbacks \cup {j.id : j \in d.jobs}
      BY <1>4, <1>6, <1>7, <2>1
    <2> QED
      BY <1>a, <2>1, <2>2, <2>3, <2>4
  <1>9. ClientsKept(e)
    BY <1>1, <1>3, <1>4, <1>6, <1>7 DEF DeviceInv, ClientsKept
  <1>10. InOnePlace(e)
    <2>1. \A p \in Connection : e.client[p].callbacks \subseteq d.client[p].callbacks
      BY <1>1, <1>4, <1>6, <1>7
    <2>2. e.client[Primary].callbacks \cap e.client[Secondary].callbacks = {}
      BY <2>1, Connections DEF DeviceInv, InOnePlace
    <2> QED
      BY <1>7, <2>1, <2>2 DEF DeviceInv, InOnePlace
  <1>11. /\ PendingIsLatest(e) /\ PendingIsAwaited(e, Null) /\ IdsAreOwned(e) /\ e.lastId <= MaxId
    BY <1>7, <1>8 DEF DeviceInv, PendingIsLatest, PendingIsAwaited, IdsAreOwned
  <1>12. TablesAreOlder(e) /\ CallsAwaitTheirs(e) /\ SentHaveBegun(e, Null)
    BY <1>7 DEF DeviceInv, TablesAreOlder, CallsAwaitTheirs, SentHaveBegun
  <1> QED
    BY <1>5, <1>7, <1>8, <1>9, <1>10, <1>11, <1>12, <1>a DEF DeviceInv

(* Induction over the naturals, for sets: the library's theorem takes an    *)
(* operator, which the provers cannot instantiate.                          *)
LEMMA LeastNat ==
  ASSUME NEW T, T \subseteq Nat, T # {}
  PROVE  \E m \in T : \A k \in T : ~(k < m)
  <1> DEFINE R == {ss \in Nat \X Nat : ss[1] < ss[2]}
  <1>1. IsWellFoundedOn(R, Nat)
    BY NatLessThanWellFounded DEF OpToRel
  <1>2. \A x, y \in Nat : x < y => <<x, y>> \in R
    OBVIOUS
  <1> HIDE DEF R
  <1>3. \E x \in T : \A y \in T : ~(<<y, x>> \in R)
    BY <1>1, WFMin
  <1> QED
    BY <1>2, <1>3

LEMMA SetInduction ==
  ASSUME NEW S, 0 \in S, \A n \in Nat : n \in S => n + 1 \in S
  PROVE  Nat \subseteq S
  <1> DEFINE T == Nat \ S
  <1> SUFFICES ASSUME T # {} PROVE FALSE
    OBVIOUS
  <1>1. PICK m \in T : \A k \in T : ~(k < m)
    BY LeastNat
  <1>2. m # 0
    OBVIOUS
  <1>3. m - 1 \in Nat /\ m - 1 < m /\ (m - 1) + 1 = m
    BY <1>2
  <1> QED
    BY <1>1, <1>3

(* g holds the devices that receiveQueue goes through for m messages.       *)
Receives(g, m, d, c, queue, table) ==
  g = [n \in 0 .. m |->
         IF n = 0 THEN d ELSE Forward(g[n - 1], c, d.owner[queue[n]], table)]

LEMMA ReceivesExists ==
  ASSUME NEW d, NEW c, NEW queue, NEW table
  PROVE  \A m \in Nat : \E g : Receives(g, m, d, c, queue, table)
  <1> DEFINE S == {m \in Nat : \E g : Receives(g, m, d, c, queue, table)}
             To(e, n) == Forward(e, c, d.owner[queue[n]], table)
  <1>1. 0 \in S
    <2> DEFINE g == [n \in 0 .. 0 |-> d]
    <2>1. g = [n \in 0 .. 0 |-> IF n = 0 THEN d ELSE To(g[n - 1], n)]
      OBVIOUS
    <2> HIDE DEF g
    <2> QED
      BY <2>1 DEF Receives
  <1>2. ASSUME NEW m \in Nat, m \in S PROVE m + 1 \in S
    <2>1. PICK g : g = [n \in 0 .. m |-> IF n = 0 THEN d ELSE To(g[n - 1], n)]
      BY <1>2 DEF Receives
    <2> HIDE DEF To
    <2> DEFINE h == [n \in 0 .. m + 1 |-> IF n = m + 1 THEN To(g[m], n) ELSE g[n]]
    <2>2. ASSUME NEW n \in 0 .. m + 1
          PROVE  h[n] = IF n = 0 THEN d ELSE To(h[n - 1], n)
      <3>1. CASE n = m + 1
        <4>1. n - 1 \in 0 .. m + 1 /\ n - 1 # m + 1 /\ n - 1 = m /\ n # 0
          BY <3>1
        <4> QED
          BY <3>1, <4>1
      <3>2. CASE n # m + 1 /\ n # 0
        <4>1. n - 1 \in 0 .. m + 1 /\ n - 1 # m + 1 /\ n \in 0 .. m
          BY <3>2
        <4>2. g[n] = To(g[n - 1], n)
          BY <2>1, <3>2, <4>1
        <4>3. h[n - 1] = g[n - 1] /\ h[n] = g[n]
          BY <3>2, <4>1
        <4> QED
          BY <3>2, <4>2, <4>3
      <3>3. CASE n = 0
        <4>1. 0 \in 0 .. m /\ n # m + 1
          BY <3>3
        <4>2. g[0] = d
          BY <2>1, <4>1
        <4> QED
          BY <3>3, <4>1, <4>2
      <3> QED
        BY <3>1, <3>2, <3>3
    <2>3. h = [n \in 0 .. m + 1 |-> h[n]]
      OBVIOUS
    <2> HIDE DEF h
    <2>4. h = [n \in 0 .. m + 1 |-> IF n = 0 THEN d ELSE To(h[n - 1], n)]
      BY <2>2, <2>3, Zenon
    <2> QED
      BY <2>4 DEF Receives, To
  <1> HIDE DEF S
  <1>3. Nat \subseteq S
    BY <1>1, <1>2, SetInduction
  <1> QED
    BY <1>3 DEF S

(* receiveQueue handles one message after another.                          *)
LEMMA ReceiveQueueSteps ==
  ASSUME NEW d, NEW c, NEW queue, NEW table, Len(queue) \in Nat
  PROVE  \E g : /\ g[0] = d /\ g[Len(queue)] = ReceiveQueue(d, c, queue, table)
                /\ \A n \in 1 .. Len(queue) :
                     g[n] = Forward(g[n - 1], c, d.owner[queue[n]], table)
  <1> DEFINE len == Len(queue)
             g == CHOOSE g : Receives(g, len, d, c, queue, table)
  <1>1. Receives(g, len, d, c, queue, table)
    BY ReceivesExists, Zenon
  <1>2. ReceiveQueue(d, c, queue, table) = g[len]
    BY Zenon DEF ReceiveQueue, Receives
  <1> HIDE DEF g
  <1>3. g = [n \in 0 .. len |->
               IF n = 0 THEN d ELSE Forward(g[n - 1], c, d.owner[queue[n]], table)]
    BY <1>1 DEF Receives
  <1>4. g[0] = d
    BY <1>3
  <1>5. ASSUME NEW n \in 1 .. len
        PROVE  g[n] = Forward(g[n - 1], c, d.owner[queue[n]], table)
    <2>1. n \in 0 .. len /\ n # 0
      OBVIOUS
    <2> QED
      BY <1>3, <2>1
  <1> QED
    BY <1>2, <1>4, <1>5

(* Each message draws one id, also where the ids run out.                   *)
LEMMA ForwardCounts ==
  ASSUME NEW e, "lastId" \in DOMAIN e, NEW c, NEW k, NEW table
  PROVE  LET f == Forward(e, c, k, table)
         IN  "lastId" \in DOMAIN f /\ f.lastId = e.lastId + 1
  <1> DEFINE id == e.lastId + 1
             b == [e EXCEPT !.lastId = id, !.owner[id] = k, !.latest[k] = id]
             q == QueueOn(e, c, k)
  <1>1. DOMAIN b = DOMAIN e /\ b.lastId = id
    OBVIOUS
  <1>2. q = Handled(b, c, QueueCommand(e.client[c], id), Null, "timeout")
    BY DEF QueueOn
  <1> HIDE DEF b
  <1>3. DOMAIN q = DOMAIN b /\ q.lastId = b.lastId
    BY <1>1, <1>2 DEF Handled
  <1> HIDE DEF q
  <1>4. Forward(e, c, k, table) = [q EXCEPT !.tables[q.lastId] = table]
    BY DEF Forward, q
  <1> QED
    BY <1>1, <1>3, <1>4

LEMMA ReceiveQueueCounts ==
  ASSUME NEW d \in Device, NEW c, NEW queue, NEW table, Len(queue) \in Nat
  PROVE  LET f == ReceiveQueue(d, c, queue, table)
         IN  "lastId" \in DOMAIN f /\ f.lastId = d.lastId + Len(queue)
  <1>1. PICK g : /\ g[0] = d /\ g[Len(queue)] = ReceiveQueue(d, c, queue, table)
                 /\ \A n \in 1 .. Len(queue) :
                      g[n] = Forward(g[n - 1], c, d.owner[queue[n]], table)
    BY ReceiveQueueSteps
  <1> DEFINE S == {n \in Nat : n <= Len(queue) =>
                     "lastId" \in DOMAIN g[n] /\ g[n].lastId = d.lastId + n}
  <1>2. d.lastId \in Nat /\ "lastId" \in DOMAIN d
    BY DEF Device
  <1>3. 0 \in S
    BY <1>1, <1>2
  <1>4. ASSUME NEW n \in Nat, n \in S, n + 1 <= Len(queue)
        PROVE  "lastId" \in DOMAIN g[n + 1] /\ g[n + 1].lastId = d.lastId + (n + 1)
    <2>1. n + 1 \in 1 .. Len(queue) /\ (n + 1) - 1 = n /\ n <= Len(queue)
      BY <1>4
    <2>2. g[n + 1] = Forward(g[n], c, d.owner[queue[n + 1]], table)
      BY <1>1, <2>1
    <2>3. "lastId" \in DOMAIN g[n] /\ g[n].lastId = d.lastId + n
      BY <1>4, <2>1
    <2>4. "lastId" \in DOMAIN g[n + 1] /\ g[n + 1].lastId = g[n].lastId + 1
      BY <2>2, <2>3, ForwardCounts
    <2> QED
      BY <1>2, <2>3, <2>4
  <1>5. \A n \in Nat : n \in S => n + 1 \in S
    BY <1>4
  <1> HIDE DEF S
  <1>6. Len(queue) \in S
    BY <1>3, <1>5, SetInduction
  <1> QED
    BY <1>1, <1>6 DEF S

(* What is pending after receiveQueue: what was, and messages of the owners *)
(* of the queue, under new ids.                                             *)
Received(d, e, queue, n) ==
  /\ DeviceInv(e, Null) /\ e.lastId = d.lastId + n /\ e.current = d.current /\ e.call = d.call
  /\ \A id \in Id : id <= d.lastId => e.owner[id] = d.owner[id]
  /\ Pending(d) \subseteq Pending(e)
  /\ \A id \in Pending(e) :
       id \in Pending(d) \/ (id > d.lastId /\ \E i \in 1 .. n : e.owner[id] = d.owner[queue[i]])

(* The messages of a queue that is handed over: of different commands, that *)
(* are not pending, and each under the id it has.                           *)
HandedOver(d, queue, table) ==
  /\ queue \in Seq(Id) /\ table \in SUBSET Id
  /\ \A id \in table : id <= d.lastId
  /\ \A i, j \in 1 .. Len(queue) : i < j => queue[i] < queue[j]
  /\ \A i \in 1 .. Len(queue) :
       /\ queue[i] \in table /\ d.latest[d.owner[queue[i]]] = queue[i]
       /\ Absent(d, d.owner[queue[i]])

LEMMA ReceivedNext ==
  ASSUME NEW d, NEW c \in Connection, NEW queue, NEW table, DeviceInv(d, Null),
         HandedOver(d, queue, table), NEW n \in Nat, n + 1 <= Len(queue),
         d.lastId + Len(queue) <= MaxId, NEW e, Received(d, e, queue, n)
  PROVE  Received(d, Forward(e, c, d.owner[queue[n + 1]], table), queue, n + 1)
  <1>a. PICK id, k, f : id = queue[n + 1] /\ k = d.owner[id] /\ f = Forward(e, c, k, table)
    OBVIOUS
  <1>0. /\ d \in Device /\ d.lastId \in Nat /\ e \in Device /\ Len(queue) \in Nat
        /\ n + 1 \in 1 .. Len(queue) /\ MaxId \in Nat
    BY DeviceFields, MaxIdAssumption DEF DeviceInv, Received, HandedOver
  <1>1. id \in table /\ id \in Id /\ id <= d.lastId /\ d.latest[k] = id /\ table \in SUBSET Id
    BY <1>0, <1>a DEF HandedOver
  <1>2. k \in Command /\ d.call[k].phase # "new"
    BY <1>1, <1>a, IdNat DEF DeviceInv, IdsAreOwned, SentHaveBegun
  <1>3. Absent(e, k)
    <2> SUFFICES ASSUME NEW p \in Pending(e) PROVE e.owner[p] # k
      BY DEF Absent
    <2>1. CASE p \in Pending(d)
      <3>1. p \in Id /\ p <= d.lastId
        BY <2>1, PendingIds DEF DeviceInv, PendingIsLatest
      <3>2. e.owner[p] = d.owner[p]
        BY <3>1 DEF Received
      <3>3. d.owner[p] # k
        BY <1>0, <1>a, <2>1 DEF HandedOver, Absent
      <3> QED
        BY <3>2, <3>3
    <2>2. CASE \E i \in 1 .. n : e.owner[p] = d.owner[queue[i]]
      <3>1. PICK i \in 1 .. n : e.owner[p] = d.owner[queue[i]]
        BY <2>2
      <3>2. i \in 1 .. Len(queue) /\ i < n + 1
        BY <1>0
      <3>3. queue[i] < id /\ queue[i] \in Id /\ d.latest[d.owner[queue[i]]] = queue[i]
        BY <1>0, <1>a, <3>2 DEF HandedOver
      <3>4. queue[i] # id
        BY <1>1, <3>3, IdNat
      <3> QED
        BY <1>1, <3>1, <3>3, <3>4
    <2> QED
      BY <2>1, <2>2 DEF Received
  <1>4. e.lastId < MaxId /\ e.lastId = d.lastId + n /\ e.call = d.call /\ e.current = d.current
    BY <1>0 DEF Received
  <1>5. \A t \in table : t <= e.lastId
    <2>1. \A t \in table : t \in Nat /\ t <= d.lastId
      BY IdNat DEF HandedOver
    <2> QED
      BY <1>0, <1>4, <2>1
  <1>6. /\ DeviceInv(f, Null) /\ f.lastId = e.lastId + 1 /\ f.current = e.current
        /\ Pending(f) = Pending(e) \cup {f.lastId} /\ f.lastId \in Id
        /\ f.call = e.call /\ f.owner[f.lastId] = k
        /\ \A i \in Id : i <= e.lastId => f.owner[i] = e.owner[i]
    BY <1>1, <1>2, <1>3, <1>4, <1>5, <1>a, ForwardKeeps DEF Received
  <1>7. f.lastId = d.lastId + (n + 1)
    BY <1>0, <1>4, <1>6
  <1>8. ASSUME NEW i \in Id, i <= d.lastId PROVE f.owner[i] = d.owner[i]
    <2>1. i <= e.lastId
      BY <1>0, <1>4, <1>8, IdNat
    <2> QED
      BY <1>6, <1>8, <2>1 DEF Received
  <1>9. ASSUME NEW p \in Pending(f)
        PROVE  p \in Pending(d) \/ (p > d.lastId /\
                                    \E i \in 1 .. n + 1 : f.owner[p] = d.owner[queue[i]])
    <2>1. CASE p = f.lastId
      <3>1. p > d.lastId /\ n + 1 \in 1 .. n + 1
        BY <1>0, <1>7, <2>1
      <3>2. f.owner[p] = d.owner[queue[n + 1]]
        BY <1>6, <1>a, <2>1
      <3> QED
        BY <3>1, <3>2
    <2>2. CASE p \in Pending(e)
      <3>1. p \in Id /\ p <= e.lastId
        BY <2>2, PendingIds DEF Received, DeviceInv, PendingIsLatest
      <3>2. f.owner[p] = e.owner[p]
        BY <1>6, <3>1
      <3>3. p \in Pending(d) \/ (p > d.lastId /\ \E i \in 1 .. n : e.owner[p] = d.owner[queue[i]])
        BY <2>2 DEF Received
      <3>4. \A i \in 1 .. n : i \in 1 .. n + 1
        OBVIOUS
      <3> QED
        BY <3>2, <3>3, <3>4
    <2> QED
      BY <1>6, <2>1, <2>2
  <1> QED
    BY <1>4, <1>6, <1>7, <1>8, <1>9, <1>a DEF Received

LEMMA ReceiveQueueKeeps ==
  ASSUME NEW d, NEW c \in Connection, NEW queue, NEW table, DeviceInv(d, Null),
         HandedOver(d, queue, table), ReceiveQueue(d, c, queue, table).lastId <= MaxId
  PROVE  Received(d, ReceiveQueue(d, c, queue, table), queue, Len(queue))
  <1>0. d \in Device /\ d.lastId \in Nat /\ Len(queue) \in Nat
    BY DeviceFields DEF DeviceInv, HandedOver
  <1>1. d.lastId + Len(queue) <= MaxId
    BY <1>0, ReceiveQueueCounts
  <1>2. PICK g : /\ g[0] = d /\ g[Len(queue)] = ReceiveQueue(d, c, queue, table)
                 /\ \A n \in 1 .. Len(queue) :
                      g[n] = Forward(g[n - 1], c, d.owner[queue[n]], table)
    BY <1>0, ReceiveQueueSteps
  <1> DEFINE S == {n \in Nat : n <= Len(queue) => Received(d, g[n], queue, n)}
  <1>3. 0 \in S
    BY <1>0, <1>2 DEF Received
  <1>4. ASSUME NEW n \in Nat, n \in S, n + 1 <= Len(queue)
        PROVE  Received(d, g[n + 1], queue, n + 1)
    <2>1. n + 1 \in 1 .. Len(queue) /\ (n + 1) - 1 = n /\ n <= Len(queue)
      BY <1>0, <1>4
    <2>2. g[n + 1] = Forward(g[n], c, d.owner[queue[n + 1]], table)
      BY <1>2, <2>1
    <2>3. Received(d, g[n], queue, n)
      BY <1>4, <2>1
    <2> QED
      BY <1>1, <1>4, <2>2, <2>3, ReceivedNext
  <1>5. \A n \in Nat : n \in S => n + 1 \in S
    BY <1>4
  <1> HIDE DEF S
  <1>6. Len(queue) \in S
    BY <1>0, <1>3, <1>5, SetInduction
  <1> QED
    BY <1>0, <1>2, <1>6 DEF S

(* After switchConnections the commands of the other connection are still   *)
(* pending, and of this one those that were in its queue, under new ids.    *)
LEMMA SwitchKeeps ==
  ASSUME NEW d, DeviceInv(d, Null), SwitchConnections(d).lastId <= MaxId
  PROVE  LET f == SwitchConnections(d)
         IN  /\ DeviceInv(f, Null) /\ d.lastId <= f.lastId /\ f.current = Other(d.current)
             /\ f.call = d.call
             /\ \A id \in Pending(f) : id \in Pending(d) \/ id > d.lastId
             /\ \A k \in Command : Absent(d, k) => Absent(f, k)
  <1>a. PICK e, old, f : e = LeftConnection(d) /\ old = d.client[d.current]
                         /\ f = SwitchConnections(d)
    OBVIOUS
  <1>0. /\ d \in Device /\ d.lastId \in Nat /\ d.current \in Connection /\ old \in Client
        /\ Other(d.current) \in Connection
    BY <1>a, DeviceFields, Connections DEF DeviceInv
  <1>1. f = ReceiveQueue(e, Other(d.current), old.queue, old.callbacks)
    BY <1>a DEF SwitchConnections, LeftConnection
  <1>2. /\ DeviceInv(e, Null) /\ e.current = Other(d.current)
        /\ Pending(e) = Pending(d) \ old.callbacks
        /\ e.lastId = d.lastId /\ e.owner = d.owner /\ e.latest = d.latest /\ e.call = d.call
    BY <1>a, LeftKeeps
  <1>3. Consistent(old, d.lastId)
    BY <1>0, <1>a DEF DeviceInv, ClientsKept
  <1>4. old.callbacks \subseteq Pending(d)
    BY <1>0, <1>a, PendingOf
  <1>5. ASSUME NEW i \in 1 .. Len(old.queue)
        PROVE  /\ old.queue[i] \in old.callbacks
               /\ d.latest[d.owner[old.queue[i]]] = old.queue[i]
               /\ Absent(e, d.owner[old.queue[i]])
    <2>1. old.queue[i] \in old.callbacks
      BY <1>3 DEF Consistent, QueueOrdered
    <2>2. d.latest[d.owner[old.queue[i]]] = old.queue[i]
      BY <1>4, <2>1 DEF DeviceInv, PendingIsLatest
    <2>3. ASSUME NEW p \in Pending(e) PROVE e.owner[p] # d.owner[old.queue[i]]
      <3>1. p \in Pending(d) /\ p \notin old.callbacks
        BY <1>2
      <3>2. d.latest[d.owner[p]] = p
        BY <3>1 DEF DeviceInv, PendingIsLatest
      <3> QED
        BY <1>2, <2>1, <2>2, <3>1, <3>2
    <2> QED
      BY <2>1, <2>2, <2>3 DEF Absent
  <1>6. HandedOver(e, old.queue, old.callbacks)
    <2>1. old.queue \in Seq(Id) /\ old.callbacks \in SUBSET Id
      BY <1>0 DEF Client
    <2>2. \A id \in old.callbacks : id <= d.lastId
      BY <1>3 DEF Consistent, CallbacksKept
    <2>3. \A i, j \in 1 .. Len(old.queue) : i < j => old.queue[i] < old.queue[j]
      BY <1>3 DEF Consistent, QueueOrdered
    <2> QED
      BY <1>2, <1>5, <2>1, <2>2, <2>3 DEF HandedOver
  <1>7. Received(e, f, old.queue, Len(old.queue))
    BY <1>0, <1>1, <1>2, <1>6, <1>a, ReceiveQueueKeeps
  <1>8. Len(old.queue) \in Nat
    BY <1>0 DEF Client
  <1>9. d.lastId <= f.lastId
    BY <1>0, <1>2, <1>7, <1>8 DEF Received
  <1>10. \A id \in Pending(f) : id \in Pending(d) \/ id > d.lastId
    BY <1>2, <1>7 DEF Received
  <1>11. ASSUME NEW k \in Command, Absent(d, k) PROVE Absent(f, k)
    <2> SUFFICES ASSUME NEW p \in Pending(f) PROVE f.owner[p] # k
      BY DEF Absent
    <2>1. CASE p \in Pending(e)
      <3>1. p \in Id /\ p <= e.lastId /\ p \in Pending(d)
        BY <1>2, <2>1, PendingIds DEF DeviceInv, PendingIsLatest
      <3>2. f.owner[p] = d.owner[p]
        BY <1>2, <1>7, <3>1 DEF Received
      <3> QED
        BY <1>11, <3>1, <3>2 DEF Absent
    <2>2. CASE \E i \in 1 .. Len(old.queue) : f.owner[p] = e.owner[old.queue[i]]
      <3>1. PICK i \in 1 .. Len(old.queue) : f.owner[p] = d.owner[old.queue[i]]
        BY <1>2, <2>2
      <3> QED
        BY <1>4, <1>5, <1>11, <3>1 DEF Absent
    <2> QED
      BY <1>7, <2>1, <2>2 DEF Received
  <1> QED
    BY <1>2, <1>7, <1>9, <1>10, <1>11, <1>a DEF Received

LEMMA SwitchCounts ==
  ASSUME NEW d \in Device
  PROVE  LET f == SwitchConnections(d)
         IN  "lastId" \in DOMAIN f /\ f.lastId \in Nat /\ d.lastId <= f.lastId
  <1>a. PICK e, old : e = LeftConnection(d) /\ old = d.client[d.current]
    OBVIOUS
  <1>0. /\ d.lastId \in Nat /\ d.current \in Connection /\ old \in Client
        /\ d.client \in [Connection -> Client] /\ Other(d.current) \in Connection
    BY <1>a, DeviceFields, Connections
  <1>1. SwitchConnections(d) = ReceiveQueue(e, Other(d.current), old.queue, old.callbacks)
    BY <1>a DEF SwitchConnections, LeftConnection
  <1>2. old.queue \in Seq(Id)
    BY <1>0 DEF Client
  <1>3. Len(old.queue) \in Nat
    BY <1>2
  <1> DEFINE h == HandOverQueue(old)
             cl == [d.client EXCEPT ![d.current] = h]
             b == [d EXCEPT !.current = Other(d.current), !.client = cl]
  <1>4. h \in Client
    <2> DEFINE keep == old.sent # Null /\ old.sent \in HeartBeats
               g == IF keep THEN old.sent ELSE Null
               L == IF keep THEN old.lingeringCallbacks \cup ({old.sent} \cap old.callbacks)
                    ELSE old.lingeringCallbacks \ {old.lingering}
    <2>1. /\ g \in Id \cup {Null} /\ L \in SUBSET Id
          /\ h = [old EXCEPT !.lingering = g, !.lingeringCallbacks = L, !.queue = <<>>, !.aged = 0,
                             !.callbacks = {}, !.sent = Null, !.poll = FALSE]
      BY <1>0 DEF HandOverQueue, Client
    <2> HIDE DEF g, L
    <2>2. <<>> \in Seq(Id) /\ 0 \in Nat /\ {} \in SUBSET Id /\ FALSE \in BOOLEAN
      OBVIOUS
    <2> QED
      BY <1>0, <2>1, <2>2, Zenon DEF Client
  <1> HIDE DEF h
  <1>5. e = b
    BY <1>0, <1>a DEF LeftConnection, Device, h
  <1>6. cl \in [Connection -> Client]
    BY <1>0, <1>4
  <1> HIDE DEF cl
  <1>7. b \in Device /\ b.lastId = d.lastId
    BY <1>0, <1>6 DEF Device
  <1>8. e \in Device /\ e.lastId = d.lastId
    BY <1>5, <1>7
  <1> HIDE DEF b
  <1> DEFINE f == ReceiveQueue(e, Other(d.current), old.queue, old.callbacks)
  <1>9. "lastId" \in DOMAIN f /\ f.lastId = d.lastId + Len(old.queue)
    BY <1>3, <1>8, ReceiveQueueCounts
  <1> HIDE DEF f
  <1>10. f.lastId \in Nat /\ d.lastId <= f.lastId
    BY <1>0, <1>3, <1>9
  <1>11. SwitchConnections(d) = f
    BY <1>1 DEF f
  <1> QED
    BY <1>9, <1>10, <1>11

(* The promise of k is settled, and k is not in any client.                 *)
LEMMA SettleKeeps ==
  ASSUME NEW d, NEW k \in Command, NEW phase \in {"resolved", "rejected"},
         DeviceInv(d, Null), Absent(d, k)
  PROVE  LET s == Settle(d, k, phase)
         IN  /\ DeviceInv(s, Null) /\ Pending(s) = Pending(d) /\ s.current = d.current
             /\ s.lastId = d.lastId /\ s.call[k].phase = phase
             /\ \A other \in Command \ {k} : s.call[other] = d.call[other]
  <1>0. d \in Device
    BY DEF DeviceInv
  <1> DEFINE calls == [phase : {"new", "waiting", "resolved", "rejected"},
                       awaits : Id \cup {Null}, resend : BOOLEAN]
             rec == [d.call[k] EXCEPT !.phase = phase, !.awaits = Null]
             ca == [d.call EXCEPT ![k] = rec]
             s == [d EXCEPT !.call = ca]
  <1>1. d.call \in [Command -> calls]
    BY <1>0, DeviceFields
  <1>2. Settle(d, k, phase) = s
    BY <1>0 DEF Settle, Device
  <1>3. rec \in calls /\ rec.phase = phase
    BY <1>1
  <1> HIDE DEF rec
  <1>4. /\ ca \in [Command -> calls] /\ ca[k].phase = phase
        /\ \A other \in Command \ {k} : ca[other] = d.call[other]
    BY <1>1, <1>3
  <1> HIDE DEF ca
  <1>5. /\ s \in Device /\ s.call = ca /\ s.lastId = d.lastId /\ s.current = d.current
        /\ s.client = d.client /\ s.jobs = d.jobs /\ s.owner = d.owner /\ s.latest = d.latest
        /\ s.tables = d.tables
    BY <1>0, <1>4 DEF Device
  <1> HIDE DEF s, calls
  <1>6. Pending(s) = Pending(d)
    BY <1>5 DEF Pending
  <1>7. /\ ClientsKept(s) /\ IdsAreOwned(s) /\ InOnePlace(s) /\ PendingIsLatest(s)
        /\ TablesAreOlder(s) /\ s.lastId <= MaxId
    BY <1>5, <1>6 DEF DeviceInv, ClientsKept, IdsAreOwned, InOnePlace, PendingIsLatest,
         TablesAreOlder
  <1>8. phase # "waiting" /\ phase # "new"
    OBVIOUS
  <1>9. CallsAwaitTheirs(s)
    BY <1>4, <1>5, <1>8 DEF DeviceInv, CallsAwaitTheirs
  <1>10. SentHaveBegun(s, Null)
    <2> SUFFICES ASSUME NEW j \in Id, j <= d.lastId PROVE ca[d.owner[j]].phase # "new"
      BY <1>5 DEF SentHaveBegun
    <2>1. d.owner[j] \in Command /\ d.call[d.owner[j]].phase # "new"
      BY IdNat DEF DeviceInv, IdsAreOwned, SentHaveBegun
    <2> QED
      BY <1>4, <1>8, <2>1
  <1>11. PendingIsAwaited(s, Null)
    <2> SUFFICES ASSUME NEW p \in Pending(d), d.tables[p] = {}
                 PROVE  ca[d.owner[p]].phase = "waiting" /\ ca[d.owner[p]].awaits = p
      BY <1>5, <1>6 DEF PendingIsAwaited
    <2>1. d.owner[p] \in Command /\ d.owner[p] # k /\ p # Null
      BY PendingIds DEF Absent
    <2> QED
      BY <1>4, <2>1 DEF DeviceInv, PendingIsAwaited
  <1> QED
    BY <1>2, <1>4, <1>5, <1>6, <1>7, <1>9, <1>10, <1>11 DEF DeviceInv

LEMMA SendCounts ==
  ASSUME NEW e, "lastId" \in DOMAIN e, NEW k, NEW r
  PROVE  Send(e, k, r).lastId = e.lastId + 1
  <1> DEFINE id == e.lastId + 1
             b == [e EXCEPT !.lastId = id, !.owner[id] = k, !.latest[k] = id]
             q == QueueOn(e, e.current, k)
  <1>1. DOMAIN b = DOMAIN e /\ b.lastId = id
    OBVIOUS
  <1>2. q = Handled(b, e.current, QueueCommand(e.client[e.current], id), Null, "timeout")
    BY DEF QueueOn
  <1> HIDE DEF b
  <1>3. DOMAIN q = DOMAIN b /\ q.lastId = b.lastId
    BY <1>1, <1>2 DEF Handled
  <1> HIDE DEF q
  <1>4. Send(e, k, r) =
          [q EXCEPT !.call[k] = [phase |-> "waiting", awaits |-> q.lastId, resend |-> r]]
    BY DEF Send, q
  <1> QED
    BY <1>1, <1>3, <1>4

(* d becomes s when executeCommand has run for k up to its next await: k    *)
(* waits for a promise that is pending, or its phase is one of settled.  No *)
(* other command is touched as long as the device stays on its connection.  *)
Ends(d, s, k, settled) ==
  /\ DeviceInv(s, Null)
  /\ \A other \in Command \ {k} : s.call[other] = d.call[other]
  /\ \A id \in Pending(s) : id \in Pending(d) \/ id > d.lastId
  /\ s.current = d.current => Pending(d) \subseteq Pending(s)
  /\ \/ s.call[k].phase = "waiting" /\ s.call[k].awaits \in Pending(s)
     \/ s.call[k].phase \in settled

LEMMA SendEnds ==
  ASSUME NEW d, NEW k \in Command, NEW r \in BOOLEAN, NEW settled,
         DeviceInv(d, Null), Absent(d, k), Send(d, k, r).lastId <= MaxId
  PROVE  Ends(d, Send(d, k, r), k, settled)
  <1>a. PICK s : s = Send(d, k, r)
    OBVIOUS
  <1>0. d.lastId \in Nat /\ "lastId" \in DOMAIN d /\ MaxId \in Nat
    BY DeviceFields, MaxIdAssumption DEF DeviceInv, Device
  <1>1. s.lastId = d.lastId + 1
    BY <1>0, <1>a, SendCounts
  <1>2. d.lastId < MaxId
    BY <1>0, <1>1, <1>a
  <1>3. /\ DeviceInv(s, Null) /\ s.current = d.current
        /\ Pending(s) = Pending(d) \cup {s.lastId}
        /\ s.call[k].phase = "waiting" /\ s.call[k].awaits = s.lastId
        /\ \A other \in Command \ {k} : s.call[other] = d.call[other]
    BY <1>2, <1>a, SendKeeps
  <1>4. s.lastId > d.lastId
    BY <1>0, <1>1
  <1> QED
    BY <1>3, <1>4, <1>a DEF Ends

LEMMA SwitchAndSendEnds ==
  ASSUME NEW d, NEW k \in Command, NEW settled, "rejected" \in settled,
         DeviceInv(d, Null), Absent(d, k), SwitchAndSend(d, k).lastId <= MaxId
  PROVE  Ends(d, SwitchAndSend(d, k), k, settled)
  <1>0. d \in Device /\ d.lastId \in Nat /\ d.current \in Connection
    BY DeviceFields DEF DeviceInv
  <1>1. CASE CanSwitch(d)
    <2>a. PICK w, s : w = SwitchConnections(d) /\ s = Send(w, k, TRUE)
      OBVIOUS
    <2>1. s = SwitchAndSend(d, k)
      BY <1>1, <2>a DEF SwitchAndSend
    <2>2. "lastId" \in DOMAIN w /\ w.lastId \in Nat
      BY <1>0, <2>a, SwitchCounts
    <2>3. s.lastId = w.lastId + 1
      BY <2>2, <2>a, SendCounts
    <2>4. w.lastId <= MaxId
      BY <2>1, <2>2, <2>3, MaxIdAssumption
    <2>5. /\ DeviceInv(w, Null) /\ d.lastId <= w.lastId /\ w.current = Other(d.current)
          /\ w.call = d.call
          /\ \A id \in Pending(w) : id \in Pending(d) \/ id > d.lastId
          /\ Absent(w, k)
      BY <2>4, <2>a, SwitchKeeps
    <2>6. Ends(w, s, k, settled)
      BY <2>1, <2>5, <2>a, SendEnds
    <2>7. s.current = w.current
      <3>1. w.lastId < MaxId
        BY <2>1, <2>2, <2>3, MaxIdAssumption
      <3> QED
        BY <2>5, <2>a, <3>1, SendKeeps
    <2>8. s.current # d.current
      BY <1>0, <2>5, <2>7, Connections
    <2>9. ASSUME NEW id \in Pending(s) PROVE id \in Pending(d) \/ id > d.lastId
      <3>1. CASE id \in Pending(w)
        BY <2>5, <3>1
      <3>2. CASE id > w.lastId
        <4>1. id \in Nat
          BY <2>6, PendingIds, IdNat DEF Ends
        <4> QED
          BY <1>0, <2>2, <2>5, <3>2, <4>1
      <3> QED
        BY <2>6, <3>1, <3>2 DEF Ends
    <2> QED
      BY <2>1, <2>5, <2>6, <2>8, <2>9 DEF Ends
  <1>2. CASE ~CanSwitch(d)
    <2>1. SwitchAndSend(d, k) = Settle(d, k, "rejected")
      BY <1>2 DEF SwitchAndSend
    <2> QED
      BY <2>1, SettleKeeps DEF Ends
  <1> QED
    BY <1>1, <1>2

LEMMA ExecuteEnds ==
  ASSUME NEW d, NEW k \in Command, NEW settled, "rejected" \in settled,
         DeviceInv(d, Null), Absent(d, k), Execute(d, k).lastId <= MaxId
  PROVE  Ends(d, Execute(d, k), k, settled)
  BY SendEnds, SwitchAndSendEnds DEF Execute

LEMMA ContinueEnds ==
  ASSUME NEW d, NEW k \in Command, NEW out,
         DeviceInv(d, Null), Absent(d, k), Continue(d, k, out).lastId <= MaxId
  PROVE  Ends(d, Continue(d, k, out), k, {"resolved", "rejected"})
  <1>0. d \in Device /\ d.current \in Connection
    BY DeviceFields DEF DeviceInv
  <1>1. CASE out = "reply"
    BY <1>1, SettleKeeps DEF Continue, Ends
  <1>2. CASE out # "reply" /\ (~d.call[k].resend \/ out = "main")
    <2>1. Continue(d, k, out) = SwitchAndSend(d, k)
      BY <1>2 DEF Continue
    <2> QED
      BY <2>1, SwitchAndSendEnds
  <1>3. CASE out # "reply" /\ ~(~d.call[k].resend \/ out = "main") /\ ~CanSwitch(d)
    <2>1. Continue(d, k, out) = Settle(d, k, "rejected")
      BY <1>3 DEF Continue
    <2> QED
      BY <2>1, SettleKeeps DEF Ends
  <1>4. CASE out # "reply" /\ ~(~d.call[k].resend \/ out = "main") /\ CanSwitch(d)
    <2>a. PICK w, s : w = SwitchConnections(d) /\ s = Settle(w, k, "rejected")
      OBVIOUS
    <2>1. Continue(d, k, out) = s
      BY <1>4, <2>a DEF Continue
    <2>2. s.lastId = w.lastId
      <3>1. "lastId" \in DOMAIN w
        BY <1>0, <2>a, SwitchCounts
      <3> QED
        BY <2>a, <3>1 DEF Settle
    <2>3. /\ DeviceInv(w, Null) /\ w.current = Other(d.current) /\ w.call = d.call
          /\ \A id \in Pending(w) : id \in Pending(d) \/ id > d.lastId
          /\ Absent(w, k)
      BY <2>1, <2>2, <2>a, SwitchKeeps
    <2>4. /\ DeviceInv(s, Null) /\ Pending(s) = Pending(w) /\ s.current = w.current
          /\ s.call[k].phase = "rejected"
          /\ \A other \in Command \ {k} : s.call[other] = w.call[other]
      BY <2>3, <2>a, SettleKeeps
    <2>5. s.current # d.current
      BY <1>0, <2>3, <2>4, Connections
    <2> QED
      BY <2>1, <2>3, <2>4, <2>5 DEF Ends
  <1> QED
    BY <1>1, <1>2, <1>3, <1>4

-----------------------------------------------------------------------------
(* The steps, and what they do to the promises of the application.          *)

LostIn(d, k) == d.call[k].phase = "waiting" /\ d.call[k].awaits \notin Pending(d)
StatusIn(d, k) == IF LostIn(d, k) THEN "lost" ELSE d.call[k].phase

(* The step from d to f is one of CommandPromise.                           *)
Follows(d, f) ==
  /\ DeviceInv(f, Null)
  /\ \A k \in Command :
       \/ StatusIn(f, k) = StatusIn(d, k)
       \/ <<StatusIn(d, k), StatusIn(f, k)>> \in Promise!Moves
  /\ f.current = d.current => \A k \in Command : LostIn(f, k) => LostIn(d, k)

(* A command that does not act: it may only lose its promise, and then the  *)
(* device has switched.                                                     *)
LEMMA OthersFollow ==
  ASSUME NEW d, NEW f, NEW k \in Command, DeviceInv(d, Null),
         f.call[k] = d.call[k],
         \A id \in Pending(f) : id \in Pending(d) \/ id > d.lastId,
         f.current = d.current => (d.call[k].awaits \in Pending(d) =>
                                     d.call[k].awaits \in Pending(f))
  PROVE  /\ \/ StatusIn(f, k) = StatusIn(d, k)
            \/ <<StatusIn(d, k), StatusIn(f, k)>> \in Promise!Moves
         /\ f.current = d.current => (LostIn(f, k) => LostIn(d, k))
  <1>1. LostIn(d, k) => LostIn(f, k)
    <2> SUFFICES ASSUME LostIn(d, k) PROVE LostIn(f, k)
      OBVIOUS
    <2>1. d.call[k].awaits \in Id /\ d.call[k].awaits <= d.lastId /\ d.lastId \in Nat
      BY DeviceFields DEF DeviceInv, CallsAwaitTheirs, LostIn
    <2>2. \A i \in Id, n \in Nat : i <= n => ~(i > n)
      BY IdNat
    <2> QED
      BY <2>1, <2>2 DEF LostIn
  <1> QED
    BY <1>1 DEF LostIn, StatusIn, Promise!Moves

(* e is d, but for the continuation of x, which runs in this step.          *)
LEMMA EndsFollows ==
  ASSUME NEW d, NEW e, NEW f, NEW k \in Command, NEW x, NEW settled,
         DeviceInv(d, Null), e.call = d.call, e.lastId = d.lastId, e.current = d.current,
         Pending(e) = Pending(d) \ {x}, Ends(e, f, k, settled),
         \A other \in Command \ {k} :
           d.call[other].phase = "waiting" => d.call[other].awaits # x,
         \/ d.call[k].phase = "new" /\ settled = {"rejected"}
         \/ d.call[k].phase = "waiting" /\ ~LostIn(d, k) /\ settled = {"resolved", "rejected"}
  PROVE  Follows(d, f)
  <1>1. ASSUME NEW other \in Command \ {k}
        PROVE  /\ \/ StatusIn(f, other) = StatusIn(d, other)
                  \/ <<StatusIn(d, other), StatusIn(f, other)>> \in Promise!Moves
               /\ f.current = d.current => (LostIn(f, other) => LostIn(d, other))
    <2>1. f.call[other] = d.call[other]
      BY DEF Ends
    <2>2. \A id \in Pending(f) : id \in Pending(d) \/ id > d.lastId
      BY DEF Ends
    <2>3. CASE d.call[other].phase = "waiting"
      <3>1. f.current = d.current => (d.call[other].awaits \in Pending(d) =>
                                        d.call[other].awaits \in Pending(f))
        BY <2>3 DEF Ends
      <3> QED
        BY <2>1, <2>2, <3>1, OthersFollow
    <2>4. CASE d.call[other].phase # "waiting"
      BY <2>1, <2>4 DEF StatusIn, LostIn
    <2> QED
      BY <2>3, <2>4
  <1>2. ~LostIn(f, k) /\ StatusIn(f, k) = f.call[k].phase
        /\ f.call[k].phase \in {"waiting"} \cup settled
    BY DEF Ends, LostIn, StatusIn
  <1>3. StatusIn(d, k) = d.call[k].phase
    BY DEF StatusIn, LostIn
  <1>4. \/ StatusIn(f, k) = StatusIn(d, k)
        \/ <<StatusIn(d, k), StatusIn(f, k)>> \in Promise!Moves
    BY <1>2, <1>3 DEF Promise!Moves
  <1>5. DeviceInv(f, Null)
    BY DEF Ends
  <1> QED
    BY <1>1, <1>2, <1>4, <1>5 DEF Follows

(* A step that settles promises, or none.                                   *)
LEMMA SameFollows ==
  ASSUME NEW d, NEW f, DeviceInv(d, Null), DeviceInv(f, Null),
         Pending(f) = Pending(d), f.call = d.call
  PROVE  Follows(d, f)
  BY DEF Follows, StatusIn, LostIn

LEMMA RequestFollows ==
  ASSUME DeviceInv(device, Null), NEW k \in Command, Request(k)
  PROVE  Follows(device, device')
  <1>a. PICK d, f : d = device /\ f = device'
    OBVIOUS
  <1>1. f = Execute(d, k) /\ f.lastId <= MaxId /\ d.call[k].phase = "new"
    BY <1>a DEF Request, Becomes
  <1>2. Absent(d, k)
    <2> SUFFICES ASSUME NEW p \in Pending(d) PROVE d.owner[p] # k
      BY DEF Absent
    <2>1. p \in Id /\ p # Null /\ p <= d.lastId
      BY <1>a, PendingIds DEF DeviceInv, PendingIsLatest
    <2> QED
      BY <1>1, <1>a, <2>1 DEF DeviceInv, SentHaveBegun
  <1>3. Ends(d, f, k, {"rejected"})
    BY <1>1, <1>2, <1>a, ExecuteEnds
  <1>4. /\ Pending(d) = Pending(d) \ {Null}
        /\ \A other \in Command \ {k} :
             d.call[other].phase = "waiting" => d.call[other].awaits # Null
    BY <1>a, PendingIds, IdNat DEF DeviceInv, CallsAwaitTheirs
  <1> QED
    BY <1>1, <1>3, <1>4, <1>a, EndsFollows

(* The continuation of a promise is removed from those that have to run.    *)
LEMMA JobRemoved ==
  ASSUME NEW d, DeviceInv(d, Null), NEW j \in d.jobs
  PROVE  LET e == [d EXCEPT !.jobs = @ \ {j}]
         IN  /\ DeviceInv(e, Null) /\ Pending(e) = Pending(d) \ {j.id}
             /\ e.call = d.call /\ e.lastId = d.lastId /\ e.current = d.current
             /\ e.owner = d.owner /\ e.latest = d.latest /\ e.tables = d.tables
  <1>0. d \in Device
    BY DEF DeviceInv
  <1> DEFINE js == d.jobs \ {j}
             e == [d EXCEPT !.jobs = js]
  <1>1. js \in SUBSET [id : Id, outcome : Outcome] /\ js \subseteq d.jobs
    BY <1>0, DeviceFields
  <1>2. /\ e \in Device /\ e.jobs = js /\ e.call = d.call /\ e.lastId = d.lastId
        /\ e.current = d.current /\ e.owner = d.owner /\ e.latest = d.latest
        /\ e.tables = d.tables /\ e.client = d.client
    BY <1>0, <1>1 DEF Device
  <1>3. e = [d EXCEPT !.jobs = @ \ {j}]
    BY <1>0 DEF Device
  <1> HIDE DEF e
  <1>4. Pending(e) = Pending(d) \ {j.id}
    <2>1. {i.id : i \in js} = {i.id : i \in d.jobs} \ {j.id}
      BY DEF DeviceInv, InOnePlace
    <2>2. j.id \notin d.client[Primary].callbacks /\ j.id \notin d.client[Secondary].callbacks
      BY Connections DEF DeviceInv, InOnePlace
    <2> HIDE DEF js
    <2> QED
      BY <1>2, <2>1, <2>2 DEF Pending
  <1>5. ClientsKept(e) /\ IdsAreOwned(e) /\ TablesAreOlder(e) /\ CallsAwaitTheirs(e)
        /\ SentHaveBegun(e, Null) /\ e.lastId <= MaxId
    BY <1>2 DEF DeviceInv, ClientsKept, IdsAreOwned, TablesAreOlder, CallsAwaitTheirs,
         SentHaveBegun
  <1>6. InOnePlace(e)
    BY <1>1, <1>2 DEF DeviceInv, InOnePlace
  <1>7. PendingIsLatest(e) /\ PendingIsAwaited(e, Null)
    BY <1>2, <1>4 DEF DeviceInv, PendingIsLatest, PendingIsAwaited
  <1> QED
    BY <1>2, <1>3, <1>4, <1>5, <1>6, <1>7 DEF DeviceInv

(* The continuation of receiveQueue finds nothing under the id that the     *)
(* message has now: that id is newer than every callback it was given.      *)
LEMMA RunJobFollows ==
  ASSUME DeviceInv(device, Null), RunJob
  PROVE  Follows(device, device')
  <1>a. PICK d, f : d = device /\ f = device'
    OBVIOUS
  <1>1. PICK j \in d.jobs :
          LET e == [d EXCEPT !.jobs = @ \ {j}]
          IN  IF e.tables[j.id] # {} THEN Becomes(CallBack(e, j.id, j.outcome))
              ELSE \E k \in Command :
                     /\ e.call[k].phase = "waiting" /\ e.call[k].awaits = j.id
                     /\ Becomes(Continue(e, k, j.outcome))
    BY <1>a DEF RunJob
  <1>b. PICK e : e = [d EXCEPT !.jobs = @ \ {j}]
    OBVIOUS
  <1>2. /\ DeviceInv(e, Null) /\ Pending(e) = Pending(d) \ {j.id}
        /\ e.call = d.call /\ e.lastId = d.lastId /\ e.current = d.current
        /\ e.owner = d.owner /\ e.latest = d.latest /\ e.tables = d.tables
    BY <1>a, <1>b, JobRemoved
  <1>3. j.id \in Pending(d) /\ j.id \in Id /\ d.latest[d.owner[j.id]] = j.id
    <2>1. j.id \in Pending(d)
      BY DEF Pending
    <2> QED
      BY <1>a, <2>1, PendingIds DEF DeviceInv, PendingIsLatest
  <1>4. CASE d.tables[j.id] # {}
    <2>1. j.id \notin d.tables[j.id]
      <3>1. \A old \in d.tables[j.id] : old < j.id
        BY <1>3, <1>a DEF DeviceInv, TablesAreOlder
      <3>2. \A i \in Id : ~(i < i)
        BY IdNat
      <3> QED
        BY <1>3, <3>1, <3>2
    <2>2. f = e
      BY <1>1, <1>2, <1>3, <1>4, <1>a, <1>b, <2>1 DEF CallBack, Becomes
    <2>3. ASSUME NEW k \in Command
          PROVE  StatusIn(f, k) = StatusIn(d, k) /\ (LostIn(f, k) => LostIn(d, k))
      <3>1. d.call[k].phase = "waiting" => d.call[k].awaits # j.id
        BY <1>4, <1>a DEF DeviceInv, CallsAwaitTheirs
      <3> QED
        BY <1>2, <2>2, <3>1 DEF StatusIn, LostIn
    <2> QED
      BY <1>2, <1>a, <2>2, <2>3 DEF Follows
  <1>5. CASE d.tables[j.id] = {}
    <2>1. PICK k \in Command : /\ d.call[k].phase = "waiting" /\ d.call[k].awaits = j.id
                               /\ Becomes(Continue(e, k, j.outcome))
      BY <1>1, <1>2, <1>5, <1>b
    <2>2. f = Continue(e, k, j.outcome) /\ f.lastId <= MaxId
      BY <1>a, <2>1 DEF Becomes
    <2>3. d.owner[j.id] = k
      BY <1>a, <2>1 DEF DeviceInv, CallsAwaitTheirs
    <2>4. Absent(e, k)
      <3> SUFFICES ASSUME NEW p \in Pending(e) PROVE e.owner[p] # k
        BY DEF Absent
      <3>1. p \in Pending(d) /\ p # j.id
        BY <1>2
      <3>2. d.latest[d.owner[p]] = p
        BY <1>a, <3>1 DEF DeviceInv, PendingIsLatest
      <3> QED
        BY <1>2, <1>3, <2>3, <3>1, <3>2
    <2>5. Ends(e, f, k, {"resolved", "rejected"})
      BY <1>2, <2>2, <2>4, ContinueEnds
    <2>6. ASSUME NEW other \in Command \ {k}, d.call[other].phase = "waiting"
          PROVE  d.call[other].awaits # j.id
      BY <1>a, <2>3, <2>6 DEF DeviceInv, CallsAwaitTheirs
    <2>7. ~LostIn(d, k)
      BY <1>3, <2>1 DEF LostIn
    <2> QED
      BY <1>2, <1>a, <2>1, <2>5, <2>6, <2>7, EndsFollows
  <1> QED
    BY <1>4, <1>5

LEMMA AnswerFollows ==
  ASSUME DeviceInv(device, Null), NEW c \in Connection, Answer(c)
  PROVE  Follows(device, device')
  <1>a. PICK d, f, q : d = device /\ f = device' /\ q = d.client[c]
    OBVIOUS
  <1>0. /\ d \in Device /\ d.lastId \in Nat /\ q \in Client /\ {"reply", "nack", "main"} \subseteq Outcome
        /\ Consistent(q, d.lastId) /\ Quiet(q) /\ q.sent # Null /\ q.sent \in Id
    <2>1. d \in Device /\ d.lastId \in Nat /\ q \in Client
      BY <1>a, DeviceFields DEF DeviceInv
    <2>2. q.sent # Null
      BY <1>a DEF Answer
    <2> QED
      BY <1>a, <2>1, <2>2 DEF DeviceInv, ClientsKept, Client, Outcome
  <1>1. /\ Answers(q, ReplyReceived(q, q.sent)) /\ Answers(q, BuddyNackReceived(q))
        /\ Consistent(ReplyReceived(q, q.sent), d.lastId)
        /\ Consistent(BuddyNackReceived(q), d.lastId)
    BY <1>0, ReplyAnswers, ReplySound DEF Quiet, Sound
  <1>2. \E out \in Outcome :
          \/ f = Handled(d, c, ReplyReceived(q, q.sent), q.sent, out)
          \/ f = Handled(d, c, BuddyNackReceived(q), q.sent, out)
    BY <1>a, <1>0 DEF Answer, Becomes
  <1>b. PICK e, out : /\ out \in Outcome /\ Consistent(e, d.lastId) /\ Answers(q, e)
                      /\ f = Handled(d, c, e, q.sent, out)
    BY <1>1, <1>2
  <1>3. DeviceInv(f, Null) /\ Pending(f) = Pending(d) /\ SameDevice(d, f)
    BY <1>b, <1>a, HandledKeeps
  <1> QED
    BY <1>3, <1>a, SameFollows DEF SameDevice

LEMMA TimersFollow ==
  ASSUME DeviceInv(device, Null), NEW c \in Connection, CommandTimer(c) \/ PollTimer(c)
  PROVE  Follows(device, device')
  <1>a. PICK d, f, q : d = device /\ f = device' /\ q = d.client[c]
    OBVIOUS
  <1>0. /\ d \in Device /\ d.lastId \in Nat /\ q \in Client /\ "timeout" \in Outcome
        /\ Consistent(q, d.lastId) /\ Quiet(q)
    <2>1. d \in Device /\ d.lastId \in Nat /\ q \in Client
      BY <1>a, DeviceFields DEF DeviceInv
    <2> QED
      BY <1>a, <2>1 DEF DeviceInv, ClientsKept, Outcome
  <1>1. \E e, awaited : /\ Consistent(e, d.lastId) /\ Answers(q, e)
                        /\ f = Handled(d, c, e, awaited, "timeout")
    <2>1. CASE CommandTimer(c)
      <3>1. PICK t \in q.timers : f = Handled(d, c, CommandTimeout(q, t[1], t[2]), t[1], "timeout")
        BY <1>a, <2>1 DEF CommandTimer, Becomes
      <3>2. t = <<t[1], t[2]>> /\ t[1] \in Id /\ t[2] \in BOOLEAN
        BY <1>0 DEF Client
      <3>3. /\ Consistent(CommandTimeout(q, t[1], t[2]), d.lastId)
            /\ Answers(q, CommandTimeout(q, t[1], t[2]))
        BY <1>0, <3>2, CommandTimeoutAnswers, CommandTimeoutSound DEF Quiet, Sound
      <3> QED
        BY <3>1, <3>3
    <2>2. CASE PollTimer(c)
      <3>1. f = Handled(d, c, PollTimeout(q), Null, "timeout")
        BY <1>a, <2>2 DEF PollTimer, Becomes
      <3>2. Consistent(PollTimeout(q), d.lastId) /\ Answers(q, PollTimeout(q))
        BY <1>0, PollAnswers, PollTimeoutSound DEF Quiet, Sound
      <3> QED
        BY <3>1, <3>2
    <2> QED
      BY <2>1, <2>2
  <1>b. PICK e, awaited, out : /\ Consistent(e, d.lastId) /\ Answers(d.client[c], e)
                               /\ f = Handled(d, c, e, awaited, out) /\ out = "timeout"
    BY <1>1, <1>a
  <1>2. out \in Outcome
    BY <1>b DEF Outcome
  <1>3. f = Handled(d, c, e, awaited, out) /\ Consistent(e, d.lastId) /\ Answers(d.client[c], e)
    BY <1>b
  <1>4. DeviceInv(f, Null) /\ Pending(f) = Pending(d) /\ SameDevice(d, f)
    <2>1. DeviceInv(d, Null)
      BY <1>a
    <2>2. LET g == Handled(d, c, e, awaited, out)
          IN  DeviceInv(g, Null) /\ Pending(g) = Pending(d) /\ SameDevice(d, g)
      BY <1>2, <1>3, <2>1, HandledKeeps, Zenon
    <2> QED
      BY <1>3, <2>2
  <1> QED
    BY <1>4, <1>a, SameFollows DEF SameDevice

(* The steps that only change what is known of a connection.                *)
LEMMA FlagsFollow ==
  ASSUME DeviceInv(device, Null), NEW c \in Connection,
         Age(c) \/ Socket(c) \/ HeartBeatOutcome(c)
  PROVE  Follows(device, device')
  <1>a. PICK d, f, q, o : d = device /\ f = device' /\ q = d.client[c] /\ o = Other(c)
    OBVIOUS
  <1>0. /\ d \in Device /\ d.lastId \in Nat /\ d.client \in [Connection -> Client]
        /\ d.up \in [Connection -> BOOLEAN] /\ q \in Client /\ o \in Connection /\ o # c
        /\ Consistent(q, d.lastId) /\ Quiet(q)
    <2>1. /\ d \in Device /\ d.lastId \in Nat /\ d.client \in [Connection -> Client]
          /\ d.up \in [Connection -> BOOLEAN] /\ q \in Client /\ o \in Connection /\ o # c
      BY <1>a, DeviceFields, Connections DEF DeviceInv
    <2> QED
      BY <1>a, <2>1 DEF DeviceInv, ClientsKept
  <1>1. ASSUME NEW e \in Client, Consistent(e, d.lastId), Quiet(e), e.callbacks = q.callbacks,
               f = [d EXCEPT !.client[c] = e]
        PROVE  Turned(d, f, c)
    <2> DEFINE cl == [d.client EXCEPT ![c] = e]
    <2>1. cl \in [Connection -> Client] /\ cl[c] = e /\ cl[o] = d.client[o]
      BY <1>0
    <2>2. f = [d EXCEPT !.client = cl]
      BY <1>0, <1>1 DEF Device
    <2> HIDE DEF cl
    <2>3. /\ f \in Device /\ f.client = cl /\ SameDevice(d, f) /\ f.jobs = d.jobs
      BY <1>0, <2>1, <2>2 DEF Device, SameDevice
    <2> QED
      BY <1>1, <1>a, <2>1, <2>3 DEF Turned, SameDevice
  <1>2. ASSUME Age(c) PROVE Turned(d, f, c)
    <2> DEFINE n == q.aged + 1
               e == [q EXCEPT !.aged = n]
    <2>1. f = [d EXCEPT !.client[c] = e] /\ q.aged < Len(q.queue)
      BY <1>0, <1>2, <1>a DEF Age, Device, Client
    <2>0. q.aged \in Nat
      BY <1>0 DEF Client
    <2>2. n \in Nat
      BY <2>0
    <2>3. /\ e \in Client /\ e.callbacks = q.callbacks /\ e.lingering = q.lingering
          /\ e.lingeringCallbacks = q.lingeringCallbacks /\ e.threw = q.threw
      BY <1>0, <2>2 DEF Client
    <2>4. Consistent(e, d.lastId)
      BY <1>0, <2>1, FlagsSound DEF Sound
    <2> HIDE DEF e
    <2> QED
      BY <1>0, <1>1, <2>1, <2>3, <2>4 DEF Quiet
  <1>3. ASSUME Socket(c) PROVE Turned(d, f, c)
    <2> DEFINE v == ~q.connected
               e == [q EXCEPT !.connected = v]
    <2>1. v \in BOOLEAN
      OBVIOUS
    <2>2. f = [d EXCEPT !.client[c] = e]
      BY <1>0, <1>3, <1>a DEF Socket, Device, Client
    <2> HIDE DEF v
    <2>3. /\ e \in Client /\ e.callbacks = q.callbacks /\ e.lingering = q.lingering
          /\ e.lingeringCallbacks = q.lingeringCallbacks /\ e.threw = q.threw
      BY <1>0, <2>1 DEF Client
    <2>4. Consistent(e, d.lastId)
      BY <1>0, <2>1, FlagsSound DEF Sound
    <2> HIDE DEF e
    <2> QED
      BY <1>0, <1>1, <2>2, <2>3, <2>4 DEF Quiet
  <1>4. ASSUME HeartBeatOutcome(c) PROVE Turned(d, f, c)
    <2> DEFINE u == [d.up EXCEPT ![c] = ~@]
    <2>1. u \in [Connection -> BOOLEAN] /\ f = [d EXCEPT !.up = u]
      BY <1>0, <1>4, <1>a DEF HeartBeatOutcome, Device
    <2> HIDE DEF u
    <2>2. f \in Device /\ SameDevice(d, f) /\ f.client = d.client /\ f.jobs = d.jobs
      BY <1>0, <2>1 DEF Device, SameDevice
    <2> QED
      BY <1>0, <1>a, <2>2 DEF Turned, SameDevice
  <1>5. Turned(d, f, c)
    BY <1>2, <1>3, <1>4
  <1>6. DeviceInv(f, Null) /\ Pending(f) = Pending(d) /\ SameDevice(d, f)
    BY <1>5, <1>a, TurnedKeeps DEF Turned
  <1> QED
    BY <1>6, <1>a, SameFollows DEF SameDevice

LEMMA ConnectionChangedFollows ==
  ASSUME DeviceInv(device, Null), NEW c \in Connection, ConnectionChanged(c)
  PROVE  Follows(device, device')
  <1>a. PICK d, f, e : d = device /\ f = device' /\ e = [d EXCEPT !.announced[c] = d.up[c]]
    OBVIOUS
  <1>0. /\ d \in Device /\ d.lastId \in Nat /\ d.client \in [Connection -> Client]
        /\ d.up \in [Connection -> BOOLEAN] /\ d.announced \in [Connection -> BOOLEAN]
        /\ d.client[c] \in Client /\ d.current \in Connection
    BY <1>a, DeviceFields DEF DeviceInv
  <1>1. /\ DeviceInv(e, Null) /\ Pending(e) = Pending(d) /\ SameDevice(d, e)
    <2> DEFINE an == [d.announced EXCEPT ![c] = d.up[c]]
    <2>1. an \in [Connection -> BOOLEAN] /\ e = [d EXCEPT !.announced = an]
      BY <1>0, <1>a DEF Device
    <2> HIDE DEF an
    <2>2. e \in Device /\ SameDevice(d, e) /\ e.client = d.client /\ e.jobs = d.jobs
      BY <1>0, <2>1 DEF Device, SameDevice
    <2>3. Consistent(d.client[c], d.lastId) /\ Quiet(d.client[c])
      BY <1>a DEF DeviceInv, ClientsKept
    <2>4. Turned(d, e, c)
      BY <1>0, <2>2, <2>3 DEF Turned, SameDevice
    <2> QED
      BY <1>a, <2>2, <2>4, TurnedKeeps
  <1>2. (f = e \/ f = SwitchConnections(e)) /\ f.lastId <= MaxId
    BY <1>a DEF ConnectionChanged, Becomes
  <1>3. CASE f = e
    BY <1>1, <1>3, <1>a, SameFollows DEF SameDevice
  <1>4. CASE f = SwitchConnections(e)
    <2>1. /\ DeviceInv(f, Null) /\ f.current = Other(e.current) /\ f.call = e.call
          /\ \A id \in Pending(f) : id \in Pending(e) \/ id > e.lastId
      BY <1>1, <1>2, <1>4, SwitchKeeps
    <2>2. f.current # d.current
      BY <1>0, <1>1, <2>1, Connections DEF SameDevice
    <2>3. ASSUME NEW k \in Command
          PROVE  \/ StatusIn(f, k) = StatusIn(d, k)
                 \/ <<StatusIn(d, k), StatusIn(f, k)>> \in Promise!Moves
      BY <1>1, <1>a, <2>1, <2>2, OthersFollow DEF SameDevice
    <2> QED
      BY <1>a, <2>1, <2>2, <2>3 DEF Follows
  <1> QED
    BY <1>2, <1>3, <1>4

LEMMA NextFollows ==
  ASSUME DeviceInv(device, Null), Next
  PROVE  Follows(device, device')
  <1>1. ASSUME NEW k \in Command, Request(k) PROVE Follows(device, device')
    BY <1>1, RequestFollows
  <1>2. ASSUME RunJob PROVE Follows(device, device')
    BY <1>2, RunJobFollows
  <1>3. ASSUME NEW c \in Connection,
               \/ Answer(c) \/ CommandTimer(c) \/ PollTimer(c) \/ Age(c) \/ Socket(c)
               \/ HeartBeatOutcome(c) \/ ConnectionChanged(c)
        PROVE  Follows(device, device')
    BY <1>3, AnswerFollows, TimersFollow, FlagsFollow, ConnectionChangedFollows
  <1> QED
    BY <1>1, <1>2, <1>3 DEF Next

LEMMA InitDevice ==
  Init => DeviceInv(device, Null) /\ \A k \in Command : StatusIn(device, k) = "new"
  <1> SUFFICES ASSUME Init
               PROVE  DeviceInv(device, Null) /\ \A k \in Command : StatusIn(device, k) = "new"
    OBVIOUS
  <1>a. PICK d : d = device
    OBVIOUS
  <1> DEFINE cl == [c \in Connection |-> NewClient]
             ca == [k \in Command |-> NewCall]
  <1>1. NewClient \in Client /\ Consistent(NewClient, 0) /\ Quiet(NewClient)
        /\ NewClient.callbacks = {}
    <2>1. NewClient \in Client
      <3>1. <<>> \in Seq(Id) /\ [i \in Id |-> 0] \in [Id -> Nat]
        OBVIOUS
      <3> QED
        BY <3>1 DEF NewClient, Client
    <2>2. NewClient.callbacks = {} /\ Quiet(NewClient)
      BY DEF NewClient, Quiet
    <2>3. Typed(NewClient)
      BY <2>1 DEF NewClient, Typed
    <2>4. QueueOrdered(NewClient, 0)
      BY DEF NewClient, QueueOrdered
    <2>5. CallbacksKept(NewClient, 0)
      BY DEF NewClient, CallbacksKept
    <2>6. AttemptsCounted(NewClient)
      BY DEF NewClient, AttemptsCounted
    <2>7. ~NewClient.threw
      BY DEF NewClient
    <2> QED
      BY <2>1, <2>2, <2>3, <2>4, <2>5, <2>6, <2>7 DEF Consistent
  <1>2. /\ d.current = Primary /\ d.client = cl /\ d.lastId = 0 /\ d.call = ca /\ d.jobs = {}
        /\ d.owner = [i \in Id |-> NoCommand] /\ d.latest = [k \in Command |-> Null]
        /\ d.tables = [i \in Id |-> {}] /\ d.up = [c \in Connection |-> FALSE]
        /\ d.announced = [c \in Connection |-> FALSE]
    BY <1>a DEF Init
  <1>3. d \in Device
    <2>1. NewCall \in [phase : {"new", "waiting", "resolved", "rejected"},
                       awaits : Id \cup {Null}, resend : BOOLEAN]
      BY DEF NewCall
    <2>2. cl \in [Connection -> Client]
      BY <1>1
    <2> HIDE DEF cl
    <2>3. ca \in [Command -> [phase : {"new", "waiting", "resolved", "rejected"},
                              awaits : Id \cup {Null}, resend : BOOLEAN]]
      BY <2>1
    <2>4. /\ Primary \in Connection /\ 0 \in Nat
          /\ [c \in Connection |-> FALSE] \in [Connection -> BOOLEAN]
          /\ [i \in Id |-> NoCommand] \in [Id -> Command \cup {NoCommand}]
          /\ [k \in Command |-> Null] \in [Command -> Id \cup {Null}]
          /\ [i \in Id |-> {}] \in [Id -> SUBSET Id]
          /\ {} \in SUBSET [id : Id, outcome : Outcome]
      BY Connections
    <2>5. device = [current |-> Primary, client |-> cl, up |-> [c \in Connection |-> FALSE],
                    announced |-> [c \in Connection |-> FALSE], lastId |-> 0,
                    owner |-> [i \in Id |-> NoCommand], latest |-> [k \in Command |-> Null],
                    tables |-> [i \in Id |-> {}], call |-> ca, jobs |-> {}]
      BY DEF Init, cl
    <2> HIDE DEF ca
    <2> QED
      BY <1>a, <2>2, <2>3, <2>4, <2>5, Zenon DEF Device
  <1>4. Pending(d) = {}
    BY <1>1, <1>2, Connections DEF Pending
  <1>5. ClientsKept(d) /\ InOnePlace(d)
    BY <1>1, <1>2, Connections DEF ClientsKept, InOnePlace
  <1>6. \A id \in Id : ~(id <= 0)
    BY IdNat DEF Null
  <1>7. IdsAreOwned(d) /\ SentHaveBegun(d, Null) /\ TablesAreOlder(d)
    BY <1>2, <1>6 DEF IdsAreOwned, SentHaveBegun, TablesAreOlder
  <1>8. CallsAwaitTheirs(d) /\ \A k \in Command : StatusIn(d, k) = "new"
    BY <1>2 DEF CallsAwaitTheirs, StatusIn, LostIn, NewCall
  <1>9. PendingIsLatest(d) /\ PendingIsAwaited(d, Null) /\ d.lastId <= MaxId
    BY <1>2, <1>4, MaxIdAssumption DEF PendingIsLatest, PendingIsAwaited
  <1> QED
    BY <1>3, <1>5, <1>7, <1>8, <1>9, <1>a DEF DeviceInv

(* The invariant: DeviceInv holds of the device in every reachable state.   *)
THEOREM DeviceInvariant == Spec => []DeviceInv(device, Null)
  <1>1. Init => DeviceInv(device, Null)
    BY InitDevice
  <1>2. DeviceInv(device, Null) /\ [Next]_device => DeviceInv(device, Null)'
    <2>1. ASSUME DeviceInv(device, Null), Next PROVE DeviceInv(device, Null)'
      <3>1. DeviceInv(device', Null)
        BY <2>1, NextFollows DEF Follows
      <3> QED
        BY <3>1
    <2>2. ASSUME DeviceInv(device, Null), UNCHANGED device PROVE DeviceInv(device, Null)'
      <3>1. device' = device
        BY <2>2
      <3>2. DeviceInv(device', Null)
        BY <2>2, <3>1, Zenon
      <3> QED
        BY <3>2
    <2> QED
      BY <2>1, <2>2
  <1> QED
    BY <1>1, <1>2, PTL DEF Spec

(* The clients of both connections stay consistent, with queues handed over *)
(* between them as often as may be (handOverQueue, receiveQueue).           *)
THEOREM ClientsStayConsistent == Spec => []ClientsConsistent
  <1>1. DeviceInv(device, Null) => ClientsConsistent
    BY DEF DeviceInv, ClientsKept, ClientsConsistent, TypeOK
  <1> QED
    BY <1>1, DeviceInvariant, PTL

(* A message is in one client, once, under the id that prepare() gave it    *)
(* last.                                                                    *)
THEOREM MessagesHaveOneCopy == Spec => []OneCopyOfAMessage
  <1>1. ASSUME DeviceInv(device, Null) PROVE OneCopyOfAMessage
    <2>a. PICK d : d = device
      OBVIOUS
    <2>1. ASSUME NEW c \in Connection,
                 NEW id \in Queued(d.client[c]) \cup ({d.client[c].sent} \ {Null})
          PROVE  /\ d.latest[d.owner[id]] = id
                 /\ id \notin d.client[Other(c)].callbacks
      <3>0. Consistent(d.client[c], d.lastId) /\ d.lastId \in Nat
        BY <1>1, <2>a, DeviceFields DEF DeviceInv, ClientsKept
      <3>1. id \in d.client[c].callbacks
        BY <3>0, Places
      <3>2. id \in Pending(d)
        BY <3>1, PendingOf
      <3>3. d.latest[d.owner[id]] = id
        BY <1>1, <2>a, <3>2 DEF DeviceInv, PendingIsLatest
      <3>4. d.client[Primary].callbacks \cap d.client[Secondary].callbacks = {}
        BY <1>1, <2>a DEF DeviceInv, InOnePlace
      <3> QED
        BY <3>1, <3>3, <3>4 DEF Connection, Other
    <2> QED
      BY <2>1, <2>a DEF OneCopyOfAMessage
  <1> QED
    BY <1>1, DeviceInvariant, PTL

(* A promise that is settled is awaited by its command, or by receiveQueue. *)
THEOREM SettledAreAwaited == Spec => []SettledPromisesAreAwaited
  <1>1. ASSUME DeviceInv(device, Null) PROVE SettledPromisesAreAwaited
    <2>a. PICK d : d = device
      OBVIOUS
    <2>1. ASSUME NEW j \in d.jobs, d.tables[j.id] = {}
          PROVE  \E k \in Command : d.call[k].phase = "waiting" /\ d.call[k].awaits = j.id
      <3>1. j.id \in Pending(d)
        BY DEF Pending
      <3>2. j.id # Null /\ d.owner[j.id] \in Command
        BY <1>1, <2>a, <3>1, PendingIds
      <3> QED
        BY <1>1, <2>1, <2>a, <3>1, <3>2 DEF DeviceInv, PendingIsAwaited
    <2> QED
      BY <2>1, <2>a DEF SettledPromisesAreAwaited
  <1> QED
    BY <1>1, DeviceInvariant, PTL

(* The device implements CommandPromise: the promise of a command is        *)
(* settled once and one way, and it is lost only when the device switches.  *)
THEOREM DeviceImplementsPromise == Spec => ImplementsPromise
  <1> DEFINE status == [k \in Command |-> IF Lost(k) THEN "lost" ELSE device.call[k].phase]
  <1>1. \A k \in Command : Lost(k) <=> LostIn(device, k)
    BY Connections DEF Lost, LostIn, Pending, Connection
  <1>2. status = [k \in Command |-> StatusIn(device, k)]
    BY <1>1 DEF StatusIn
  <1>3. DeviceInv(device, Null)
          => status \in [Command -> Promise!Status] /\ device.current \in Connection
    <2> SUFFICES ASSUME DeviceInv(device, Null)
                 PROVE  status \in [Command -> Promise!Status] /\ device.current \in Connection
      OBVIOUS
    <2>1. /\ device.current \in Connection
          /\ device.call \in [Command -> [phase : {"new", "waiting", "resolved", "rejected"},
                                          awaits : Id \cup {Null}, resend : BOOLEAN]]
      BY DeviceFields DEF DeviceInv
    <2> QED
      BY <2>1 DEF Promise!Status
  <1>4. Init => Promise!Init
    <2> SUFFICES ASSUME Init PROVE Promise!Init
      OBVIOUS
    <2>1. DeviceInv(device, Null) /\ \A k \in Command : StatusIn(device, k) = "new"
      BY InitDevice
    <2>2. status = [k \in Command |-> "new"]
      BY <1>2, <2>1
    <2> QED
      BY <1>3, <2>1, <2>2 DEF Promise!Init
  <1>5. DeviceInv(device, Null) /\ [Next]_device => [Promise!Next]_<<status, device.current>>
    <2>1. ASSUME DeviceInv(device, Null), Next PROVE Promise!Next
      <3>1. Follows(device, device')
        BY <2>1, NextFollows
      <3>2. DeviceInv(device, Null)'
        BY <3>1 DEF Follows
      <3>3. status' \in [Command -> Promise!Status] /\ device'.current \in Connection
        <4>1. (DeviceInv(device, Null)
                => status \in [Command -> Promise!Status] /\ device.current \in Connection)'
          BY <1>3, PTL
        <4> QED
          BY <3>2, <4>1
      <3>4. (\A k \in Command : Lost(k) <=> LostIn(device, k))'
            /\ (status = [k \in Command |-> StatusIn(device, k)])'
        BY <1>1, <1>2, PTL
      <3>5. \A k \in Command : status[k] = StatusIn(device, k) /\ status'[k] = StatusIn(device', k)
        BY <1>2, <3>4
      <3> HIDE DEF status
      <3>6. \A k \in Command : status'[k] = status[k] \/ <<status[k], status'[k]>> \in Promise!Moves
        BY <3>1, <3>5 DEF Follows
      <3>7. device'.current = device.current =>
              \A k \in Command : status'[k] = "lost" => status[k] = "lost"
        <4> SUFFICES ASSUME device'.current = device.current, NEW k \in Command, status'[k] = "lost"
                     PROVE  status[k] = "lost"
          OBVIOUS
        <4>1. LostIn(device', k)
          <5>1. device'.call[k].phase # "lost"
            BY <3>2, DeviceFields DEF DeviceInv
          <5> QED
            BY <3>5, <5>1 DEF StatusIn
        <4> QED
          BY <3>1, <3>5, <4>1 DEF Follows, StatusIn
      <3> QED
        BY <3>3, <3>6, <3>7 DEF Promise!Next, status
    <2>2. ASSUME UNCHANGED device PROVE UNCHANGED <<status, device.current>>
      BY <2>2 DEF Lost
    <2> QED
      BY <2>1, <2>2
  <1> QED
    BY <1>4, <1>5, DeviceInvariant, PTL DEF Spec, ImplementsPromise, Promise!Spec
=============================================================================
