-------------------------- MODULE SocketClient_proofs --------------------------
(***************************************************************************)
(* Lemmas about the methods of a MosSocketClient, for every number of       *)
(* commands, every choice of heartbeats and of commands that cannot be      *)
(* serialised.                                                              *)
(*                                                                         *)
(* The client is a record.  For each of its methods one lemma says that the *)
(* call keeps the client Consistent, another which fields it leaves alone,  *)
(* and the last ones what happens to the queue.  MosSocketClient_proofs and *)
(* Failover_proofs turn them into theorems about steps.                     *)
(***************************************************************************)
EXTENDS SocketClient, SequenceTheorems, TLAPS

(* What a call that turns c into d guarantees: d is consistent, and no      *)
(* write was taken back.                                                    *)
Sound(c, d, last) ==
  Consistent(d, last) /\ \A id \in Id : c.writes[id] <= d.writes[id]

(* null is no command, and commands are compared as numbers.                *)
LEMMA IdNat == Id \subseteq Nat /\ Null \notin Id /\ Null \in Nat /\ \A id \in Id : id > Null
  BY MaxIdAssumption DEF Id, Null

(* Bump counts up exactly on the members of the set (ghost fields calls and *)
(* writes).                                                                 *)
LEMMA BumpType ==
  ASSUME NEW f \in [Id -> Nat], NEW S
  PROVE  /\ Bump(f, S) \in [Id -> Nat]
         /\ \A id \in Id : Bump(f, S)[id] = IF id \in S THEN f[id] + 1 ELSE f[id]
  BY DEF Bump

(* Arming one more command timer leaves the others as they were.            *)
LEMMA TimerArmed ==
  ASSUME NEW T \in SUBSET (Id \X BOOLEAN), NEW h \in Id, NEW r \in BOOLEAN
  PROVE  /\ T \cup {<<h, r>>} \in SUBSET (Id \X BOOLEAN)
         /\ \A id \in Id, s \in BOOLEAN :
              <<id, s>> \in T \cup {<<h, r>>} => (id = h /\ s = r) \/ <<id, s>> \in T
  <1>1. <<h, r>> \in Id \X BOOLEAN
    OBVIOUS
  <1>2. T \cup {<<h, r>>} \in SUBSET (Id \X BOOLEAN)
    BY <1>1, Zenon
  <1>3. \A id \in Id, s \in BOOLEAN :
          <<id, s>> \in T \cup {<<h, r>>} => (id = h /\ s = r) \/ <<id, s>> \in T
    OBVIOUS
  <1> QED
    BY <1>2, <1>3

(* What is left of a sequence without its first n entries: the queue after  *)
(* processQueue or the cleanup dropped the aged ones.                       *)
LEMMA Suffix ==
  ASSUME NEW S, NEW s \in Seq(S), NEW n \in Nat, n <= Len(s)
  PROVE  /\ SubSeq(s, n + 1, Len(s)) \in Seq(S)
         /\ Len(SubSeq(s, n + 1, Len(s))) = Len(s) - n
         /\ \A i \in 1 .. Len(s) - n :
              SubSeq(s, n + 1, Len(s))[i] = s[i + n] /\ i + n \in 1 .. Len(s)
  <1> DEFINE t == SubSeq(s, n + 1, Len(s))
  <1>1. Len(s) \in Nat /\ n + 1 \in Int /\ Len(s) \in Int
    OBVIOUS
  <1>2. \A i \in n + 1 .. Len(s) : s[i] \in S
    BY <1>1, ElementOfSeq
  <1>3. /\ t \in Seq(S)
        /\ Len(t) = IF n + 1 <= Len(s) THEN Len(s) - (n + 1) + 1 ELSE 0
        /\ \A i \in 1 .. Len(s) - (n + 1) + 1 : t[i] = s[(n + 1) + i - 1]
    BY <1>1, <1>2, SubSeqProperties
  <1> HIDE DEF t
  <1>4. \A i \in 1 .. Len(s) - n : t[i] = s[i + n] /\ i + n \in 1 .. Len(s)
    <2> TAKE i \in 1 .. Len(s) - n
    <2>1. (n + 1) + i - 1 = i + n /\ i \in 1 .. Len(s) - (n + 1) + 1
      BY <1>1
    <2>2. t[i] = s[(n + 1) + i - 1]
      BY <2>1, <1>3
    <2> QED
      BY <2>1, <2>2, <1>1
  <1>5. Len(t) = Len(s) - n
    BY <1>1, <1>3
  <1> QED
    BY <1>3, <1>4, <1>5 DEF t

-----------------------------------------------------------------------------
(* d differs from c at most in flags, armed timers and aged entries.        *)
SameCommands(c, d) ==
  /\ d.queue = c.queue /\ d.sent = c.sent /\ d.lingering = c.lingering
  /\ d.callbacks = c.callbacks /\ d.lingeringCallbacks = c.lingeringCallbacks
  /\ d.calls = c.calls /\ d.writes = c.writes /\ (d.threw => c.threw)

(* A call that touches only flags and timers keeps the client consistent.   *)
LEMMA FrameSound ==
  ASSUME NEW c, NEW d, NEW last \in Nat, Consistent(c, last),
         Typed(d), SameCommands(c, d), d.timers \subseteq c.timers
  PROVE  Sound(c, d, last)
  <1>1. QueueOrdered(d, last) /\ CallbacksKept(d, last)
    BY DEF Consistent, SameCommands, QueueOrdered, CallbacksKept
  <1>2. AttemptsCounted(d)
    BY Zenon DEF Consistent, SameCommands, AttemptsCounted
  <1>3. \A id \in Id : c.writes[id] <= d.writes[id]
    BY DEF Consistent, Typed, Client, SameCommands
  <1> QED
    BY <1>1, <1>2, <1>3 DEF Sound, Consistent, SameCommands

(* The branch of processQueue that sends the head of the queue keeps the    *)
(* client consistent: FIFO order, and one write and one timer per attempt.  *)
LEMMA SendNextSound ==
  ASSUME NEW c, NEW last \in Nat, Consistent(c, last), ~c.threw, c.sent = Null
  PROVE  Sound(c, SendNext(c), last)
  <1>1. c \in Client /\ c.queue \in Seq(Id) /\ c.aged \in Nat /\ c.aged <= Len(c.queue)
        /\ Len(c.queue) \in Nat /\ c.writes \in [Id -> Nat] /\ c.timers \in SUBSET (Id \X BOOLEAN)
    BY DEF Consistent, Typed, Client
  <1>2. CASE c.queue = <<>>
    <2> DEFINE d == [c EXCEPT !.poll = FALSE]
    <2>1. SendNext(c) = d
      BY <1>2 DEF SendNext
    <2>2. d \in Client
      BY <1>1, Zenon DEF Client
    <2>3. SameCommands(c, d) /\ d.aged = c.aged /\ d.timers = c.timers
      BY <1>1 DEF Client, SameCommands
    <2> HIDE DEF d
    <2> QED
      BY <1>1, <2>1, <2>2, <2>3, FrameSound DEF Typed, SameCommands
  <1>3. CASE c.queue # <<>>
    <2> DEFINE q == Tail(c.queue)
               h == Head(c.queue)
               a == IF c.aged = 0 THEN 0 ELSE c.aged - 1
               b == [c EXCEPT !.poll = FALSE, !.queue = q, !.aged = a]
    <2>1. /\ h \in Id /\ q \in Seq(Id) /\ Len(q) = Len(c.queue) - 1
          /\ \A i \in 1 .. Len(q) : q[i] = c.queue[i + 1]
          /\ Len(c.queue) >= 1 /\ h = c.queue[1]
      BY <1>1, <1>3, HeadTailProperties, EmptySeq
    <2>2. \A i \in 1 .. Len(q) : /\ i + 1 \in 1 .. Len(c.queue) /\ 1 < i + 1
                                 /\ 1 \in 1 .. Len(c.queue) /\ i \in Nat
      BY <1>1, <2>1
    <2>3. a \in Nat /\ a <= Len(q)
      BY <1>1, <2>1
    <2> HIDE DEF q, h, a
    <2>4. h \in c.callbacks /\ h \notin c.lingeringCallbacks /\ c.writes[h] = 0 /\ h <= last
      <3>1. h \in c.callbacks
        BY <1>1, <2>1 DEF Consistent, QueueOrdered
      <3>2. h \notin c.lingeringCallbacks /\ h <= last
        BY <3>1 DEF Consistent, CallbacksKept
      <3>3. ~(c.writes[h] > 0)
        BY <1>1, <2>1, IdNat DEF Consistent, QueueOrdered
      <3> QED
        BY <1>1, <2>1, <3>1, <3>2, <3>3
    <2>5. /\ \A i \in 1 .. Len(q) : q[i] \in c.callbacks /\ h < q[i]
          /\ \A i, j \in 1 .. Len(q) : i < j => q[i] < q[j]
          /\ \A id \in Id, i \in 1 .. Len(q) : c.writes[id] > 0 => id < q[i]
      BY <1>1, <2>1, <2>2 DEF Consistent, QueueOrdered
    <2>6. b \in Client
      BY <1>1, <2>1, <2>3, Zenon DEF Client
    <2>7. /\ b.queue = q /\ b.aged = a /\ b.sent = Null
          /\ b.callbacks = c.callbacks /\ b.lingeringCallbacks = c.lingeringCallbacks
          /\ b.timers = c.timers /\ b.calls = c.calls /\ b.writes = c.writes /\ ~b.threw
      BY <1>1 DEF Client
    <2>8. SendNext(c) = ExecuteCommand(b, h, FALSE)
      BY <1>3 DEF SendNext, q, h, a
    <2> HIDE DEF b
    <2>9. CASE h \in Unserialisable
      <3> DEFINE d == [b EXCEPT !.sent = h, !.lingering = Null, !.threw = TRUE]
      <3>1. SendNext(c) = d
        BY <2>6, <2>7, <2>8, <2>9 DEF ExecuteCommand, Client
      <3>2. d \in Client
        <4>1. h \in Id \cup {Null} /\ Null \in Id \cup {Null}
          BY <2>1
        <4> QED
          BY <2>6, <4>1, Zenon DEF Client
      <3>3. /\ d.queue = q /\ d.aged = a /\ d.sent = h /\ d.lingering = Null
            /\ d.callbacks = c.callbacks /\ d.lingeringCallbacks = c.lingeringCallbacks
            /\ d.timers = c.timers /\ d.calls = c.calls /\ d.writes = c.writes
        BY <2>6, <2>7 DEF Client
      <3> HIDE DEF d
      <3>4. Typed(d) /\ QueueOrdered(d, last) /\ AttemptsCounted(d)
        BY <2>3, <2>5, <3>2, <3>3 DEF Consistent, Typed, QueueOrdered, AttemptsCounted
      <3>5. CallbacksKept(d, last)
        BY <2>4, <3>3 DEF Consistent, CallbacksKept
      <3>6. \A id \in Id : c.writes[id] <= d.writes[id]
        BY <1>1, <3>3
      <3> QED
        BY <2>9, <3>1, <3>3, <3>4, <3>5, <3>6 DEF Sound, Consistent
    <2>10. CASE h \notin Unserialisable
      <3> DEFINE T == c.timers \cup {<<h, FALSE>>}
                 W == Bump(c.writes, {h})
                 d == [b EXCEPT !.sent = h, !.lingering = Null, !.timers = T, !.writes = W]
      <3>1. SendNext(c) = d
        BY <2>6, <2>7, <2>8, <2>10 DEF ExecuteCommand, Client
      <3>2. W \in [Id -> Nat] /\ \A id \in Id : W[id] = IF id = h THEN 1 ELSE c.writes[id]
        <4>1. /\ W \in [Id -> Nat]
              /\ \A id \in Id : W[id] = IF id \in {h} THEN c.writes[id] + 1 ELSE c.writes[id]
          BY <1>1, BumpType
        <4> HIDE DEF W
        <4> QED
          BY <2>4, <4>1
      <3>3. /\ T \in SUBSET (Id \X BOOLEAN)
            /\ \A id \in Id : <<id, FALSE>> \in T => id = h \/ <<id, FALSE>> \in c.timers
        BY <1>1, <2>1, TimerArmed
      <3> HIDE DEF W, T
      <3>4. d \in Client
        <4>1. h \in Id \cup {Null} /\ Null \in Id \cup {Null}
          BY <2>1
        <4> QED
          BY <2>6, <3>2, <3>3, <4>1, Zenon DEF Client
      <3>5. /\ d.queue = q /\ d.aged = a /\ d.sent = h /\ d.lingering = Null
            /\ d.callbacks = c.callbacks /\ d.lingeringCallbacks = c.lingeringCallbacks
            /\ d.timers = T /\ d.calls = c.calls /\ d.writes = W /\ ~d.threw
        BY <2>6, <2>7 DEF Client
      <3> HIDE DEF d
      <3>6. QueueOrdered(d, last)
        BY <2>1, <2>4, <2>5, <3>2, <3>5 DEF Consistent, QueueOrdered
      <3>7. CallbacksKept(d, last)
        BY <2>4, <3>5 DEF Consistent, CallbacksKept
      <3>8. AttemptsCounted(d)
        <4>1. AttemptsCounted(c)
          BY DEF Consistent
        <4>2. ASSUME NEW id \in Id
              PROVE  W[id] <= 2 /\ (<<id, FALSE>> \in T => W[id] = 1)
          <5>1. c.writes[id] <= 2
            BY <4>1, Zenon DEF AttemptsCounted
          <5>2. id = h => W[id] = 1
            BY <3>2
          <5>3. id # h /\ <<id, FALSE>> \in T => c.writes[id] = 1
            BY <3>3, <4>1, Zenon DEF AttemptsCounted
          <5> QED
            BY <3>2, <5>1, <5>2, <5>3
        <4> QED
          BY <3>5, <4>2 DEF AttemptsCounted
      <3>9. Typed(d)
        BY <2>3, <3>4, <3>5 DEF Typed
      <3>10. \A id \in Id : c.writes[id] <= d.writes[id]
        <4>1. \A id \in Id : c.writes[id] <= W[id]
          BY <1>1, <2>4, <3>2
        <4> QED
          BY <3>5, <4>1
      <3> QED
        BY <3>1, <3>5, <3>6, <3>7, <3>8, <3>9, <3>10 DEF Sound, Consistent
    <2> QED
      BY <2>9, <2>10
  <1> QED
    BY <1>2, <1>3

(* _sendReply for the command that is in flight, or for the lingering one,  *)
(* calls its callback for the first time and forgets it.                    *)
LEMMA SendReplySound ==
  ASSUME NEW c, NEW last \in Nat, NEW id \in Id, Consistent(c, last), ~c.threw,
         c.sent = id \/ (c.sent = Null /\ c.lingering = id)
  PROVE  LET d == SendReply(c, id)
         IN  /\ Sound(c, d, last)
             /\ d.sent = Null /\ ~d.threw /\ d.disposed = c.disposed
             /\ d.timers = c.timers /\ d.timedOut = c.timedOut
  <1> DEFINE S == {id} \cap (c.callbacks \cup c.lingeringCallbacks)
             N == Bump(c.calls, S)
             K == c.callbacks \ {id}
             L == c.lingeringCallbacks \ {id}
             b == [c EXCEPT !.calls = N, !.callbacks = K, !.lingeringCallbacks = L]
             d == [b EXCEPT !.sent = Null, !.lingering = Null]
  <1>1. /\ c \in Client /\ c.calls \in [Id -> Nat] /\ c.writes \in [Id -> Nat]
        /\ c.queue \in Seq(Id) /\ K \in SUBSET Id /\ L \in SUBSET Id
        /\ c.callbacks \in SUBSET Id /\ c.lingeringCallbacks \in SUBSET Id
    BY DEF Consistent, Typed, Client
  <1>2. SendReply(c, id) = d
    BY DEF SendReply, Call
  <1> HIDE DEF S
  <1>3. N \in [Id -> Nat] /\ \A i \in Id : N[i] = IF i \in S THEN c.calls[i] + 1 ELSE c.calls[i]
    <2>1. c.calls \in [Id -> Nat]
      BY <1>1
    <2> QED
      BY <2>1, BumpType
  <1> HIDE DEF N, K, L
  <1>4. b \in Client
    BY <1>1, <1>3, Zenon DEF Client
  <1>5. d \in Client
    <2>1. Null \in Id \cup {Null}
      OBVIOUS
    <2> QED
      BY <1>4, <2>1, Zenon DEF Client
  <1>6. /\ d.queue = c.queue /\ d.aged = c.aged /\ d.sent = Null /\ d.lingering = Null
        /\ d.callbacks = K /\ d.lingeringCallbacks = L /\ d.timers = c.timers
        /\ d.calls = N /\ d.writes = c.writes /\ d.threw = c.threw
        /\ d.disposed = c.disposed /\ d.timedOut = c.timedOut
    BY <1>1 DEF Client
  <1> HIDE DEF b, d
  <1>7. Typed(d)
    BY <1>5, <1>6 DEF Consistent, Typed
  <1>8. id \in c.callbacks \cup c.lingeringCallbacks
    BY IdNat DEF Consistent, CallbacksKept
  <1>9. \A i \in 1 .. Len(c.queue) : c.queue[i] \in K /\ Null < c.queue[i]
    <2> TAKE i \in 1 .. Len(c.queue)
    <2>1. c.queue[i] \in Id /\ c.queue[i] \in c.callbacks /\ c.sent < c.queue[i]
      BY <1>1, ElementOfSeq DEF Consistent, QueueOrdered
    <2>2. c.queue[i] # id
      <3>1. CASE c.sent = id
        BY <2>1, <3>1, IdNat
      <3>2. CASE c.lingering = id
        BY <2>1, <3>2, IdNat DEF Consistent, CallbacksKept
      <3> QED
        BY <3>1, <3>2
    <2> QED
      BY <2>1, <2>2, IdNat DEF K
  <1>10. QueueOrdered(d, last)
    BY <1>6, <1>9 DEF Consistent, QueueOrdered
  <1>11. CallbacksKept(d, last)
    <2>1. \A i \in K \cup L : i \in Id /\ i <= last /\ N[i] = 0
      BY <1>1, <1>3 DEF Consistent, CallbacksKept, K, L, S
    <2>2. \A i \in Id : N[i] <= 1 /\ (N[i] = 1 => i <= last)
      BY <1>1, <1>3, <1>8 DEF Consistent, CallbacksKept, S
    <2>3. K \cap L = {}
      BY DEF Consistent, CallbacksKept, K, L
    <2> QED
      BY <1>6, <2>1, <2>2, <2>3 DEF CallbacksKept
  <1>12. AttemptsCounted(d)
    BY <1>6, Zenon DEF Consistent, AttemptsCounted
  <1>13. \A i \in Id : c.writes[i] <= d.writes[i]
    BY <1>1, <1>6
  <1> QED
    BY <1>2, <1>6, <1>7, <1>10, <1>11, <1>12, <1>13 DEF Sound, Consistent

(* Once the aged entries are gone from the queue, none of the others has    *)
(* lost its place or its callback.                                          *)
LEMMA AgedRemoved ==
  ASSUME NEW c, NEW last \in Nat, Consistent(c, last)
  PROVE  LET q == SubSeq(c.queue, c.aged + 1, Len(c.queue))
         IN  /\ q \in Seq(Id) /\ Len(q) \in Nat
             /\ Aged(c) \subseteq c.callbacks /\ Aged(c) \cap c.lingeringCallbacks = {}
             /\ \A i \in 1 .. Len(q) : /\ q[i] \in c.callbacks \ Aged(c)
                                      /\ c.sent < q[i] /\ Null < q[i]
             /\ \A i, j \in 1 .. Len(q) : i < j => q[i] < q[j]
             /\ \A id \in Id, i \in 1 .. Len(q) : c.writes[id] > 0 => id < q[i]
  <1> DEFINE q == SubSeq(c.queue, c.aged + 1, Len(c.queue))
  <1>1. /\ c.queue \in Seq(Id) /\ c.aged \in Nat /\ c.aged <= Len(c.queue)
        /\ Len(c.queue) \in Nat
    BY DEF Consistent, Typed, Client
  <1>2. /\ q \in Seq(Id) /\ Len(q) = Len(c.queue) - c.aged
        /\ \A i \in 1 .. Len(c.queue) - c.aged :
             q[i] = c.queue[i + c.aged] /\ i + c.aged \in 1 .. Len(c.queue)
    BY <1>1, Suffix
  <1> HIDE DEF q
  <1>3. \A k \in 1 .. c.aged : k \in 1 .. Len(c.queue)
    BY <1>1
  <1>4. Aged(c) \subseteq c.callbacks
    BY <1>3 DEF Aged, Consistent, QueueOrdered
  <1>5. Aged(c) \cap c.lingeringCallbacks = {}
    BY <1>4 DEF Consistent, CallbacksKept
  <1>6. \A i, j \in 1 .. Len(c.queue) : i < j => c.queue[i] < c.queue[j]
    BY DEF Consistent, QueueOrdered
  <1>7. \A i \in 1 .. Len(q) : /\ q[i] \in c.callbacks \ Aged(c)
                               /\ c.sent < q[i] /\ Null < q[i]
    <2> TAKE i \in 1 .. Len(q)
    <2>1. /\ q[i] = c.queue[i + c.aged] /\ i + c.aged \in 1 .. Len(c.queue)
          /\ i + c.aged > c.aged
      BY <1>1, <1>2
    <2>2. q[i] \in c.callbacks /\ c.sent < q[i] /\ q[i] \in Id
      BY <1>1, <2>1, ElementOfSeq DEF Consistent, QueueOrdered
    <2>3. \A k \in 1 .. c.aged : c.queue[k] # q[i]
      <3> TAKE k \in 1 .. c.aged
      <3>1. k \in 1 .. Len(c.queue) /\ k < i + c.aged
        BY <1>1, <2>1
      <3>2. c.queue[k] < q[i] /\ c.queue[k] \in Id
        BY <1>1, <1>6, <2>1, <3>1, ElementOfSeq
      <3>3. c.queue[k] \in Nat /\ q[i] \in Nat
        BY <2>2, <3>2, IdNat
      <3> QED
        BY <3>2, <3>3
    <2>4. q[i] \notin Aged(c)
      BY <2>3 DEF Aged
    <2> QED
      BY <2>2, <2>4, IdNat
  <1>8. \A i, j \in 1 .. Len(q) : i < j => q[i] < q[j]
    <2> TAKE i, j \in 1 .. Len(q)
    <2> HAVE i < j
    <2>1. /\ q[i] = c.queue[i + c.aged] /\ i + c.aged \in 1 .. Len(c.queue)
          /\ q[j] = c.queue[j + c.aged] /\ j + c.aged \in 1 .. Len(c.queue)
          /\ i + c.aged < j + c.aged
      BY <1>1, <1>2
    <2> QED
      BY <1>6, <2>1
  <1>9. \A id \in Id, i \in 1 .. Len(q) : c.writes[id] > 0 => id < q[i]
    <2> TAKE id \in Id, i \in 1 .. Len(q)
    <2>1. q[i] = c.queue[i + c.aged] /\ i + c.aged \in 1 .. Len(c.queue)
      BY <1>2
    <2> QED
      BY <2>1 DEF Consistent, QueueOrdered
  <1>10. Len(q) \in Nat
    BY <1>1, <1>2
  <1> QED
    BY <1>2, <1>4, <1>5, <1>7, <1>8, <1>9, <1>10 DEF q

(* If d is c with the aged entries settled and removed, and at most the     *)
(* command in flight given up as well, d is consistent.                     *)
LEMMA AgedSettledSound ==
  ASSUME NEW c, NEW d, NEW last \in Nat, Consistent(c, last), ~c.threw,
         d \in Client, d.aged = 0,
         d.queue = SubSeq(c.queue, c.aged + 1, Len(c.queue)),
         d.callbacks = c.callbacks \ Aged(c),
         d.lingeringCallbacks = c.lingeringCallbacks,
         d.calls = Bump(c.calls, Aged(c)),
         d.sent = Null, d.lingering = Null \/ (c.sent = Null /\ d.lingering = c.lingering),
         d.timers = c.timers, d.writes = c.writes, ~d.threw
  PROVE  Sound(c, d, last)
  <1> DEFINE q == SubSeq(c.queue, c.aged + 1, Len(c.queue))
             A == Aged(c)
  <1>1. /\ q \in Seq(Id) /\ Len(q) \in Nat
        /\ A \subseteq c.callbacks /\ A \cap c.lingeringCallbacks = {}
        /\ \A i \in 1 .. Len(q) : q[i] \in c.callbacks \ A /\ c.sent < q[i] /\ Null < q[i]
        /\ \A i, j \in 1 .. Len(q) : i < j => q[i] < q[j]
        /\ \A id \in Id, i \in 1 .. Len(q) : c.writes[id] > 0 => id < q[i]
    BY AgedRemoved
  <1> HIDE DEF q, A
  <1>2. d.queue = q /\ d.callbacks = c.callbacks \ A
    BY DEF q, A
  <1>3. c.calls \in [Id -> Nat] /\ c.writes \in [Id -> Nat]
        /\ c.callbacks \in SUBSET Id /\ c.lingeringCallbacks \in SUBSET Id
    BY DEF Consistent, Typed, Client
  <1>4. \A id \in Id : d.calls[id] = IF id \in A THEN c.calls[id] + 1 ELSE c.calls[id]
    <2>1. c.calls \in [Id -> Nat]
      BY <1>3
    <2>2. \A id \in Id : Bump(c.calls, A)[id] = IF id \in A THEN c.calls[id] + 1 ELSE c.calls[id]
      BY <2>1, BumpType
    <2>3. d.calls = Bump(c.calls, A)
      BY DEF A
    <2> QED
      BY <2>2, <2>3
  <1>5. Typed(d)
    <2>1. Len(d.queue) \in Nat
      BY <1>1, <1>2
    <2>2. \A n \in Nat : 0 <= n
      OBVIOUS
    <2> QED
      BY <2>1, <2>2, Zenon DEF Typed
  <1>6. QueueOrdered(d, last)
    BY <1>1, <1>2 DEF Consistent, QueueOrdered
  <1>7. CallbacksKept(d, last)
    <2>1. \A id \in d.callbacks \cup d.lingeringCallbacks : id <= last /\ d.calls[id] = 0
      BY <1>1, <1>2, <1>3, <1>4 DEF Consistent, CallbacksKept
    <2>2. \A id \in Id : d.calls[id] <= 1 /\ (d.calls[id] = 1 => id <= last)
      BY <1>1, <1>3, <1>4 DEF Consistent, CallbacksKept
    <2>3. d.callbacks \cap d.lingeringCallbacks = {}
      BY <1>2 DEF Consistent, CallbacksKept
    <2>4. d.lingering # Null => d.lingering \in d.lingeringCallbacks
      BY DEF Consistent, CallbacksKept
    <2> QED
      BY <2>1, <2>2, <2>3, <2>4 DEF CallbacksKept
  <1>8. AttemptsCounted(d)
    BY Zenon DEF Consistent, AttemptsCounted
  <1>9. \A id \in Id : c.writes[id] <= d.writes[id]
    BY <1>3
  <1> QED
    BY <1>5, <1>6, <1>7, <1>8, <1>9 DEF Sound, Consistent

(* The branch of processQueue that waits for a connection finds the         *)
(* callback of every entry it drops, and calls it for the first time.       *)
LEMMA DropAgedSound ==
  ASSUME NEW c, NEW last \in Nat, Consistent(c, last), ~c.threw, c.sent = Null
  PROVE  Sound(c, DropAged(c), last) /\ ~DropAged(c).threw
  <1> DEFINE q == SubSeq(c.queue, c.aged + 1, Len(c.queue))
             N == Bump(c.calls, Aged(c))
             K == c.callbacks \ Aged(c)
             p == c.poll \/ c.aged < Len(c.queue)
             b == [c EXCEPT !.calls = N, !.callbacks = K]
             e == [b EXCEPT !.queue = q, !.aged = 0]
             d == [e EXCEPT !.poll = p]
  <1>1. c \in Client /\ c.calls \in [Id -> Nat]
    BY DEF Consistent, Typed, Client
  <1>2. q \in Seq(Id) /\ Aged(c) \subseteq c.callbacks
    BY AgedRemoved
  <1>3. N \in [Id -> Nat]
    BY <1>1, BumpType
  <1>4. K \in SUBSET Id
    BY <1>1 DEF Client
  <1>5. p \in BOOLEAN
    OBVIOUS
  <1> HIDE DEF q, N, K
  <1>6. b.queue = c.queue /\ b.aged = c.aged /\ e.poll = c.poll
    BY <1>1 DEF Client
  <1>7. DropAged(c) = d
    BY <1>2, <1>6 DEF DropAged, RemoveAged, q, N, K
  <1> HIDE DEF p
  <1>8. d \in Client
    <2>1. b \in Client
      BY <1>1, <1>3, <1>4, Zenon DEF Client
    <2> HIDE DEF b
    <2>2. 0 \in Nat
      OBVIOUS
    <2>3. e \in Client
      BY <1>2, <2>1, <2>2, Zenon DEF Client
    <2> HIDE DEF e
    <2> QED
      BY <1>5, <2>3, Zenon DEF Client
  <1>9. /\ d.queue = q /\ d.aged = 0 /\ d.sent = c.sent /\ d.lingering = c.lingering
        /\ d.callbacks = K /\ d.lingeringCallbacks = c.lingeringCallbacks
        /\ d.timers = c.timers /\ d.calls = N /\ d.writes = c.writes /\ d.threw = c.threw
    BY <1>1 DEF Client
  <1> HIDE DEF d
  <1> QED
    BY <1>7, <1>8, <1>9, AgedSettledSound DEF q, N, K

LEMMA SoundTransitive ==
  ASSUME NEW c, NEW d, NEW e, NEW last, NEW n,
         Typed(c), Sound(c, d, last), Sound(d, e, n)
  PROVE  Sound(c, e, n)
  <1>1. c.writes \in [Id -> Nat] /\ d.writes \in [Id -> Nat] /\ e.writes \in [Id -> Nat]
    BY DEF Sound, Consistent, Typed, Client
  <1> QED
    BY <1>1 DEF Sound

LEMMA SoundReflexive ==
  ASSUME NEW c, NEW last, Consistent(c, last)
  PROVE  Sound(c, c, last)
  BY DEF Sound, Consistent, Typed, Client

(* processQueue, called in any consistent state, keeps the client           *)
(* consistent; in particular it never calls a callback that is not there.   *)
LEMMA ProcessQueueSound ==
  ASSUME NEW c, NEW last \in Nat, Consistent(c, last), ~c.threw
  PROVE  Sound(c, ProcessQueue(c), last)
  <1> DEFINE d == IF c.sent # Null THEN c
                  ELSE IF c.connected THEN SendNext(c)
                  ELSE IF c.queue # <<>> THEN DropAged(c)
                  ELSE c
             e == [d EXCEPT !.timedOut = {}]
  <1>1. Sound(c, d, last)
    BY SendNextSound, DropAgedSound, SoundReflexive
  <1>2. Sound(c, c, last)
    BY SoundReflexive
  <1>3. ProcessQueue(c) = IF c.disposed THEN c ELSE IF d.threw THEN d ELSE e
    BY DEF ProcessQueue
  <1> HIDE DEF d
  <1>4. Sound(c, e, last)
    <2>1. Consistent(d, last) /\ d \in Client /\ d.aged <= Len(d.queue)
      BY <1>1 DEF Sound, Consistent, Typed
    <2>2. e \in Client
      <3>1. {} \in SUBSET Id
        OBVIOUS
      <3> QED
        BY <2>1, <3>1, Zenon DEF Client
    <2>3. SameCommands(d, e) /\ e.aged = d.aged /\ e.timers = d.timers
      BY <2>1 DEF Client, SameCommands
    <2> HIDE DEF e
    <2>4. Typed(e) /\ e.timers \subseteq d.timers
      BY <2>1, <2>2, <2>3 DEF Typed, SameCommands
    <2>5. Sound(d, e, last)
      BY <2>1, <2>3, <2>4, FrameSound
    <2>6. Typed(c)
      BY DEF Consistent
    <2> QED
      BY <1>1, <2>5, <2>6, SoundTransitive
  <1> QED
    BY <1>1, <1>2, <1>3, <1>4

(* queueCommand appends a command that is younger than all others.          *)
LEMMA QueuedSound ==
  ASSUME NEW c, NEW last \in Nat, NEW id \in Id, id = last + 1, Consistent(c, last), ~c.threw
  PROVE  LET b == [c EXCEPT !.callbacks = @ \cup {id}, !.queue = Append(@, id)]
         IN  Sound(c, b, id) /\ ~b.threw
  <1> DEFINE q == Append(c.queue, id)
             K == c.callbacks \cup {id}
             b == [c EXCEPT !.callbacks = K, !.queue = q]
  <1>1. /\ c \in Client /\ c.queue \in Seq(Id) /\ c.aged \in Nat /\ c.aged <= Len(c.queue)
        /\ Len(c.queue) \in Nat /\ c.writes \in [Id -> Nat] /\ c.calls \in [Id -> Nat]
        /\ c.callbacks \in SUBSET Id /\ c.lingeringCallbacks \in SUBSET Id
        /\ c.sent \in Id \cup {Null}
    BY DEF Consistent, Typed, Client
  <1>2. /\ q \in Seq(Id) /\ Len(q) = Len(c.queue) + 1
        /\ \A i \in 1 .. Len(c.queue) : q[i] = c.queue[i]
        /\ q[Len(c.queue) + 1] = id
    BY <1>1, AppendProperties
  <1>3. K \in SUBSET Id
    BY <1>1
  <1> HIDE DEF q, K
  <1>4. b \in Client
    BY <1>1, <1>2, <1>3, Zenon DEF Client
  <1>5. /\ b.queue = q /\ b.aged = c.aged /\ b.sent = c.sent /\ b.lingering = c.lingering
        /\ b.callbacks = K /\ b.lingeringCallbacks = c.lingeringCallbacks
        /\ b.timers = c.timers /\ b.calls = c.calls /\ b.writes = c.writes
        /\ b.threw = c.threw
    BY <1>1 DEF Client
  <1> HIDE DEF b
  <1>6. \A i \in Id : i <= last => i < id
    BY IdNat
  <1>7. \A i \in 1 .. Len(c.queue) : c.queue[i] \in Id /\ c.queue[i] \in c.callbacks /\ c.queue[i] < id
    BY <1>1, <1>6, ElementOfSeq DEF Consistent, QueueOrdered, CallbacksKept
  <1>8. c.sent < id /\ (c.sent # Null => c.sent \in c.callbacks)
    BY <1>1, <1>6, IdNat DEF Consistent, CallbacksKept
  <1>9. \A i \in 1 .. Len(q) : i \in 1 .. Len(c.queue) \/ i = Len(c.queue) + 1
    BY <1>1, <1>2
  <1>10. QueueOrdered(b, id)
    <2>1. \A i \in 1 .. Len(q) : q[i] \in K /\ c.sent < q[i]
      BY <1>2, <1>7, <1>8, <1>9 DEF Consistent, QueueOrdered, K
    <2>2. \A i, j \in 1 .. Len(q) : i < j => q[i] < q[j]
      <3> TAKE i, j \in 1 .. Len(q)
      <3> HAVE i < j
      <3>1. i \in 1 .. Len(c.queue)
        BY <1>1, <1>2, <1>9
      <3>2. CASE j \in 1 .. Len(c.queue)
        BY <1>2, <3>1, <3>2 DEF Consistent, QueueOrdered
      <3>3. CASE j = Len(c.queue) + 1
        BY <1>2, <1>7, <3>1, <3>3
      <3> QED
        BY <1>9, <3>2, <3>3
    <2>3. \A k \in Id, i \in 1 .. Len(q) : c.writes[k] > 0 => k < q[i]
      <3> TAKE k \in Id, i \in 1 .. Len(q)
      <3>1. CASE i \in 1 .. Len(c.queue)
        BY <1>2, <3>1 DEF Consistent, QueueOrdered
      <3>2. CASE i = Len(c.queue) + 1
        BY <1>2, <1>6, <3>2 DEF Consistent, QueueOrdered
      <3> QED
        BY <1>9, <3>1, <3>2
    <2>4. \A k \in Id : c.writes[k] > 0 => k <= id
      <3> TAKE k \in Id
      <3>1. c.writes[k] > 0 => k < id
        BY <1>6 DEF Consistent, QueueOrdered
      <3>2. k < id => k <= id
        BY IdNat
      <3> QED
        BY <3>1, <3>2
    <2> QED
      BY <1>5, <2>1, <2>2, <2>3, <2>4 DEF QueueOrdered
  <1>11. CallbacksKept(b, id)
    <2>1. id \notin c.lingeringCallbacks /\ c.calls[id] = 0
      <3>1. ~(id <= last)
        BY IdNat
      <3> QED
        BY <1>1, <3>1 DEF Consistent, CallbacksKept
    <2>2. \A k \in K \cup c.lingeringCallbacks : k <= id /\ c.calls[k] = 0
      <3> TAKE k \in K \cup c.lingeringCallbacks
      <3>1. CASE k = id
        BY <2>1, <3>1, IdNat
      <3>2. CASE k \in c.callbacks \cup c.lingeringCallbacks
        <4>1. k \in Id /\ k <= last /\ c.calls[k] = 0
          BY <1>1, <3>2 DEF Consistent, CallbacksKept
        <4>2. k < id /\ k \in Nat /\ id \in Nat
          BY <1>6, <4>1, IdNat
        <4> QED
          BY <4>1, <4>2
      <3> QED
        BY <3>1, <3>2 DEF K
    <2>3. \A k \in Id : c.calls[k] <= 1 /\ (c.calls[k] = 1 => k <= id)
      <3> TAKE k \in Id
      <3>1. c.calls[k] <= 1 /\ (c.calls[k] = 1 => k < id)
        BY <1>6 DEF Consistent, CallbacksKept
      <3>2. k < id => k <= id
        BY IdNat
      <3> QED
        BY <3>1, <3>2
    <2>4. K \cap c.lingeringCallbacks = {}
      BY <2>1 DEF Consistent, CallbacksKept, K
    <2>5. /\ c.sent # Null => c.sent \in K
          /\ c.lingering # Null => c.sent = Null /\ c.lingering \in c.lingeringCallbacks
      BY <1>8 DEF Consistent, CallbacksKept, K
    <2> QED
      BY <1>5, <2>2, <2>3, <2>4, <2>5 DEF CallbacksKept
  <1>12. AttemptsCounted(b)
    BY <1>5, Zenon DEF Consistent, AttemptsCounted
  <1>13. Typed(b)
    BY <1>1, <1>2, <1>4, <1>5 DEF Typed
  <1>14. Sound(c, b, id)
    BY <1>1, <1>5, <1>10, <1>11, <1>12, <1>13 DEF Sound, Consistent
  <1> QED
    BY <1>5, <1>14 DEF b, K, q

(* queueCommand keeps the client consistent.                                *)
LEMMA QueueCommandSound ==
  ASSUME NEW c, NEW last \in Nat, NEW id \in Id, id = last + 1, Consistent(c, last), ~c.threw
  PROVE  Sound(c, QueueCommand(c, id), id)
  <1> DEFINE b == [c EXCEPT !.callbacks = @ \cup {id}, !.queue = Append(@, id)]
  <1>1. Sound(c, b, id) /\ ~b.threw
    BY QueuedSound
  <1>2. QueueCommand(c, id) = ProcessQueue(b)
    BY DEF QueueCommand
  <1> HIDE DEF b
  <1>3. Sound(b, ProcessQueue(b), id)
    BY <1>1, IdNat, ProcessQueueSound DEF Sound
  <1> QED
    BY <1>1, <1>2, <1>3, SoundTransitive DEF Consistent

(* The second attempt of the command in flight: its second and last write.  *)
LEMMA RetrySound ==
  ASSUME NEW c, NEW last \in Nat, NEW id \in Id, Consistent(c, last), ~c.threw,
         c.sent = id, c.writes[id] = 1, <<id, FALSE>> \notin c.timers
  PROVE  Sound(c, ExecuteCommand(c, id, TRUE), last)
  <1> DEFINE T == c.timers \cup {<<id, TRUE>>}
             W == Bump(c.writes, {id})
             d == [c EXCEPT !.sent = id, !.lingering = Null, !.timers = T, !.writes = W]
             e == [c EXCEPT !.sent = id, !.lingering = Null, !.threw = TRUE]
  <1>1. /\ c \in Client /\ c.queue \in Seq(Id) /\ c.aged \in Nat /\ c.aged <= Len(c.queue)
        /\ c.writes \in [Id -> Nat] /\ c.timers \in SUBSET (Id \X BOOLEAN)
        /\ id \in Id \cup {Null} /\ Null \in Id \cup {Null}
    BY DEF Consistent, Typed, Client
  <1>2. ExecuteCommand(c, id, TRUE) = IF id \in Unserialisable THEN e ELSE d
    BY <1>1 DEF ExecuteCommand, Client
  <1>3. W \in [Id -> Nat] /\ \A i \in Id : W[i] = IF i = id THEN 2 ELSE c.writes[i]
    <2>1. /\ W \in [Id -> Nat]
          /\ \A i \in Id : W[i] = IF i \in {id} THEN c.writes[i] + 1 ELSE c.writes[i]
      BY <1>1, BumpType
    <2> HIDE DEF W
    <2> QED
      BY <2>1
  <1>4. /\ T \in SUBSET (Id \X BOOLEAN)
        /\ \A i \in Id : <<i, FALSE>> \in T => <<i, FALSE>> \in c.timers
    <2>1. TRUE \in BOOLEAN /\ FALSE \in BOOLEAN /\ TRUE # FALSE
      OBVIOUS
    <2> QED
      BY <1>1, <2>1, TimerArmed
  <1> HIDE DEF W, T
  <1>5. d \in Client /\ e \in Client
    <2>1. d \in Client
      BY <1>1, <1>3, <1>4, Zenon DEF Client
    <2>2. e \in Client
      BY <1>1, Zenon DEF Client
    <2> QED
      BY <2>1, <2>2
  <1>6. /\ d.queue = c.queue /\ d.aged = c.aged /\ d.sent = c.sent /\ d.lingering = Null
        /\ d.callbacks = c.callbacks /\ d.lingeringCallbacks = c.lingeringCallbacks
        /\ d.timers = T /\ d.calls = c.calls /\ d.writes = W /\ ~d.threw
    BY <1>1 DEF Client
  <1>7. /\ e.queue = c.queue /\ e.aged = c.aged /\ e.sent = c.sent /\ e.lingering = Null
        /\ e.callbacks = c.callbacks /\ e.lingeringCallbacks = c.lingeringCallbacks
        /\ e.timers = c.timers /\ e.calls = c.calls /\ e.writes = c.writes
    BY <1>1 DEF Client
  <1> HIDE DEF d, e
  <1>8. CASE id \in Unserialisable
    <2>1. Typed(e) /\ QueueOrdered(e, last) /\ CallbacksKept(e, last)
      BY <1>1, <1>5, <1>7 DEF Consistent, Typed, QueueOrdered, CallbacksKept
    <2>2. AttemptsCounted(e)
      BY <1>7, Zenon DEF Consistent, AttemptsCounted
    <2>3. \A i \in Id : c.writes[i] <= e.writes[i]
      BY <1>1, <1>7
    <2> QED
      BY <1>2, <1>7, <1>8, <2>1, <2>2, <2>3 DEF Sound, Consistent
  <1>9. CASE id \notin Unserialisable
    <2>1. Typed(d) /\ CallbacksKept(d, last)
      BY <1>1, <1>5, <1>6 DEF Consistent, Typed, CallbacksKept
    <2>2. \A i \in Id : W[i] > 0 => c.writes[i] > 0
      BY <1>3
    <2>3. QueueOrdered(d, last)
      BY <1>6, <2>2 DEF Consistent, QueueOrdered
    <2>4. \A i \in Id : W[i] <= 2 /\ (<<i, FALSE>> \in T => W[i] = 1)
      <3> TAKE i \in Id
      <3>1. c.writes[i] <= 2
        BY Zenon DEF Consistent, AttemptsCounted
      <3>2. <<i, FALSE>> \in T => c.writes[i] = 1 /\ i # id
        BY <1>4, Zenon DEF Consistent, AttemptsCounted
      <3> QED
        BY <1>3, <3>1, <3>2
    <2>5. AttemptsCounted(d)
      BY <1>6, <2>4, Zenon DEF AttemptsCounted
    <2>6. \A i \in Id : c.writes[i] <= d.writes[i]
      <3>1. \A i \in Id : c.writes[i] <= W[i]
        BY <1>1, <1>3
      <3> QED
        BY <1>6, <3>1
    <2> QED
      BY <1>2, <1>6, <1>9, <2>1, <2>3, <2>5, <2>6 DEF Sound, Consistent
  <1> QED
    BY <1>8, <1>9

(* The command timer: a first timeout writes the command again, a second    *)
(* one settles it and sends the next.                                       *)
LEMMA CommandTimeoutSound ==
  ASSUME NEW c, NEW last \in Nat, NEW id \in Id, NEW isRetry \in BOOLEAN,
         Consistent(c, last), ~c.threw, <<id, isRetry>> \in c.timers
  PROVE  Sound(c, CommandTimeout(c, id, isRetry), last)
  <1> DEFINE T == c.timers \ {<<id, isRetry>>}
             d == [c EXCEPT !.timers = T]
  <1>1. c \in Client /\ c.timers \in SUBSET (Id \X BOOLEAN) /\ c.timedOut \in SUBSET Id
        /\ Typed(c)
    BY DEF Consistent, Typed, Client
  <1>2. T \in SUBSET (Id \X BOOLEAN) /\ T \subseteq c.timers
    BY <1>1
  <1>3. <<id, isRetry>> \notin T
    OBVIOUS
  <1> HIDE DEF T
  <1>4. d \in Client
    BY <1>1, <1>2, Zenon DEF Client
  <1>5. /\ SameCommands(c, d) /\ d.aged = c.aged /\ d.timers = T /\ ~d.threw
        /\ d.sent = c.sent /\ d.writes = c.writes /\ d.disposed = c.disposed
        /\ d.timedOut = c.timedOut
    BY <1>1 DEF Client, SameCommands
  <1>6. Sound(c, d, last)
    <2>1. Typed(d)
      BY <1>1, <1>4, <1>5 DEF Typed, SameCommands
    <2> QED
      BY <1>2, <1>5, <2>1, FrameSound
  <1>7. CommandTimeout(c, id, isRetry) =
          IF d.disposed \/ d.sent # id THEN d
          ELSE IF isRetry
               THEN ProcessQueue([SendReply(d, id) EXCEPT !.timedOut = @ \cup {id}])
               ELSE ExecuteCommand(d, id, TRUE)
    BY DEF CommandTimeout, T
  <1> HIDE DEF d
  <1>8. Consistent(d, last)
    BY <1>6 DEF Sound
  <1>9. CASE d.sent = id /\ isRetry
    <2> DEFINE r == SendReply(d, id)
               O == r.timedOut \cup {id}
               e == [r EXCEPT !.timedOut = O]
    <2>1. Sound(d, r, last) /\ ~r.threw
      BY <1>5, <1>8, <1>9, SendReplySound
    <2> HIDE DEF r
    <2>2. Typed(r) /\ r \in Client /\ r.timedOut \in SUBSET Id
      BY <2>1 DEF Sound, Consistent, Typed, Client
    <2>3. O \in SUBSET Id
      BY <2>2
    <2> HIDE DEF O
    <2>4. e \in Client
      BY <2>2, <2>3, Zenon DEF Client
    <2>5. SameCommands(r, e) /\ e.aged = r.aged /\ e.timers = r.timers /\ e.threw = r.threw
      BY <2>2 DEF Client, SameCommands
    <2> HIDE DEF e
    <2>6. Sound(r, e, last)
      <3>1. Typed(e) /\ e.timers \subseteq r.timers
        BY <2>2, <2>4, <2>5 DEF Typed, SameCommands
      <3> QED
        BY <2>1, <2>5, <3>1, FrameSound DEF Sound
    <2>7. Sound(e, ProcessQueue(e), last)
      BY <2>1, <2>5, <2>6, ProcessQueueSound DEF Sound
    <2>8. Sound(c, r, last)
      BY <1>1, <1>6, <2>1, SoundTransitive
    <2>9. Sound(c, e, last)
      BY <1>1, <2>6, <2>8, SoundTransitive
    <2>10. Sound(c, ProcessQueue(e), last)
      BY <1>1, <2>7, <2>9, SoundTransitive
    <2> QED
      BY <1>6, <1>7, <1>9, <2>10 DEF e, r, O
  <1>10. CASE d.sent = id /\ ~isRetry
    <2>1. <<id, FALSE>> \in c.timers /\ <<id, FALSE>> \notin T
      BY <1>3, <1>10
    <2>2. d.writes[id] = 1
      BY <1>5, <2>1, Zenon DEF Consistent, AttemptsCounted
    <2>3. Sound(d, ExecuteCommand(d, id, TRUE), last)
      BY <1>5, <1>8, <1>10, <2>1, <2>2, RetrySound
    <2>4. Sound(c, ExecuteCommand(d, id, TRUE), last)
      BY <1>1, <1>6, <2>3, SoundTransitive
    <2> QED
      BY <1>6, <1>7, <1>10, <2>4
  <1> QED
    BY <1>6, <1>7, <1>9, <1>10

(* The poll timer runs processQueue.                                        *)
LEMMA PollTimeoutSound ==
  ASSUME NEW c, NEW last \in Nat, Consistent(c, last), ~c.threw
  PROVE  Sound(c, PollTimeout(c), last)
  <1> DEFINE d == [c EXCEPT !.poll = FALSE]
  <1>1. c \in Client /\ Typed(c)
    BY DEF Consistent, Typed
  <1>2. d \in Client
    BY <1>1, Zenon DEF Client
  <1>3. SameCommands(c, d) /\ d.aged = c.aged /\ d.timers = c.timers /\ ~d.threw
    BY <1>1 DEF Client, SameCommands
  <1>4. PollTimeout(c) = ProcessQueue(d)
    BY DEF PollTimeout
  <1> HIDE DEF d
  <1>5. Typed(d) /\ d.timers \subseteq c.timers
    BY <1>1, <1>2, <1>3 DEF Typed, SameCommands
  <1>6. Sound(c, d, last)
    BY <1>3, <1>5, FrameSound
  <1>7. Sound(d, ProcessQueue(d), last)
    BY <1>3, <1>6, ProcessQueueSound DEF Sound
  <1> QED
    BY <1>1, <1>4, <1>6, <1>7, SoundTransitive

(* The cleanup settles the aged entries and, with _sendReply, gives up the  *)
(* command in flight: it loses track of that one, but calls nothing twice.  *)
LEMMA QueueCleanupSound ==
  ASSUME NEW c, NEW last \in Nat, Consistent(c, last), ~c.threw, c.cleanups > 0
  PROVE  Sound(c, QueueCleanup(c), last)
  <1> DEFINE n == c.cleanups - 1
             d == [c EXCEPT !.cleanups = n]
  <1>1. c \in Client /\ Typed(c) /\ n \in Nat
    BY DEF Consistent, Typed, Client
  <1> HIDE DEF n
  <1>2. d \in Client
    BY <1>1, Zenon DEF Client
  <1>3. SameCommands(c, d) /\ d.aged = c.aged /\ d.timers = c.timers /\ ~d.threw
    BY <1>1 DEF Client, SameCommands
  <1>4. Sound(c, d, last)
    <2>1. Typed(d) /\ d.timers \subseteq c.timers
      BY <1>1, <1>2, <1>3 DEF Typed, SameCommands
    <2> QED
      BY <1>3, <2>1, FrameSound
  <1>5. QueueCleanup(c) =
          IF d.disposed \/ d.aged = 0 THEN d
          ELSE RemoveAged([Call(d, Aged(d)) EXCEPT !.sent = Null, !.lingering = Null])
    BY DEF QueueCleanup, n
  <1> HIDE DEF d
  <1>6. Consistent(d, last)
    BY <1>4 DEF Sound
  <1> DEFINE A == Aged(d)
             S == A \cap (d.callbacks \cup d.lingeringCallbacks)
             q == SubSeq(d.queue, d.aged + 1, Len(d.queue))
             N == Bump(d.calls, S)
             K == d.callbacks \ A
             L == d.lingeringCallbacks \ A
             b == [d EXCEPT !.calls = N, !.callbacks = K, !.lingeringCallbacks = L]
             f == [b EXCEPT !.sent = Null, !.lingering = Null]
             e == [f EXCEPT !.queue = q, !.aged = 0]
  <1>7. /\ q \in Seq(Id) /\ A \subseteq d.callbacks /\ A \cap d.lingeringCallbacks = {}
    BY <1>6, AgedRemoved
  <1>8. d.calls \in [Id -> Nat] /\ d.callbacks \in SUBSET Id /\ d.lingeringCallbacks \in SUBSET Id
    BY <1>2 DEF Client
  <1> HIDE DEF A, q
  <1>9. S = A /\ L = d.lingeringCallbacks
    BY <1>7
  <1>10. K \in SUBSET Id /\ L \in SUBSET Id
    BY <1>8
  <1> HIDE DEF S
  <1>11. N \in [Id -> Nat]
    <2>1. d.calls \in [Id -> Nat]
      BY <1>8
    <2> QED
      BY <2>1, BumpType
  <1>12. N = Bump(d.calls, A)
    BY <1>9
  <1>13. b.queue = d.queue /\ b.aged = d.aged /\ f.queue = d.queue /\ f.aged = d.aged
    BY <1>2 DEF Client
  <1>14. RemoveAged([Call(d, Aged(d)) EXCEPT !.sent = Null, !.lingering = Null]) = e
    BY <1>13 DEF RemoveAged, Call, A, S, q
  <1> HIDE DEF N, K, L
  <1>15. e \in Client
    <2>1. b \in Client
      BY <1>2, <1>10, <1>11, Zenon DEF Client
    <2> HIDE DEF b
    <2>2. Null \in Id \cup {Null} /\ 0 \in Nat
      OBVIOUS
    <2>3. f \in Client
      BY <2>1, <2>2, Zenon DEF Client
    <2> HIDE DEF f
    <2> QED
      BY <1>7, <2>2, <2>3, Zenon DEF Client
  <1>16. /\ e.queue = q /\ e.aged = 0 /\ e.sent = Null /\ e.lingering = Null
         /\ e.callbacks = K /\ e.lingeringCallbacks = L
         /\ e.timers = d.timers /\ e.calls = N /\ e.writes = d.writes /\ e.threw = d.threw
    BY <1>2 DEF Client
  <1> HIDE DEF e
  <1>17. /\ e.lingeringCallbacks = d.lingeringCallbacks
         /\ e.callbacks = d.callbacks \ Aged(d) /\ e.calls = Bump(d.calls, Aged(d))
         /\ e.queue = SubSeq(d.queue, d.aged + 1, Len(d.queue)) /\ ~e.threw
    BY <1>3, <1>9, <1>12, <1>16 DEF K, A, q
  <1>18. Sound(d, e, last)
    BY <1>3, <1>6, <1>15, <1>16, <1>17, AgedSettledSound
  <1>19. Sound(c, e, last)
    BY <1>1, <1>4, <1>18, SoundTransitive
  <1> QED
    BY <1>4, <1>5, <1>14, <1>19

(* handOverQueue leaves a client without commands, but for a heartbeat that *)
(* may still be answered.                                                   *)
LEMMA HandOverQueueSound ==
  ASSUME NEW c, NEW last \in Nat, Consistent(c, last), ~c.threw
  PROVE  Sound(c, HandOverQueue(c), last)
  <1> DEFINE keep == c.sent # Null /\ c.sent \in HeartBeats
             g == IF keep THEN c.sent ELSE Null
             L == IF keep THEN c.lingeringCallbacks \cup ({c.sent} \cap c.callbacks)
                          ELSE c.lingeringCallbacks \ {c.lingering}
             d == [c EXCEPT !.lingering = g, !.lingeringCallbacks = L, !.queue = <<>>,
                            !.aged = 0, !.callbacks = {}, !.sent = Null, !.poll = FALSE]
  <1>1. /\ c \in Client /\ c.sent \in Id \cup {Null} /\ c.writes \in [Id -> Nat]
        /\ c.callbacks \in SUBSET Id /\ c.lingeringCallbacks \in SUBSET Id
    BY DEF Consistent, Typed, Client
  <1>2. HandOverQueue(c) = d
    BY DEF HandOverQueue
  <1>3. /\ g \in Id \cup {Null} /\ L \in SUBSET Id /\ <<>> \in Seq(Id) /\ 0 \in Nat
        /\ {} \in SUBSET Id /\ Null \in Id \cup {Null} /\ Len(<<>>) = 0
    BY <1>1, EmptySeq
  <1>4. /\ L \subseteq c.callbacks \cup c.lingeringCallbacks
        /\ g # Null => g \in L
    BY DEF Consistent, CallbacksKept
  <1> HIDE DEF g, L
  <1>5. d \in Client
    BY <1>1, <1>3, Zenon DEF Client
  <1>6. /\ d.queue = <<>> /\ d.aged = 0 /\ d.sent = Null /\ d.lingering = g
        /\ d.callbacks = {} /\ d.lingeringCallbacks = L
        /\ d.timers = c.timers /\ d.calls = c.calls /\ d.writes = c.writes /\ d.threw = c.threw
    BY <1>1 DEF Client
  <1> HIDE DEF d
  <1>7. Typed(d)
    BY <1>3, <1>5, <1>6 DEF Typed
  <1>8. QueueOrdered(d, last)
    BY <1>3, <1>6 DEF Consistent, QueueOrdered
  <1>9. CallbacksKept(d, last)
    BY <1>4, <1>6 DEF Consistent, CallbacksKept
  <1>10. AttemptsCounted(d)
    BY <1>6, Zenon DEF Consistent, AttemptsCounted
  <1>11. \A id \in Id : c.writes[id] <= d.writes[id]
    BY <1>1, <1>6
  <1> QED
    BY <1>2, <1>6, <1>7, <1>8, <1>9, <1>10, <1>11 DEF Sound, Consistent

(* A reply settles the command that waits for one, if it settles any.       *)
LEMMA ReplySound ==
  ASSUME NEW c, NEW last \in Nat, NEW id \in Id, Consistent(c, last), ~c.threw
  PROVE  /\ Sound(c, ReplyReceived(c, id), last)
         /\ Sound(c, HeartBeatReceived(c), last)
         /\ Sound(c, BuddyNackReceived(c), last)
  <1> DEFINE awaited == IF c.sent # Null THEN c.sent ELSE c.lingering
             O == c.timedOut \ {id}
             n == c.cleanups + 1
             x == [c EXCEPT !.timedOut = O]
             y == [c EXCEPT !.cleanups = n]
             d == IF awaited = Null THEN x ELSE IF awaited = id THEN SendReply(c, id) ELSE y
  <1>1. /\ c \in Client /\ Typed(c) /\ c.sent \in Id \cup {Null}
        /\ O \in SUBSET Id /\ n \in Nat
    BY DEF Consistent, Typed, Client
  <1>2. ReplyReceived(c, id) = ProcessQueue(d)
    BY DEF ReplyReceived
  <1> HIDE DEF O, n
  <1>3. Sound(c, x, last) /\ ~x.threw
    <2>1. x \in Client
      BY <1>1, Zenon DEF Client
    <2>2. SameCommands(c, x) /\ x.aged = c.aged /\ x.timers = c.timers /\ ~x.threw
      BY <1>1 DEF Client, SameCommands
    <2> HIDE DEF x
    <2>3. Typed(x) /\ x.timers \subseteq c.timers
      BY <1>1, <2>1, <2>2 DEF Typed, SameCommands
    <2> QED
      BY <2>2, <2>3, FrameSound
  <1>4. Sound(c, y, last) /\ ~y.threw
    <2>1. y \in Client
      BY <1>1, Zenon DEF Client
    <2>2. SameCommands(c, y) /\ y.aged = c.aged /\ y.timers = c.timers /\ ~y.threw
      BY <1>1 DEF Client, SameCommands
    <2> HIDE DEF y
    <2>3. Typed(y) /\ y.timers \subseteq c.timers
      BY <1>1, <2>1, <2>2 DEF Typed, SameCommands
    <2> QED
      BY <2>2, <2>3, FrameSound
  <1> HIDE DEF x, y
  <1>5. \A d2 : Sound(c, d2, last) /\ ~d2.threw => Sound(c, ProcessQueue(d2), last)
    <2> TAKE d2
    <2> HAVE Sound(c, d2, last) /\ ~d2.threw
    <2>1. Sound(d2, ProcessQueue(d2), last)
      BY ProcessQueueSound DEF Sound
    <2> QED
      BY <1>1, <2>1, SoundTransitive
  <1>6. \A i \in Id : awaited = i => Sound(c, SendReply(c, i), last) /\ ~SendReply(c, i).threw
    <2> TAKE i \in Id
    <2> HAVE awaited = i
    <2>1. c.sent = i \/ (c.sent = Null /\ c.lingering = i)
      OBVIOUS
    <2> QED
      BY <2>1, SendReplySound
  <1>7. Sound(c, ReplyReceived(c, id), last)
    <2>1. Sound(c, d, last) /\ ~d.threw
      BY <1>3, <1>4, <1>6
    <2> HIDE DEF d
    <2> QED
      BY <1>2, <1>5, <2>1
  <1>8. Sound(c, c, last)
    BY SoundReflexive
  <1>9. c.sent # Null => c.sent \in Id /\ awaited = c.sent
    BY <1>1
  <1>10. c.sent \in HeartBeats => c.sent # Null
    BY KindAssumption, IdNat
  <1>11. Sound(c, HeartBeatReceived(c), last)
    BY <1>5, <1>6, <1>8, <1>9, <1>10 DEF HeartBeatReceived
  <1>12. Sound(c, BuddyNackReceived(c), last)
    BY <1>5, <1>6, <1>8, <1>9 DEF BuddyNackReceived
  <1> QED
    BY <1>7, <1>11, <1>12

(* A step that changes only flags or the age of entries.                    *)
LEMMA FlagsSound ==
  ASSUME NEW c, NEW last \in Nat, NEW v \in BOOLEAN, NEW w \in BOOLEAN, Consistent(c, last)
  PROVE  /\ Sound(c, [c EXCEPT !.connected = v], last)
         /\ Sound(c, [c EXCEPT !.disposed = w, !.connected = v], last)
         /\ Sound(c, [c EXCEPT !.threw = FALSE], last)
         /\ c.aged < Len(c.queue) => Sound(c, [c EXCEPT !.aged = @ + 1], last)
  <1> DEFINE n == c.aged + 1
             t == [c EXCEPT !.connected = v]
             u == [c EXCEPT !.disposed = w, !.connected = v]
             x == [c EXCEPT !.threw = FALSE]
             y == [c EXCEPT !.aged = n]
  <1>1. /\ c \in Client /\ c.aged \in Nat /\ c.aged <= Len(c.queue)
        /\ Len(c.queue) \in Nat /\ n \in Nat /\ FALSE \in BOOLEAN
        /\ (c.aged < Len(c.queue) => n <= Len(c.queue))
    BY DEF Consistent, Typed, Client
  <1> HIDE DEF n
  <1>2. t \in Client
    BY <1>1, Zenon DEF Client
  <1>3. u \in Client
    BY <1>1, Zenon DEF Client
  <1>4. x \in Client
    BY <1>1, Zenon DEF Client
  <1>5. y \in Client
    BY <1>1, Zenon DEF Client
  <1>6. SameCommands(c, t) /\ t.aged = c.aged /\ t.timers = c.timers
    BY <1>1 DEF Client, SameCommands
  <1>7. SameCommands(c, u) /\ u.aged = c.aged /\ u.timers = c.timers
    BY <1>1 DEF Client, SameCommands
  <1>8. SameCommands(c, x) /\ x.aged = c.aged /\ x.timers = c.timers
    BY <1>1 DEF Client, SameCommands
  <1>9. SameCommands(c, y) /\ y.aged = n /\ y.timers = c.timers
    BY <1>1 DEF Client, SameCommands
  <1> HIDE DEF t, u, x, y
  <1>10. Sound(c, t, last)
    BY <1>1, <1>2, <1>6, FrameSound DEF Typed, SameCommands
  <1>11. Sound(c, u, last)
    BY <1>1, <1>3, <1>7, FrameSound DEF Typed, SameCommands
  <1>12. Sound(c, x, last)
    BY <1>1, <1>4, <1>8, FrameSound DEF Typed, SameCommands
  <1>13. c.aged < Len(c.queue) => Sound(c, y, last)
    BY <1>1, <1>5, <1>9, FrameSound DEF Typed, SameCommands
  <1> QED
    BY <1>10, <1>11, <1>12, <1>13 DEF t, u, x, y, n

-----------------------------------------------------------------------------
(* The fields of the client that a method leaves as they were.               *)
SameFlags(c, d)  == d.disposed = c.disposed /\ d.connected = c.connected

TimerArmedFor(c) ==
  c.sent \notin {Null} \cup Unserialisable =>
    \E isRetry \in BOOLEAN : <<c.sent, isRetry>> \in c.timers

(* executeCommand: the command it sends has a timer, if it can be sent.      *)
LEMMA ExecuteCommandFields ==
  ASSUME NEW c \in Client, NEW id \in Id, NEW r \in BOOLEAN, c.sent = Null \/ r
  PROVE  LET d == ExecuteCommand(c, id, r)
         IN  /\ d \in Client /\ d.sent = id
             /\ d.calls = c.calls /\ d.timedOut = c.timedOut
             /\ SameFlags(c, d) /\ TimerArmedFor(d)
  <1> DEFINE b == [c EXCEPT !.sent = id, !.lingering = Null]
             e == [b EXCEPT !.threw = TRUE]
             t == c.timers \cup {<<id, r>>}
             w == Bump(c.writes, {id})
             s == [b EXCEPT !.timers = t, !.writes = w]
  <1>1. /\ b.sent = id /\ b.calls = c.calls /\ b.timedOut = c.timedOut /\ b.timers = c.timers
        /\ b.disposed = c.disposed /\ b.connected = c.connected /\ b.writes = c.writes
    BY DEF Client
  <1>2. /\ e.sent = id /\ e.calls = c.calls /\ e.timedOut = c.timedOut
        /\ e.disposed = c.disposed /\ e.connected = c.connected
    BY DEF Client
  <1>3. /\ s.sent = id /\ s.calls = c.calls /\ s.timedOut = c.timedOut /\ s.timers = t
        /\ s.disposed = c.disposed /\ s.connected = c.connected
    BY DEF Client
  <1>4. ExecuteCommand(c, id, r) = IF id \in Unserialisable THEN e ELSE s
    BY <1>1 DEF ExecuteCommand
  <1>5. /\ t \in SUBSET (Id \X BOOLEAN) /\ id \in Id \cup {Null} /\ Null \in Id \cup {Null}
        /\ TRUE \in BOOLEAN
    BY TimerArmed DEF Client
  <1>6. w \in [Id -> Nat]
    BY BumpType DEF Client
  <1> HIDE DEF w, t
  <1>7. b \in Client
    BY <1>5, Zenon DEF Client
  <1> HIDE DEF b
  <1>8. e \in Client /\ s \in Client
    BY <1>5, <1>6, <1>7, Zenon DEF Client
  <1> HIDE DEF e, s
  <1>9. CASE id \in Unserialisable
    BY <1>2, <1>4, <1>8, <1>9 DEF SameFlags, TimerArmedFor
  <1>10. CASE id \notin Unserialisable
    BY <1>3, <1>4, <1>8, <1>10 DEF SameFlags, TimerArmedFor, t
  <1> QED
    BY <1>9, <1>10

(* processQueue, connected: what it sends has a timer.                       *)
LEMMA SendNextFields ==
  ASSUME NEW c \in Client, c.sent = Null
  PROVE  LET d == SendNext(c)
         IN  /\ d \in Client /\ d.calls = c.calls /\ d.timedOut = c.timedOut
             /\ SameFlags(c, d) /\ TimerArmedFor(d)
  <1>1. CASE c.queue = <<>>
    <2> DEFINE d == [c EXCEPT !.poll = FALSE]
    <2>1. /\ d.calls = c.calls /\ d.timedOut = c.timedOut /\ d.sent = Null
          /\ d.disposed = c.disposed /\ d.connected = c.connected
      BY DEF Client
    <2>2. FALSE \in BOOLEAN
      OBVIOUS
    <2>3. d \in Client
      BY <2>2, Zenon DEF Client
    <2> HIDE DEF d
    <2> QED
      BY <1>1, <2>1, <2>3 DEF SendNext, SameFlags, TimerArmedFor, d
  <1>2. CASE c.queue # <<>>
    <2> DEFINE q == Tail(c.queue)
               a == IF c.aged = 0 THEN 0 ELSE c.aged - 1
               b == [c EXCEPT !.poll = FALSE, !.queue = q, !.aged = a]
    <2>1. Head(c.queue) \in Id /\ q \in Seq(Id)
      BY <1>2, HeadTailProperties, EmptySeq DEF Client
    <2>2. a \in Nat
      BY DEF Client
    <2> HIDE DEF q, a
    <2>3. b \in Client
      BY <2>1, <2>2, Zenon DEF Client
    <2>4. /\ b.sent = Null /\ b.calls = c.calls /\ b.timedOut = c.timedOut
          /\ b.disposed = c.disposed /\ b.connected = c.connected
      BY DEF Client
    <2>5. SendNext(c) = ExecuteCommand(b, Head(c.queue), FALSE)
      BY <1>2 DEF SendNext, q, a
    <2> HIDE DEF b
    <2>6. LET d == ExecuteCommand(b, Head(c.queue), FALSE)
          IN  /\ d \in Client /\ d.calls = b.calls /\ d.timedOut = b.timedOut
              /\ SameFlags(b, d) /\ TimerArmedFor(d)
      <3>1. FALSE \in BOOLEAN
        OBVIOUS
      <3> QED
        BY <2>1, <2>3, <2>4, <3>1, ExecuteCommandFields
    <2> QED
      BY <2>4, <2>5, <2>6 DEF SameFlags
  <1> QED
    BY <1>1, <1>2

(* processQueue, not connected.                                              *)
LEMMA DropAgedFields ==
  ASSUME NEW c \in Client, c.aged <= Len(c.queue)
  PROVE  LET d == DropAged(c)
         IN  /\ d \in Client /\ d.timedOut = c.timedOut /\ d.sent = c.sent /\ d.timers = c.timers
             /\ SameFlags(c, d)
  <1> DEFINE n == Bump(c.calls, Aged(c))
             k == c.callbacks \ Aged(c)
             e == [c EXCEPT !.calls = n, !.callbacks = k]
             q == SubSeq(e.queue, e.aged + 1, Len(e.queue))
             r == [e EXCEPT !.queue = q, !.aged = 0]
             p == (r.poll \/ c.aged < Len(c.queue))
             s == [r EXCEPT !.poll = p]
             t == [c EXCEPT !.threw = TRUE]
  <1>1. DropAged(c) = IF ~(Aged(c) \subseteq c.callbacks) THEN t ELSE s
    BY DEF DropAged, RemoveAged
  <1>2. /\ n \in [Id -> Nat] /\ k \in SUBSET Id /\ p \in BOOLEAN
        /\ TRUE \in BOOLEAN /\ 0 \in Nat
    BY BumpType DEF Client
  <1>3. e.queue = c.queue /\ e.aged = c.aged
    BY DEF Client
  <1>4. q \in Seq(Id)
    <2>1. c.queue \in Seq(Id) /\ c.aged \in Nat
      BY DEF Client
    <2> QED
      BY <1>3, <2>1, Suffix
  <1> HIDE DEF n, k, q, p
  <1>5. /\ t.timedOut = c.timedOut /\ t.sent = c.sent /\ t.timers = c.timers
        /\ t.disposed = c.disposed /\ t.connected = c.connected
    BY DEF Client
  <1>6. /\ s.timedOut = c.timedOut /\ s.sent = c.sent /\ s.timers = c.timers
        /\ s.disposed = c.disposed /\ s.connected = c.connected
    BY DEF Client
  <1>7. t \in Client
    BY <1>2, Zenon DEF Client
  <1>8. e \in Client
    BY <1>2, Zenon DEF Client
  <1> HIDE DEF e
  <1>9. r \in Client
    BY <1>2, <1>4, <1>8, Zenon DEF Client
  <1> HIDE DEF r
  <1>10. s \in Client
    BY <1>2, <1>9, Zenon DEF Client
  <1> HIDE DEF s, t
  <1> QED
    BY <1>1, <1>5, <1>6, <1>7, <1>10 DEF SameFlags

(* processQueue: nothing at all if disposed, no callback while connected,    *)
(* and the timer of the command in flight is armed if it was before.         *)
LEMMA ProcessQueueFields ==
  ASSUME NEW c \in Client, c.aged <= Len(c.queue)
  PROVE  LET d == ProcessQueue(c)
         IN  /\ d \in Client /\ SameFlags(c, d)
             /\ c.disposed => d = c
             /\ c.connected => d.calls = c.calls
             /\ TimerArmedFor(c) => TimerArmedFor(d)
             /\ d.timedOut = {} \/ (d.timedOut = c.timedOut /\ (c.disposed \/ d.threw))
  <1> DEFINE d == IF c.sent # Null THEN c
                  ELSE IF c.connected THEN SendNext(c)
                  ELSE IF c.queue # <<>> THEN DropAged(c)
                  ELSE c
             e == [d EXCEPT !.timedOut = {}]
  <1>1. ProcessQueue(c) = IF c.disposed THEN c ELSE IF d.threw THEN d ELSE e
    BY DEF ProcessQueue
  <1>2. SameFlags(c, c)
    BY DEF SameFlags
  <1>3. /\ d \in Client /\ d.timedOut = c.timedOut /\ SameFlags(c, d)
        /\ c.connected => d.calls = c.calls
        /\ TimerArmedFor(c) => TimerArmedFor(d)
    <2>1. CASE c.sent # Null \/ (~c.connected /\ c.queue = <<>>)
      BY <1>2, <2>1
    <2>2. CASE c.sent = Null /\ c.connected
      <3>1. d = SendNext(c)
        BY <2>2
      <3>2. LET f == SendNext(c)
            IN  /\ f \in Client /\ f.calls = c.calls /\ f.timedOut = c.timedOut
                /\ SameFlags(c, f) /\ TimerArmedFor(f)
        BY <2>2, SendNextFields
      <3> HIDE DEF d
      <3> QED
        BY <3>1, <3>2
    <2>3. CASE c.sent = Null /\ ~c.connected /\ c.queue # <<>>
      <3>1. d = DropAged(c)
        BY <2>3
      <3>2. LET f == DropAged(c)
            IN  /\ f \in Client /\ f.timedOut = c.timedOut /\ f.sent = c.sent /\ f.timers = c.timers
                /\ SameFlags(c, f)
        BY DropAgedFields
      <3> HIDE DEF d
      <3> QED
        BY <2>3, <3>1, <3>2 DEF TimerArmedFor
    <2> QED
      BY <2>1, <2>2, <2>3
  <1> HIDE DEF d
  <1>4. /\ e.timedOut = {} /\ e.sent = d.sent /\ e.timers = d.timers /\ e.calls = d.calls
        /\ e.disposed = d.disposed /\ e.connected = d.connected
    BY <1>3 DEF Client
  <1>9. e \in Client
    <2>1. {} \in SUBSET Id
      OBVIOUS
    <2> QED
      BY <1>3, <2>1, Zenon DEF Client
  <1> HIDE DEF e
  <1>5. SameFlags(c, e) /\ (TimerArmedFor(d) => TimerArmedFor(e))
    BY <1>3, <1>4 DEF SameFlags, TimerArmedFor
  <1>6. CASE c.disposed
    BY <1>1, <1>2, <1>6
  <1>7. CASE ~c.disposed /\ d.threw
    BY <1>1, <1>3, <1>7
  <1>8. CASE ~c.disposed /\ ~d.threw
    BY <1>1, <1>3, <1>4, <1>5, <1>8, <1>9
  <1> QED
    BY <1>6, <1>7, <1>8

(* _sendReply: nothing is in flight after it, and no other command's         *)
(* callback is called.                                                       *)
LEMMA SendReplyFields ==
  ASSUME NEW c \in Client, NEW id \in Id
  PROVE  LET d == SendReply(c, id)
         IN  /\ d \in Client /\ d.sent = Null /\ d.queue = c.queue /\ d.aged = c.aged
             /\ d.timedOut = c.timedOut /\ SameFlags(c, d)
             /\ \A other \in Id \ {id} : d.calls[other] = c.calls[other]
  <1> DEFINE S == {id} \cap (c.callbacks \cup c.lingeringCallbacks)
             n == Bump(c.calls, S)
             k == c.callbacks \ {id}
             g == c.lingeringCallbacks \ {id}
             b == [c EXCEPT !.calls = n, !.callbacks = k, !.lingeringCallbacks = g]
             d == [b EXCEPT !.sent = Null, !.lingering = Null]
  <1>1. SendReply(c, id) = d
    BY DEF SendReply, Call
  <1> HIDE DEF S
  <1>2. n \in [Id -> Nat] /\ \A i \in Id : n[i] = IF i \in S THEN c.calls[i] + 1 ELSE c.calls[i]
    <2>1. c.calls \in [Id -> Nat]
      BY DEF Client
    <2> QED
      BY <2>1, BumpType
  <1>3. k \in SUBSET Id /\ g \in SUBSET Id /\ Null \in Id \cup {Null}
    BY DEF Client
  <1> HIDE DEF n, k, g
  <1>4. b \in Client
    BY <1>2, <1>3, Zenon DEF Client
  <1>5. d \in Client
    BY <1>3, <1>4, Zenon DEF Client
  <1>6. /\ d.sent = Null /\ d.queue = c.queue /\ d.aged = c.aged /\ d.timedOut = c.timedOut
        /\ d.calls = n /\ d.disposed = c.disposed /\ d.connected = c.connected
    BY DEF Client
  <1> HIDE DEF b, d
  <1>7. \A other \in Id \ {id} : n[other] = c.calls[other]
    BY <1>2 DEF S
  <1> QED
    BY <1>1, <1>5, <1>6, <1>7 DEF SameFlags

(* What every handler of the client leaves as it was or sets up again.       *)
Steady(c, d) ==
  /\ SameFlags(c, d)
  /\ c.disposed => d.calls = c.calls /\ d.writes = c.writes
  /\ ~c.disposed /\ TimerArmedFor(c) => TimerArmedFor(d)
  /\ c.timedOut = {} /\ ~d.threw => d.timedOut = {}

(* A handler that ends with processQueue is steady if what it does before    *)
(* that call is.                                                             *)
LEMMA ThenProcessQueue ==
  ASSUME NEW c \in Client, NEW b \in Client, b.aged <= Len(b.queue),
         SameFlags(c, b), TimerArmedFor(c) => TimerArmedFor(b),
         c.disposed => b.calls = c.calls /\ b.writes = c.writes /\ b.timedOut = c.timedOut
  PROVE  /\ ProcessQueue(b) \in Client /\ Steady(c, ProcessQueue(b))
         /\ c.timedOut = {} /\ b.timedOut = {} => ProcessQueue(b).timedOut = {}
  <1> DEFINE d == ProcessQueue(b)
  <1>1. /\ d \in Client /\ SameFlags(b, d)
        /\ b.disposed => d = b
        /\ TimerArmedFor(b) => TimerArmedFor(d)
        /\ d.timedOut = {} \/ (d.timedOut = b.timedOut /\ (b.disposed \/ d.threw))
    BY ProcessQueueFields
  <1> HIDE DEF d
  <1>2. SameFlags(c, d)
    BY <1>1 DEF SameFlags
  <1>3. c.disposed => d = b
    BY <1>1 DEF SameFlags
  <1>4. c.timedOut = {} /\ ~d.threw => d.timedOut = {}
    BY <1>1, <1>3 DEF SameFlags
  <1>5. c.timedOut = {} /\ b.timedOut = {} => d.timedOut = {}
    BY <1>1
  <1> QED
    BY <1>1, <1>2, <1>3, <1>4, <1>5 DEF Steady, d

(* queueCommand, whose exception the executor of the Promise catches.        *)
LEMMA QueueSteady ==
  ASSUME NEW c, Typed(c), NEW id \in Id
  PROVE  Steady(c, [QueueCommand(c, id) EXCEPT !.threw = FALSE])
  <1> DEFINE k == c.callbacks \cup {id}
             q == Append(c.queue, id)
             b == [c EXCEPT !.callbacks = k, !.queue = q]
             f == ProcessQueue(b)
             d == [f EXCEPT !.threw = FALSE]
  <1>1. /\ c \in Client /\ c.queue \in Seq(Id) /\ c.aged \in Nat /\ c.aged <= Len(c.queue)
        /\ Len(c.queue) \in Nat /\ FALSE \in BOOLEAN
    BY DEF Typed, Client
  <1>2. q \in Seq(Id) /\ Len(q) = Len(c.queue) + 1 /\ k \in SUBSET Id
    <2>1. q \in Seq(Id) /\ Len(q) = Len(c.queue) + 1
      BY <1>1, AppendProperties
    <2>2. k \in SUBSET Id
      BY <1>1 DEF Client
    <2> QED
      BY <2>1, <2>2
  <1>3. QueueCommand(c, id) = f
    BY DEF QueueCommand
  <1> HIDE DEF k, q
  <1>4. b \in Client
    BY <1>1, <1>2, Zenon DEF Client
  <1>5. /\ b.queue = q /\ b.aged = c.aged /\ b.sent = c.sent /\ b.timers = c.timers
        /\ b.timedOut = c.timedOut /\ b.calls = c.calls /\ b.writes = c.writes
        /\ b.disposed = c.disposed /\ b.connected = c.connected
    BY <1>1 DEF Client
  <1> HIDE DEF b
  <1>6. b.aged <= Len(b.queue) /\ SameFlags(c, b) /\ (TimerArmedFor(c) => TimerArmedFor(b))
    BY <1>1, <1>2, <1>5 DEF SameFlags, TimerArmedFor
  <1>7. f \in Client /\ Steady(c, f) /\ (c.timedOut = {} => f.timedOut = {})
    BY <1>1, <1>4, <1>5, <1>6, ThenProcessQueue
  <1> HIDE DEF f
  <1>8. /\ d.sent = f.sent /\ d.timers = f.timers /\ d.timedOut = f.timedOut
        /\ d.calls = f.calls /\ d.writes = f.writes
        /\ d.disposed = f.disposed /\ d.connected = f.connected
    BY <1>7 DEF Client
  <1> HIDE DEF d
  <1>9. Steady(c, d)
    BY <1>7, <1>8 DEF Steady, SameFlags, TimerArmedFor
  <1> QED
    BY <1>3, <1>9 DEF d

(* The handler of a command timer: the timer it loses is that of a command   *)
(* which is no longer in flight afterwards, or has its second one.           *)
LEMMA CommandTimeoutSteady ==
  ASSUME NEW c, Typed(c), NEW id \in Id, NEW r \in BOOLEAN
  PROVE  Steady(c, CommandTimeout(c, id, r))
  <1> DEFINE T == c.timers \ {<<id, r>>}
             d == [c EXCEPT !.timers = T]
             f == SendReply(d, id)
             o == f.timedOut \cup {id}
             b == [f EXCEPT !.timedOut = o]
  <1>1. c \in Client /\ T \in SUBSET (Id \X BOOLEAN) /\ c.aged <= Len(c.queue)
    BY DEF Typed, Client
  <1>2. CommandTimeout(c, id, r) =
          IF d.disposed \/ d.sent # id THEN d
          ELSE IF r THEN ProcessQueue(b) ELSE ExecuteCommand(d, id, TRUE)
    BY DEF CommandTimeout
  <1>3. d \in Client
    <2> HIDE DEF T
    <2> QED
      BY <1>1, Zenon DEF Client
  <1>4. /\ d.sent = c.sent /\ d.timers = T /\ d.timedOut = c.timedOut /\ d.calls = c.calls
        /\ d.writes = c.writes /\ d.disposed = c.disposed /\ d.connected = c.connected
        /\ d.queue = c.queue /\ d.aged = c.aged
    BY <1>1 DEF Client
  <1> HIDE DEF d
  <1>5. CASE d.disposed \/ d.sent # id
    <2>1. c.sent # id /\ TimerArmedFor(c) => TimerArmedFor(d)
      BY <1>4 DEF TimerArmedFor
    <2> HIDE DEF T
    <2> QED
      BY <1>2, <1>4, <1>5, <2>1 DEF Steady, SameFlags
  <1>6. CASE ~d.disposed /\ d.sent = id /\ r
    <2>1. /\ f \in Client /\ f.sent = Null /\ f.queue = d.queue /\ f.aged = d.aged
          /\ SameFlags(d, f)
      BY <1>3, SendReplyFields
    <2> HIDE DEF f
    <2>2. o \in SUBSET Id
      BY <2>1 DEF Client
    <2> HIDE DEF o
    <2>3. b \in Client
      BY <2>1, <2>2, Zenon DEF Client
    <2>4. /\ b.sent = Null /\ b.queue = c.queue /\ b.aged = c.aged
          /\ b.disposed = c.disposed /\ b.connected = c.connected
      BY <1>4, <2>1 DEF Client, SameFlags
    <2> HIDE DEF b
    <2>5. Steady(c, ProcessQueue(b))
      BY <1>1, <1>4, <1>6, <2>3, <2>4, ThenProcessQueue DEF SameFlags, TimerArmedFor
    <2> QED
      BY <1>2, <1>6, <2>5
  <1>7. CASE ~d.disposed /\ d.sent = id /\ ~r
    <2> DEFINE g == ExecuteCommand(d, id, TRUE)
    <2>1. TRUE \in BOOLEAN
      OBVIOUS
    <2>2. g.timedOut = d.timedOut /\ SameFlags(d, g) /\ TimerArmedFor(g)
      BY <1>3, <2>1, ExecuteCommandFields
    <2> HIDE DEF g
    <2>3. Steady(c, g)
      BY <1>4, <1>7, <2>2 DEF Steady, SameFlags
    <2> QED
      BY <1>2, <1>7, <2>3 DEF g
  <1> QED
    BY <1>5, <1>6, <1>7

(* processQueueTimeout.                                                      *)
LEMMA PollSteady ==
  ASSUME NEW c, Typed(c)
  PROVE  Steady(c, PollTimeout(c))
  <1> DEFINE b == [c EXCEPT !.poll = FALSE]
  <1>1. c \in Client /\ c.aged <= Len(c.queue) /\ FALSE \in BOOLEAN
    BY DEF Typed
  <1>2. b \in Client
    BY <1>1, Zenon DEF Client
  <1>3. /\ b.queue = c.queue /\ b.aged = c.aged /\ b.sent = c.sent /\ b.timers = c.timers
        /\ b.timedOut = c.timedOut /\ b.calls = c.calls /\ b.writes = c.writes
        /\ b.disposed = c.disposed /\ b.connected = c.connected
    BY <1>1 DEF Client
  <1>4. PollTimeout(c) = ProcessQueue(b)
    BY DEF PollTimeout
  <1> HIDE DEF b
  <1> QED
    BY <1>1, <1>2, <1>3, <1>4, ThenProcessQueue DEF SameFlags, TimerArmedFor

(* The cleanup timer: a command in flight is given up with the aged ones.    *)
LEMMA CleanupSteady ==
  ASSUME NEW c, Typed(c), c.cleanups > 0
  PROVE  Steady(c, QueueCleanup(c))
  <1> DEFINE n == c.cleanups - 1
             d == [c EXCEPT !.cleanups = n]
             S == Aged(d) \cap (d.callbacks \cup d.lingeringCallbacks)
             N == Bump(d.calls, S)
             K == d.callbacks \ Aged(d)
             L == d.lingeringCallbacks \ Aged(d)
             e == [d EXCEPT !.calls = N, !.callbacks = K, !.lingeringCallbacks = L]
             f == [e EXCEPT !.sent = Null, !.lingering = Null]
             q == SubSeq(f.queue, f.aged + 1, Len(f.queue))
             g == [f EXCEPT !.queue = q, !.aged = 0]
  <1>1. c \in Client /\ n \in Nat
    BY DEF Typed, Client
  <1>2. QueueCleanup(c) = IF d.disposed \/ d.aged = 0 THEN d ELSE g
    BY DEF QueueCleanup, Call, RemoveAged
  <1> HIDE DEF n
  <1>3. /\ d.sent = c.sent /\ d.timers = c.timers /\ d.timedOut = c.timedOut
        /\ d.calls = c.calls /\ d.writes = c.writes
        /\ d.disposed = c.disposed /\ d.connected = c.connected
    BY <1>1 DEF Client
  <1>4. d \in Client
    BY <1>1, Zenon DEF Client
  <1> HIDE DEF d, S, N, K, L
  <1>5. /\ f.sent = Null /\ f.timedOut = d.timedOut /\ f.disposed = d.disposed
        /\ f.connected = d.connected /\ f.queue = d.queue /\ f.aged = d.aged
    BY <1>4 DEF Client
  <1> HIDE DEF q
  <1>6. /\ g.sent = Null /\ g.timedOut = d.timedOut /\ g.disposed = d.disposed
        /\ g.connected = d.connected
    BY <1>4 DEF Client
  <1> HIDE DEF e, f, g
  <1>7. CASE d.disposed \/ d.aged = 0
    BY <1>2, <1>3, <1>7 DEF Steady, SameFlags, TimerArmedFor
  <1>8. CASE ~d.disposed /\ d.aged # 0
    BY <1>2, <1>3, <1>6, <1>8 DEF Steady, SameFlags, TimerArmedFor
  <1> QED
    BY <1>7, <1>8

(* handOverQueue: nothing is in flight after it.                             *)
LEMMA HandOverSteady ==
  ASSUME NEW c, Typed(c)
  PROVE  Steady(c, HandOverQueue(c))
  <1> DEFINE keep == c.sent # Null /\ c.sent \in HeartBeats
             g == IF keep THEN c.sent ELSE Null
             L == IF keep THEN c.lingeringCallbacks \cup ({c.sent} \cap c.callbacks)
                  ELSE c.lingeringCallbacks \ {c.lingering}
             d == [c EXCEPT !.lingering = g, !.lingeringCallbacks = L, !.queue = <<>>,
                            !.aged = 0, !.callbacks = {}, !.sent = Null, !.poll = FALSE]
  <1>1. c \in Client
    BY DEF Typed
  <1>2. HandOverQueue(c) = d
    BY DEF HandOverQueue
  <1> HIDE DEF g, L
  <1>3. /\ d.sent = Null /\ d.timedOut = c.timedOut /\ d.calls = c.calls
        /\ d.writes = c.writes /\ d.disposed = c.disposed /\ d.connected = c.connected
    BY <1>1 DEF Client
  <1> HIDE DEF d
  <1> QED
    BY <1>2, <1>3 DEF Steady, SameFlags, TimerArmedFor

(* The start of a reply's handler: the awaited command i is settled, or      *)
(* nothing is.  A disposed client has no connection and receives none.       *)
LEMMA SettleSteady ==
  ASSUME NEW c, Typed(c), ~c.disposed, NEW i \in Id
  PROVE  /\ Steady(c, ProcessQueue(SendReply(c, i)))
         /\ c.connected => \A other \in Id \ {i} :
              ProcessQueue(SendReply(c, i)).calls[other] = c.calls[other]
  <1> DEFINE b == SendReply(c, i)
             d == ProcessQueue(b)
  <1>1. c \in Client /\ c.aged <= Len(c.queue)
    BY DEF Typed
  <1>2. /\ b \in Client /\ b.sent = Null /\ b.queue = c.queue /\ b.aged = c.aged
        /\ b.timedOut = c.timedOut /\ SameFlags(c, b)
        /\ \A other \in Id \ {i} : b.calls[other] = c.calls[other]
    BY <1>1, SendReplyFields
  <1> HIDE DEF b
  <1>3. Steady(c, d)
    BY <1>1, <1>2, ThenProcessQueue DEF TimerArmedFor
  <1>4. b.connected => d.calls = b.calls
    BY <1>1, <1>2, ProcessQueueFields
  <1> HIDE DEF d
  <1>5. c.connected => \A other \in Id \ {i} : d.calls[other] = c.calls[other]
    BY <1>2, <1>4 DEF SameFlags
  <1> QED
    BY <1>3, <1>5 DEF b, d

LEMMA IgnoreSteady ==
  ASSUME NEW c, Typed(c), ~c.disposed
  PROVE  /\ Steady(c, ProcessQueue(c))
         /\ c.connected => ProcessQueue(c).calls = c.calls
  <1>1. c \in Client /\ c.aged <= Len(c.queue)
    BY DEF Typed
  <1>2. c.connected => ProcessQueue(c).calls = c.calls
    BY <1>1, ProcessQueueFields
  <1>3. Steady(c, ProcessQueue(c))
    BY <1>1, ThenProcessQueue DEF SameFlags
  <1> QED
    BY <1>2, <1>3

(* A reply, a heartbeat's reply, a nack of the buddy: at most the command    *)
(* that waits is settled, and a reply with a messageID settles that one.     *)
LEMMA ReplySteady ==
  ASSUME NEW c, Typed(c), ~c.disposed, NEW id \in Id
  PROVE  /\ Steady(c, ReplyReceived(c, id))
         /\ Steady(c, HeartBeatReceived(c))
         /\ Steady(c, BuddyNackReceived(c))
         /\ c.connected => \A other \in Id \ {id} :
              ReplyReceived(c, id).calls[other] = c.calls[other]
  <1> DEFINE awaited == IF c.sent # Null THEN c.sent ELSE c.lingering
             O == c.timedOut \ {id}
             n == c.cleanups + 1
             x == [c EXCEPT !.timedOut = O]
             y == [c EXCEPT !.cleanups = n]
  <1>1. /\ c \in Client /\ c.aged <= Len(c.queue) /\ c.sent \in Id \cup {Null}
        /\ O \in SUBSET Id /\ n \in Nat
    BY DEF Typed, Client
  <1>2. ReplyReceived(c, id) = IF awaited = Null THEN ProcessQueue(x)
                               ELSE IF awaited = id THEN ProcessQueue(SendReply(c, id))
                               ELSE ProcessQueue(y)
    BY DEF ReplyReceived
  <1>3. O \subseteq c.timedOut
    OBVIOUS
  <1> HIDE DEF O, n
  <1>4. x \in Client /\ y \in Client
    BY <1>1, Zenon DEF Client
  <1>5. /\ x.queue = c.queue /\ x.aged = c.aged /\ x.sent = c.sent /\ x.timers = c.timers
        /\ x.timedOut = O /\ x.calls = c.calls
        /\ x.disposed = c.disposed /\ x.connected = c.connected
    BY <1>1 DEF Client
  <1>6. /\ y.queue = c.queue /\ y.aged = c.aged /\ y.sent = c.sent /\ y.timers = c.timers
        /\ y.calls = c.calls /\ y.disposed = c.disposed /\ y.connected = c.connected
    BY <1>1 DEF Client
  <1> HIDE DEF x, y
  <1>7. /\ Steady(c, ProcessQueue(x))
        /\ c.connected => ProcessQueue(x).calls = c.calls
    <2>1. Steady(c, ProcessQueue(x))
      BY <1>1, <1>4, <1>5, ThenProcessQueue DEF SameFlags, TimerArmedFor
    <2>2. x.connected => ProcessQueue(x).calls = x.calls
      BY <1>1, <1>4, <1>5, ProcessQueueFields
    <2> QED
      BY <1>5, <2>1, <2>2
  <1>8. /\ Steady(c, ProcessQueue(y))
        /\ c.connected => ProcessQueue(y).calls = c.calls
    <2>1. Steady(c, ProcessQueue(y))
      BY <1>1, <1>4, <1>6, ThenProcessQueue DEF SameFlags, TimerArmedFor
    <2>2. y.connected => ProcessQueue(y).calls = y.calls
      BY <1>1, <1>4, <1>6, ProcessQueueFields
    <2> QED
      BY <1>6, <2>1, <2>2
  <1>9. Steady(c, ReplyReceived(c, id))
    BY <1>2, <1>7, <1>8, SettleSteady
  <1>10. c.connected => \A other \in Id \ {id} :
           ReplyReceived(c, id).calls[other] = c.calls[other]
    BY <1>2, <1>7, <1>8, SettleSteady
  <1>11. Steady(c, HeartBeatReceived(c))
    <2>1. c.sent \in HeartBeats => c.sent \in Id
      BY KindAssumption
    <2> QED
      BY <2>1, SettleSteady, IgnoreSteady DEF HeartBeatReceived
  <1>12. Steady(c, BuddyNackReceived(c))
    <2>1. c.sent # Null => c.sent \in Id
      BY <1>1
    <2> QED
      BY <2>1, SettleSteady, IgnoreSteady DEF BuddyNackReceived
  <1> QED
    BY <1>9, <1>10, <1>11, <1>12

-----------------------------------------------------------------------------
(* Ids are ordered strictly.                                                *)
LEMMA Strict == \A a, b \in Id : a < b => a # b /\ ~(b < a)
  BY IdNat

(* Removing the head of an ordered queue removes just that command.         *)
LEMMA TailQueued ==
  ASSUME NEW q \in Seq(Id), q # <<>>,
         \A i, j \in 1 .. Len(q) : i < j => q[i] < q[j]
  PROVE  /\ Head(q) \in Id /\ Head(q) \in {q[i] : i \in 1 .. Len(q)}
         /\ {Tail(q)[i] : i \in 1 .. Len(Tail(q))} = {q[i] : i \in 1 .. Len(q)} \ {Head(q)}
  <1> DEFINE t == Tail(q)
             h == Head(q)
  <1>1. /\ h \in Id /\ t \in Seq(Id) /\ Len(t) = Len(q) - 1
        /\ \A i \in 1 .. Len(t) : t[i] = q[i + 1]
        /\ Len(q) >= 1 /\ h = q[1] /\ Len(q) \in Nat
    BY HeadTailProperties, EmptySeq
  <1> HIDE DEF t, h
  <1>2. 1 \in 1 .. Len(q)
    BY <1>1
  <1>3. ASSUME NEW i \in 1 .. Len(t)
        PROVE  t[i] = q[i + 1] /\ i + 1 \in 1 .. Len(q) /\ t[i] # h
    <2>1. t[i] = q[i + 1] /\ i + 1 \in 1 .. Len(q) /\ 1 < i + 1
      BY <1>1
    <2>2. h < q[i + 1]
      BY <1>1, <1>2, <2>1
    <2>3. q[i + 1] \in Id /\ ~(h < h)
      BY <1>1, <2>1, ElementOfSeq, IdNat
    <2> QED
      BY <2>1, <2>2, <2>3
  <1>4. ASSUME NEW i \in 1 .. Len(q), q[i] # h
        PROVE  \E j \in 1 .. Len(t) : q[i] = t[j]
    <2>1. i # 1
      BY <1>1, <1>4
    <2>2. i - 1 \in 1 .. Len(t) /\ (i - 1) + 1 = i
      BY <1>1, <2>1
    <2>3. t[i - 1] = q[i]
      BY <1>1, <2>2
    <2> QED
      BY <2>2, <2>3
  <1>5. {t[i] : i \in 1 .. Len(t)} = {q[i] : i \in 1 .. Len(q)} \ {h}
    BY <1>3, <1>4
  <1> QED
    BY <1>1, <1>2, <1>5 DEF t, h

(* Removing the aged entries removes the commands of those entries.         *)
LEMMA SuffixQueued ==
  ASSUME NEW q \in Seq(Id), NEW n \in Nat, n <= Len(q),
         \A i, j \in 1 .. Len(q) : i < j => q[i] < q[j]
  PROVE  LET t == SubSeq(q, n + 1, Len(q))
         IN  {t[i] : i \in 1 .. Len(t)} =
               {q[i] : i \in 1 .. Len(q)} \ {q[i] : i \in 1 .. n}
  <1> DEFINE t == SubSeq(q, n + 1, Len(q))
  <1>1. /\ Len(q) \in Nat /\ Len(t) = Len(q) - n
        /\ \A i \in 1 .. Len(q) - n : t[i] = q[i + n] /\ i + n \in 1 .. Len(q)
    BY Suffix
  <1> HIDE DEF t
  <1>2. ASSUME NEW i \in 1 .. Len(t), NEW j \in 1 .. n
        PROVE  t[i] # q[j]
    <2>1. t[i] = q[i + n] /\ i + n \in 1 .. Len(q) /\ j \in 1 .. Len(q) /\ j < i + n
      BY <1>1
    <2>2. q[j] < q[i + n] /\ q[j] \in Id
      BY <2>1, ElementOfSeq
    <2>3. q[i + n] \in Id
      BY <2>1, ElementOfSeq
    <2> QED
      BY <2>1, <2>2, <2>3, Strict
  <1>3. ASSUME NEW i \in 1 .. Len(q), i \notin 1 .. n
        PROVE  \E j \in 1 .. Len(t) : q[i] = t[j]
    <2>1. i - n \in 1 .. Len(t) /\ (i - n) + n = i
      BY <1>1, <1>3
    <2>2. t[i - n] = q[i]
      BY <1>1, <2>1
    <2> QED
      BY <2>1, <2>2
  <1>4. \A i \in 1 .. Len(t) : \E j \in 1 .. Len(q) : t[i] = q[j]
    BY <1>1
  <1> DEFINE T == {t[i] : i \in 1 .. Len(t)}
             Q == {q[i] : i \in 1 .. Len(q)}
             A == {q[i] : i \in 1 .. n}
  <1>5. T \subseteq Q \ A
    BY <1>2, <1>4
  <1>6. Q \ A \subseteq T
    BY <1>3
  <1>7. T = Q \ A
    BY <1>5, <1>6
  <1> QED
    BY <1>7 DEF t

(* A command that joins the queue is the only one that does.                *)
LEMMA AppendQueued ==
  ASSUME NEW q \in Seq(Id), NEW id \in Id
  PROVE  LET t == Append(q, id)
         IN  {t[i] : i \in 1 .. Len(t)} = {q[i] : i \in 1 .. Len(q)} \cup {id}
  <1> DEFINE t == Append(q, id)
  <1>1. /\ Len(q) \in Nat /\ Len(t) = Len(q) + 1
        /\ \A i \in 1 .. Len(q) : t[i] = q[i]
        /\ t[Len(q) + 1] = id
    BY AppendProperties
  <1> HIDE DEF t
  <1>2. /\ Len(q) + 1 \in 1 .. Len(t)
        /\ \A i \in 1 .. Len(q) : i \in 1 .. Len(t)
        /\ \A i \in 1 .. Len(t) : i \in 1 .. Len(q) \/ i = Len(q) + 1
    BY <1>1
  <1>3. {t[i] : i \in 1 .. Len(t)} = {q[i] : i \in 1 .. Len(q)} \cup {id}
    BY <1>1, <1>2
  <1> QED
    BY <1>3 DEF t

(* In a consistent client the places where a command can be are disjoint.   *)
LEMMA Places ==
  ASSUME NEW c, NEW last \in Nat, Consistent(c, last)
  PROVE  /\ Queued(c) \subseteq c.callbacks /\ c.sent \notin Queued(c)
         /\ Aged(c) \subseteq Queued(c)
         /\ c.callbacks \cup c.lingeringCallbacks \subseteq Id
         /\ c.callbacks \cap c.lingeringCallbacks = {}
         /\ c.sent # Null => c.sent \in c.callbacks
         /\ \A id \in c.callbacks \cup c.lingeringCallbacks : ~(id > last) /\ c.calls[id] = 0
         /\ c.calls \in [Id -> Nat] /\ c.queue \in Seq(Id)
         /\ c.aged \in Nat /\ c.aged <= Len(c.queue)
  <1>1. /\ c.queue \in Seq(Id) /\ c.aged \in Nat /\ c.aged <= Len(c.queue)
        /\ Len(c.queue) \in Nat /\ c.calls \in [Id -> Nat]
        /\ c.callbacks \cup c.lingeringCallbacks \subseteq Id
    BY DEF Consistent, Typed, Client
  <1>2. Queued(c) \subseteq c.callbacks
    BY DEF Consistent, QueueOrdered, Queued
  <1>3. c.sent \notin Queued(c)
    <2>1. ASSUME NEW i \in 1 .. Len(c.queue) PROVE c.sent # c.queue[i]
      <3>1. c.sent < c.queue[i] /\ c.queue[i] \in Id
        BY <1>1, ElementOfSeq DEF Consistent, QueueOrdered
      <3> QED
        BY <3>1, Strict
    <2> QED
      BY <2>1 DEF Queued
  <1>4. Aged(c) \subseteq Queued(c)
    BY <1>1 DEF Aged, Queued
  <1>5. \A id \in c.callbacks \cup c.lingeringCallbacks : ~(id > last) /\ c.calls[id] = 0
    <2> TAKE id \in c.callbacks \cup c.lingeringCallbacks
    <2>1. id <= last /\ c.calls[id] = 0 /\ id \in Id
      BY <1>1 DEF Consistent, CallbacksKept
    <2> QED
      BY <2>1, IdNat
  <1> QED
    BY <1>1, <1>2, <1>3, <1>4, <1>5 DEF Consistent, CallbacksKept

=============================================================================
