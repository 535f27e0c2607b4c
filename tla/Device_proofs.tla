----------------------------- MODULE Device_proofs -----------------------------
(***************************************************************************)
(* Proofs about what a device does with the messages it is sent: first the   *)
(* transfers with which it answers mosReqAll (ObjectTransfer), then the      *)
(* exchange of any request and its reply (Dialogue).                         *)
(***************************************************************************)
EXTENDS Dialogue, ObjectTransfer, SequenceTheorems, WellFoundedInduction, TLAPS

(* The objects that are left when m have been taken, and the first m.        *)
Rest(m)  == [i \in 1 .. MaxObjects - m |-> m + i]
First(m) == [i \in 1 .. m |-> i]

Increasing(s) == \A i, j \in 1 .. Len(s) : i < j => s[i] < s[j]

Fresh   == {"none", "called", "calledForList"}
Unsent  == Fresh \union {"list"}
Between == {"timer", "objectGotThrough"}
Arrays  == Transfers \cup {"application"}

(* What has become of the request r, if t[h] objects were taken out of the   *)
(* array h.                                                                  *)
RequestInv(r, t) ==
  /\ Increasing(received[r])
  /\ state[r] \in Unsent => received[r] = <<>>
  /\ state[r] \in Between =>
       \A i \in 1 .. Len(received[r]) : received[r][i] <= t[Held(r)]
  /\ state[r] = "object" =>
       /\ nextObject[r] \in 1 .. t[Held(r)]
       /\ \A i \in 1 .. Len(received[r]) : received[r][i] < nextObject[r]
  /\ ~shared =>
       /\ state[r] \in Unsent => t[r] = 0
       /\ state[r] \in Between => received[r] = First(t[r])
       /\ state[r] = "object" => nextObject[r] = t[r] /\ received[r] = First(t[r] - 1)
       /\ state[r] \in {"listGotThrough", "done"} => received[r] = AllObjects
       /\ state[r] = "failed" => \E n \in 0 .. MaxObjects : received[r] = First(n)

(* Objects leave an array from its front; those that have left the array of  *)
(* the application have got through, or went down with a transfer.           *)
Settled(r) == Objects(received[r]) \union Loss(r)

TakenInv(t) ==
  /\ \A h \in Arrays : array[h] = Rest(t[h])
  /\ \A r \in Transfers : RequestInv(r, t)
  /\ shared => \A o \in 1 .. t["application"] : \E r \in Transfers : o \in Settled(r)

TransferInv ==
  /\ TransferTypeOK /\ shared \in BOOLEAN
  /\ \E t \in [Arrays -> 0 .. MaxObjects] : TakenInv(t)

-----------------------------------------------------------------------------
(* What is left after m objects have been taken.                             *)
LEMMA RestIsSeq ==
  ASSUME NEW m \in 0 .. MaxObjects
  PROVE  /\ Rest(m) \in Seq(1 .. MaxObjects) /\ Len(Rest(m)) = MaxObjects - m
         /\ \A i \in 1 .. MaxObjects - m : Rest(m)[i] = m + i
  <1>1. MaxObjects \in Nat /\ MaxObjects - m \in Nat
    BY ObjectsAssumption
  <1>2. Rest(m) \in [1 .. MaxObjects - m -> 1 .. MaxObjects]
    BY <1>1 DEF Rest
  <1> QED
    BY <1>1, <1>2 DEF Rest

LEMMA RestFacts ==
  ASSUME NEW m \in 0 .. MaxObjects
  PROVE  /\ Rest(m) \in Seq(1 .. MaxObjects) /\ Len(Rest(m)) = MaxObjects - m
         /\ \A i \in 1 .. MaxObjects - m : Rest(m)[i] = m + i
         /\ Rest(m) = <<>> <=> m = MaxObjects
         /\ m < MaxObjects => /\ m + 1 \in 0 .. MaxObjects
                              /\ Head(Rest(m)) = m + 1 /\ Tail(Rest(m)) = Rest(m + 1)
  <1>1. MaxObjects \in Nat /\ MaxObjects - m \in Nat
    BY ObjectsAssumption
  <1>2. /\ Rest(m) \in Seq(1 .. MaxObjects) /\ Len(Rest(m)) = MaxObjects - m
        /\ \A i \in 1 .. MaxObjects - m : Rest(m)[i] = m + i
    BY RestIsSeq
  <1>3. Rest(m) = <<>> <=> m = MaxObjects
    BY <1>1, <1>2, EmptySeq
  <1>4. ASSUME m < MaxObjects
        PROVE  /\ m + 1 \in 0 .. MaxObjects
               /\ Head(Rest(m)) = m + 1 /\ Tail(Rest(m)) = Rest(m + 1)
    <2>1. m + 1 \in 0 .. MaxObjects /\ MaxObjects - (m + 1) = (MaxObjects - m) - 1
          /\ 1 \in 1 .. MaxObjects - m
      BY <1>1, <1>4
    <2>2. Rest(m) # <<>>
      BY <1>3, <1>4, <1>1
    <2>3. Head(Rest(m)) = m + 1
      BY <1>2, <2>1, <2>2
    <2>4. /\ Tail(Rest(m)) \in Seq(1 .. MaxObjects)
          /\ Len(Tail(Rest(m))) = (MaxObjects - m) - 1
          /\ \A i \in 1 .. (MaxObjects - m) - 1 : Tail(Rest(m))[i] = Rest(m)[i + 1]
      BY <1>2, <2>2, HeadTailProperties
    <2>5. \A i \in 1 .. (MaxObjects - m) - 1 : Tail(Rest(m))[i] = (m + 1) + i
      BY <1>1, <1>2, <2>4
    <2>6. /\ Rest(m + 1) \in Seq(1 .. MaxObjects)
          /\ Len(Rest(m + 1)) = (MaxObjects - m) - 1
          /\ \A i \in 1 .. (MaxObjects - m) - 1 : Rest(m + 1)[i] = (m + 1) + i
      BY <2>1, RestIsSeq
    <2>7. Tail(Rest(m)) = Rest(m + 1)
      BY <2>4, <2>5, <2>6, SeqEqual
    <2> QED
      BY <2>1, <2>3, <2>7
  <1> QED
    BY <1>2, <1>3, <1>4

(* The first m objects.                                                      *)
LEMMA FirstFacts ==
  /\ First(0) = <<>>
  /\ \A m \in Nat : First(m) \in Seq(Nat) /\ Len(First(m)) = m
                    /\ \A i \in 1 .. m : First(m)[i] = i
  /\ \A m \in Nat : Append(First(m), m + 1) = First(m + 1)
  /\ First(MaxObjects) = AllObjects /\ Rest(0) = AllObjects
  <1>1. \A m \in Nat : First(m) \in Seq(Nat) /\ Len(First(m)) = m
                       /\ \A i \in 1 .. m : First(m)[i] = i
    BY DEF First
  <1>2. First(0) = <<>>
    BY <1>1, EmptySeq
  <1>3. ASSUME NEW m \in Nat PROVE Append(First(m), m + 1) = First(m + 1)
    <2> DEFINE s == Append(First(m), m + 1)
    <2>1. /\ s \in Seq(Nat) /\ Len(s) = m + 1 /\ s[m + 1] = m + 1
          /\ \A i \in 1 .. m : s[i] = i
      BY <1>1, AppendProperties
    <2>2. First(m + 1) \in Seq(Nat) /\ Len(First(m + 1)) = m + 1
          /\ \A i \in 1 .. m + 1 : First(m + 1)[i] = i
      BY <1>1
    <2> HIDE DEF s
    <2>3. \A i \in 1 .. m + 1 : s[i] = First(m + 1)[i]
      BY <2>1, <2>2
    <2>4. s = First(m + 1)
      BY <2>1, <2>2, <2>3, SeqEqual
    <2> QED
      BY <2>4 DEF s
  <1>4. First(MaxObjects) = AllObjects
    BY DEF First, AllObjects
  <1>5. Rest(0) = AllObjects
    <2>1. MaxObjects - 0 = MaxObjects /\ \A i \in 1 .. MaxObjects : 0 + i = i
      BY ObjectsAssumption
    <2> QED
      BY <2>1 DEF Rest, AllObjects
  <1> QED
    BY <1>1, <1>2, <1>3, <1>4, <1>5

(* The first n objects are a prefix of all.                                  *)
LEMMA FirstIsPrefix ==
  ASSUME NEW n \in 0 .. MaxObjects
  PROVE  First(n) = SubSeq(AllObjects, 1, n)
  <1> DEFINE s == SubSeq(AllObjects, 1, n)
  <1>1. AllObjects \in Seq(1 .. MaxObjects) /\ Len(AllObjects) = MaxObjects /\ n \in Nat
        /\ MaxObjects \in Nat /\ \A i \in 1 .. MaxObjects : AllObjects[i] = i
    BY ObjectsAssumption DEF AllObjects
  <1>2. 1 \in 1 .. Len(AllObjects) + 1 /\ n \in 0 .. Len(AllObjects)
    BY <1>1
  <1>3. /\ s \in Seq(1 .. MaxObjects)
        /\ Len(s) = IF 1 <= n THEN n - 1 + 1 ELSE 0
        /\ \A i \in 1 .. n - 1 + 1 : s[i] = AllObjects[1 + i - 1]
    BY <1>1, <1>2, SubSeqProperties
  <1> HIDE DEF s
  <1>4. Len(s) = n /\ \A i \in 1 .. n : s[i] = i
    BY <1>1, <1>3
  <1>5. First(n) \in Seq(Nat) /\ Len(First(n)) = n /\ \A i \in 1 .. n : First(n)[i] = i
    BY <1>1, FirstFacts
  <1>6. First(n) = s
    BY <1>3, <1>4, <1>5, SeqEqual
  <1> QED
    BY <1>6 DEF s

(* Nothing has been taken or sent at first.                                  *)
LEMMA InitTransfer == TransferInit => TransferInv
  <1> SUFFICES ASSUME TransferInit PROVE TransferInv
    OBVIOUS
  <1> DEFINE t == [h \in Arrays |-> 0]
  <1>1. 0 \in 0 .. MaxObjects
    BY ObjectsAssumption
  <1>2. AllObjects \in Seq(1 .. MaxObjects) /\ Rest(0) = AllObjects
    BY <1>1, RestFacts, FirstFacts
  <1>3. TransferTypeOK
    <2>1. <<>> \in Seq(1 .. MaxObjects)
      BY EmptySeq
    <2> QED
      BY <1>1, <1>2, <2>1 DEF TransferInit, TransferTypeOK, States, NoObject
  <1>4. t \in [Arrays -> 0 .. MaxObjects]
    BY <1>1
  <1>5. \A h \in Arrays : array[h] = Rest(t[h])
    BY <1>2 DEF TransferInit, Arrays
  <1>6. ASSUME NEW r \in Transfers PROVE RequestInv(r, t)
    <2>1. received[r] = <<>> /\ state[r] = "none" /\ t[r] = 0
      BY DEF TransferInit, Arrays
    <2>2. Increasing(<<>>)
      BY EmptySeq DEF Increasing
    <2> QED
      BY <2>1, <2>2 DEF RequestInv, Between
  <1>7. \A o \in 1 .. t["application"] : FALSE
    <2>1. t["application"] = 0
      BY DEF Arrays
    <2> QED
      BY <2>1
  <1> QED
    BY <1>3, <1>4, <1>5, <1>6, <1>7 DEF TransferInv, TakenInv, TransferInit

(* A step of one request leaves the others as they were.                     *)
LEMMA OthersStay ==
  ASSUME NEW t \in [Arrays -> 0 .. MaxObjects], NEW u \in [Arrays -> 0 .. MaxObjects],
         NEW q \in Transfers, RequestInv(q, t), TransferTypeOK, shared' = shared,
         state'[q] = state[q], received'[q] = received[q], nextObject'[q] = nextObject[q],
         t[Held(q)] <= u[Held(q)], ~shared => t[q] = u[q]
  PROVE  RequestInv(q, u)' /\ Settled(q)' = Settled(q)
  <1>1. Held(q) \in Arrays /\ Held(q)' = Held(q)
    BY DEF Held, Arrays
  <1>2. \A i \in 1 .. Len(received[q]) : received[q][i] \in Int
    <2>1. received[q] \in Seq(1 .. MaxObjects)
      BY DEF TransferTypeOK
    <2> QED
      BY <2>1, ObjectsAssumption
  <1>3. t[Held(q)] \in Int /\ u[Held(q)] \in Int
    BY <1>1
  <1>4. state[q] \in Between =>
          \A i \in 1 .. Len(received[q]) : received[q][i] <= u[Held(q)]
    BY <1>2, <1>3 DEF RequestInv
  <1>5. state[q] = "object" => nextObject[q] \in 1 .. u[Held(q)]
    BY <1>3 DEF RequestInv
  <1>6. RequestInv(q, u)'
    BY <1>1, <1>4, <1>5 DEF RequestInv, Increasing
  <1> QED
    BY <1>6 DEF Settled, Loss, Objects

(* What a step of the transfer r has to keep.                                *)
LEMMA OneStep ==
  ASSUME NEW t \in [Arrays -> 0 .. MaxObjects], NEW r \in Transfers, TransferTypeOK,
         shared \in BOOLEAN, TakenInv(t), TransferTypeOK', UNCHANGED <<shared, array>>,
         \A q \in Transfers \ {r} : /\ state'[q] = state[q] /\ received'[q] = received[q]
                                    /\ nextObject'[q] = nextObject[q],
         RequestInv(r, t)', Settled(r) \subseteq Settled(r)'
  PROVE  TransferInv'
  <1>1. ASSUME NEW q \in Transfers \ {r} PROVE RequestInv(q, t)' /\ Settled(q)' = Settled(q)
    <2>1. Held(q) \in Arrays /\ t[Held(q)] \in Int /\ t[Held(q)] <= t[Held(q)]
      BY DEF Held, Arrays
    <2> QED
      BY <2>1, OthersStay DEF TakenInv
  <1>2. ASSUME shared', NEW o \in 1 .. t["application"]
        PROVE  \E q \in Transfers : o \in Settled(q)'
    <2>1. PICK q \in Transfers : o \in Settled(q)
      BY <1>2 DEF TakenInv
    <2>2. o \in Settled(q)'
      BY <1>1, <2>1
    <2> QED
      BY <2>2
  <1>3. TakenInv(t)'
    BY <1>1, <1>2 DEF TakenInv
  <1> QED
    BY <1>3 DEF TransferInv

(* A step that takes nothing out of an array and brings nothing.             *)
LEMMA StateStep ==
  ASSUME NEW t \in [Arrays -> 0 .. MaxObjects], NEW r \in Transfers, TransferTypeOK,
         shared \in BOOLEAN, TakenInv(t), NEW s \in States,
         state' = [state EXCEPT ![r] = s],
         UNCHANGED <<shared, array, nextObject, received, lost, disposed>>,
         \/ state[r] \in Fresh /\ s \in Unsent \union {"timer", "failed"}
         \/ state[r] \in Fresh \union {"timer"} /\ s = "done" /\ array[Held(r)] = <<>>
         \/ state[r] = "objectGotThrough" /\ s = "timer"
         \/ state[r] = "listGotThrough" /\ s = "done"
         \/ state[r] \in Waiting /\ s = "failed"
  PROVE  TransferInv'
  <1>1. TransferTypeOK'
    BY DEF TransferTypeOK
  <1>2. /\ state[r] \in States /\ state'[r] = s /\ received'[r] = received[r]
        /\ nextObject'[r] = nextObject[r] /\ Held(r)' = Held(r)
        /\ \A q \in Transfers \ {r} : state'[q] = state[q]
    BY DEF TransferTypeOK, Held
  <1>3. /\ Increasing(received[r])
        /\ state[r] \in Unsent => received[r] = <<>>
        /\ state[r] \in Between =>
             \A i \in 1 .. Len(received[r]) : received[r][i] <= t[Held(r)]
        /\ ~shared =>
             /\ state[r] \in Unsent => t[r] = 0
             /\ state[r] \in Between => received[r] = First(t[r])
             /\ state[r] = "object" => nextObject[r] = t[r] /\ received[r] = First(t[r] - 1)
             /\ state[r] \in {"listGotThrough", "done"} => received[r] = AllObjects
    BY DEF TakenInv, RequestInv
  <1>4. /\ r \in Arrays /\ t[r] \in 0 .. MaxObjects
        /\ 0 \in 0 .. MaxObjects /\ MaxObjects \in 0 .. MaxObjects
        /\ First(0) = <<>> /\ First(MaxObjects) = AllObjects
        /\ Len(<<>>) = 0 /\ 1 .. 0 = {}
    BY ObjectsAssumption, FirstFacts, EmptySeq DEF Arrays
  <1>5. ASSUME ~shared, s = "done" PROVE received[r] = AllObjects
    <2>1. CASE state[r] = "listGotThrough"
      BY <1>3, <1>5, <2>1
    <2>2. CASE state[r] \in Fresh \union {"timer"} /\ array[Held(r)] = <<>>
      <3>1. Rest(t[r]) = <<>>
        BY <1>4, <1>5, <2>2 DEF Held, TakenInv
      <3>2. t[r] = MaxObjects
        BY <1>4, <3>1, RestFacts
      <3>3. received[r] = First(t[r])
        BY <1>3, <1>4, <1>5, <2>2 DEF Unsent, Between
      <3> QED
        BY <1>4, <3>2, <3>3
    <2> QED
      BY <1>5, <2>1, <2>2 DEF Unsent, Fresh
  <1>6. ASSUME ~shared, s = "failed" PROVE \E n \in 0 .. MaxObjects : received[r] = First(n)
    <2>1. CASE state[r] \in Unsent
      BY <1>3, <1>4, <2>1
    <2>2. CASE state[r] \in Between
      BY <1>3, <1>4, <1>6, <2>2
    <2>3. CASE state[r] = "listGotThrough"
      BY <1>3, <1>4, <1>6, <2>3
    <2>4. CASE state[r] = "object"
      <3>1. nextObject[r] \in 1 .. t[r] /\ received[r] = First(t[r] - 1)
        BY <1>6, <2>4 DEF TakenInv, RequestInv, Held
      <3>2. t[r] - 1 \in 0 .. MaxObjects
        BY <1>4, <3>1, ObjectsAssumption
      <3> QED
        BY <3>1, <3>2
    <2> QED
      BY <1>6, <2>1, <2>2, <2>3, <2>4 DEF Unsent, Fresh, Between, Waiting
  <1>7. RequestInv(r, t)'
    <2>1. Increasing(received[r])'
      BY <1>3 DEF Increasing
    <2>2. s \in Unsent => received[r] = <<>> /\ (~shared => t[r] = 0)
      BY <1>3 DEF Unsent, Fresh
    <2>3. s \in Between =>
            \A i \in 1 .. Len(received[r]) : received[r][i] <= t[Held(r)]
      BY <1>3, <1>4 DEF Unsent, Fresh, Between
    <2>4. s \in Between /\ ~shared => received[r] = First(t[r])
      BY <1>3, <1>4 DEF Unsent, Fresh, Between
    <2>5. s \notin {"object", "listGotThrough"}
      BY DEF Unsent, Fresh
    <2> QED
      BY <1>2, <1>5, <1>6, <2>1, <2>2, <2>3, <2>4, <2>5 DEF RequestInv
  <1>8. Settled(r) \subseteq Settled(r)'
    <2>1. state[r] = "failed" => FALSE
      BY DEF Fresh, Waiting
    <2>2. state[r] = "object" => s = "failed"
      BY DEF Fresh
    <2> QED
      BY <1>2, <2>1, <2>2 DEF Settled, Loss, Objects
  <1> QED
    BY <1>1, <1>2, <1>7, <1>8, OneStep

-----------------------------------------------------------------------------
(* A list gets through: the array as it is, which stays where it is.         *)
LEMMA ListArrives ==
  ASSUME NEW t \in [Arrays -> 0 .. MaxObjects], NEW r \in Transfers, TransferTypeOK,
         shared \in BOOLEAN, TakenInv(t), state[r] = "list",
         state' = [state EXCEPT ![r] = "listGotThrough"],
         received' = [received EXCEPT ![r] = array[Held(r)]],
         UNCHANGED <<shared, array, nextObject, lost, disposed>>
  PROVE  TransferInv'
  <1>1. Held(r) \in Arrays /\ t[Held(r)] \in 0 .. MaxObjects /\ array[Held(r)] = Rest(t[Held(r)])
    BY DEF Held, Arrays, TakenInv
  <1>2. TransferTypeOK'
    <2>1. array[Held(r)] \in Seq(1 .. MaxObjects)
      BY <1>1, RestIsSeq
    <2> QED
      BY <2>1 DEF TransferTypeOK, States, Waiting
  <1>3. /\ state'[r] = "listGotThrough" /\ received'[r] = Rest(t[Held(r)])
        /\ \A q \in Transfers \ {r} : state'[q] = state[q] /\ received'[q] = received[q]
    BY <1>1 DEF TransferTypeOK
  <1>4. Increasing(Rest(t[Held(r)]))
    <2> DEFINE m == t[Held(r)]
    <2>1. Len(Rest(m)) = MaxObjects - m /\ \A i \in 1 .. MaxObjects - m : Rest(m)[i] = m + i
      BY <1>1, RestIsSeq
    <2>2. m \in Nat /\ MaxObjects \in Nat
      BY <1>1, ObjectsAssumption
    <2> HIDE DEF m
    <2> QED
      BY <2>1, <2>2 DEF Increasing, m
  <1>5. received[r] = <<>> /\ (~shared => Rest(t[Held(r)]) = AllObjects)
    BY FirstFacts DEF TakenInv, RequestInv, Held, Unsent
  <1>6. RequestInv(r, t)'
    BY <1>3, <1>4, <1>5 DEF RequestInv, Unsent, Fresh, Between, Increasing
  <1>7. Settled(r) \subseteq Settled(r)'
    BY <1>5, EmptySeq DEF Settled, Loss, Objects
  <1> QED
    BY <1>2, <1>3, <1>6, <1>7, OneStep

(* Appending to what has been received.                                      *)
LEMMA AppendFacts ==
  ASSUME NEW s \in Seq(1 .. MaxObjects), NEW n \in 1 .. MaxObjects, Increasing(s),
         \A i \in 1 .. Len(s) : s[i] < n
  PROVE  /\ Append(s, n) \in Seq(1 .. MaxObjects) /\ Increasing(Append(s, n))
         /\ \A i \in 1 .. Len(Append(s, n)) : Append(s, n)[i] <= n
         /\ Objects(Append(s, n)) = Objects(s) \union {n}
  <1> DEFINE a == Append(s, n)
  <1>1. /\ a \in Seq(1 .. MaxObjects) /\ Len(a) = Len(s) + 1 /\ a[Len(s) + 1] = n
        /\ \A i \in 1 .. Len(s) : a[i] = s[i]
        /\ Len(s) \in Nat /\ n \in Nat /\ \A i \in 1 .. Len(s) : s[i] \in Nat
    BY AppendProperties, ObjectsAssumption
  <1> HIDE DEF a
  <1>2. ASSUME NEW i \in 1 .. Len(s) + 1, NEW j \in 1 .. Len(s) + 1, i < j
        PROVE  a[i] < a[j]
    <2>1. i \in 1 .. Len(s) /\ a[i] = s[i]
      BY <1>1, <1>2
    <2>2. CASE j = Len(s) + 1
      BY <1>1, <2>1, <2>2
    <2>3. CASE j # Len(s) + 1
      <3>1. j \in 1 .. Len(s) /\ a[j] = s[j]
        BY <1>1, <2>3
      <3> QED
        BY <1>2, <2>1, <3>1 DEF Increasing
    <2> QED
      BY <2>2, <2>3
  <1>3. Increasing(a)
    BY <1>1, <1>2 DEF Increasing
  <1>4. \A i \in 1 .. Len(a) : a[i] <= n
    <2> TAKE i \in 1 .. Len(a)
    <2>1. CASE i = Len(s) + 1
      BY <1>1, <2>1
    <2>2. CASE i # Len(s) + 1
      <3>1. i \in 1 .. Len(s)
        BY <1>1, <2>2
      <3> QED
        BY <1>1, <3>1
    <2> QED
      BY <2>1, <2>2
  <1>5. Objects(a) = Objects(s) \union {n}
    <2>1. DOMAIN a = 1 .. Len(s) + 1 /\ DOMAIN s = 1 .. Len(s)
      BY <1>1
    <2>2. \A i \in 1 .. Len(s) + 1 : i = Len(s) + 1 \/ i \in 1 .. Len(s)
      BY <1>1
    <2>3. Len(s) + 1 \in 1 .. Len(s) + 1 /\ \A i \in 1 .. Len(s) : i \in 1 .. Len(s) + 1
      BY <1>1
    <2> QED
      BY <1>1, <2>1, <2>2, <2>3 DEF Objects
  <1> QED
    BY <1>1, <1>3, <1>4, <1>5 DEF a

(* An object gets through.                                                   *)
LEMMA ObjectArrives ==
  ASSUME NEW t \in [Arrays -> 0 .. MaxObjects], NEW r \in Transfers, TransferTypeOK,
         shared \in BOOLEAN, TakenInv(t), state[r] = "object",
         state' = [state EXCEPT ![r] = "objectGotThrough"],
         received' = [received EXCEPT ![r] = Append(@, nextObject[r])],
         UNCHANGED <<shared, array, nextObject, lost, disposed>>
  PROVE  TransferInv'
  <1> PICK s : s = received[r]
    OBVIOUS
  <1> PICK n : n = nextObject[r]
    OBVIOUS
  <1>1. /\ s \in Seq(1 .. MaxObjects) /\ Increasing(s) /\ \A i \in 1 .. Len(s) : s[i] < n
        /\ n \in 1 .. t[Held(r)] /\ Held(r) \in Arrays /\ t[Held(r)] \in 0 .. MaxObjects
        /\ ~shared => Held(r) = r /\ n = t[r] /\ s = First(t[r] - 1)
    BY DEF TransferTypeOK, TakenInv, RequestInv, Held, Arrays
  <1>2. n \in 1 .. MaxObjects
    BY <1>1, ObjectsAssumption
  <1> PICK a : a = Append(s, n)
    OBVIOUS
  <1>3. /\ a \in Seq(1 .. MaxObjects) /\ Increasing(a)
        /\ \A i \in 1 .. Len(a) : a[i] <= n
        /\ Objects(a) = Objects(s) \union {n}
    BY <1>1, <1>2, AppendFacts
  <1>4. \A i \in 1 .. Len(a) : a[i] <= t[Held(r)]
    <2> TAKE i \in 1 .. Len(a)
    <2>1. a[i] <= n /\ a[i] \in 1 .. MaxObjects
      BY <1>3, ElementOfSeq
    <2> QED
      BY <1>1, <1>2, <2>1, ObjectsAssumption
  <1>5. ~shared => a = First(t[r])
    <2> SUFFICES ASSUME ~shared PROVE a = First(t[r])
      OBVIOUS
    <2>1. t[r] - 1 \in Nat /\ (t[r] - 1) + 1 = t[r] /\ s = First(t[r] - 1) /\ n = t[r]
      BY <1>1
    <2>2. Append(First(t[r] - 1), (t[r] - 1) + 1) = First((t[r] - 1) + 1)
      BY <2>1, FirstFacts
    <2> QED
      BY <2>1, <2>2
  <1>6. /\ state'[r] = "objectGotThrough" /\ received'[r] = a /\ Held(r)' = Held(r)
        /\ \A q \in Transfers \ {r} : state'[q] = state[q] /\ received'[q] = received[q]
    BY DEF TransferTypeOK, Held
  <1>7. TransferTypeOK'
    <2>1. received' \in [Transfers -> Seq(1 .. MaxObjects)]
      <3>1. received \in [Transfers -> Seq(1 .. MaxObjects)]
            /\ received' = [received EXCEPT ![r] = a]
        BY DEF TransferTypeOK
      <3> QED
        BY <1>3, <3>1
    <2> QED
      BY <2>1 DEF TransferTypeOK, States, Waiting
  <1>8. RequestInv(r, t)'
    BY <1>3, <1>4, <1>5, <1>6 DEF RequestInv, Unsent, Fresh, Between, Increasing
  <1>9. Settled(r) \subseteq Settled(r)'
    <2>1. Objects(received[r])' = Objects(s) \union {n}
      BY <1>3, <1>6 DEF Objects
    <2>2. Settled(r) = Objects(s) \union {n}
      BY DEF Settled, Loss
    <2> QED
      BY <2>1, <2>2 DEF Settled
  <1> QED
    BY <1>6, <1>7, <1>8, <1>9, OneStep

(* A timer takes the next object and asks to send it, which may be refused.  *)
LEMMA SendObject ==
  ASSUME NEW t \in [Arrays -> 0 .. MaxObjects], NEW r \in Transfers, TransferTypeOK,
         shared \in BOOLEAN, TakenInv(t), state[r] = "timer", array[Held(r)] # <<>>,
         array' = [array EXCEPT ![Held(r)] = Tail(array[Held(r)])],
         nextObject' = [nextObject EXCEPT ![r] = Head(array[Held(r)])],
         NEW s \in {"object", "failed"}, state' = [state EXCEPT ![r] = s],
         UNCHANGED <<shared, received, lost, disposed>>
  PROVE  TransferInv'
  <1> PICK m \in 0 .. MaxObjects : m = t[Held(r)]
    BY DEF Held, Arrays
  <1> PICK u : u = [t EXCEPT ![Held(r)] = m + 1]
    OBVIOUS
  <1>1. Held(r) \in Arrays /\ array[Held(r)] = Rest(m)
    BY DEF Held, Arrays, TakenInv
  <1>2. /\ m + 1 \in 0 .. MaxObjects /\ m \in Nat /\ m + 1 \in 1 .. MaxObjects
        /\ Head(array[Held(r)]) = m + 1 /\ Tail(array[Held(r)]) = Rest(m + 1)
    <2>1. Rest(m) # <<>>
      BY <1>1
    <2>2. m # MaxObjects
      BY <2>1, RestFacts
    <2>3. m < MaxObjects /\ m + 1 \in 1 .. MaxObjects /\ m \in Nat
      BY <2>2, ObjectsAssumption
    <2>4. Head(Rest(m)) = m + 1 /\ Tail(Rest(m)) = Rest(m + 1) /\ m + 1 \in 0 .. MaxObjects
      BY <2>3, RestFacts
    <2> QED
      BY <1>1, <2>3, <2>4
  <1>3. /\ u \in [Arrays -> 0 .. MaxObjects] /\ u[Held(r)] = m + 1
        /\ \A h \in Arrays \ {Held(r)} : u[h] = t[h]
    BY <1>1, <1>2
  <1>4. /\ received[r] \in Seq(1 .. MaxObjects) /\ Increasing(received[r])
        /\ \A i \in 1 .. Len(received[r]) : received[r][i] <= m
        /\ ~shared => received[r] = First(m) /\ Held(r) = r
    BY DEF TransferTypeOK, TakenInv, RequestInv, Between, Held
  <1>5. \A i \in 1 .. Len(received[r]) : received[r][i] < m + 1
    <2>1. \A i \in 1 .. Len(received[r]) : received[r][i] \in Nat
      BY <1>4, ObjectsAssumption
    <2> QED
      BY <1>2, <1>4, <2>1
  <1>6. /\ state'[r] = s /\ received'[r] = received[r] /\ nextObject'[r] = m + 1
        /\ Held(r)' = Held(r)
        /\ \A q \in Transfers \ {r} : state'[q] = state[q] /\ nextObject'[q] = nextObject[q]
    BY <1>2 DEF TransferTypeOK, Held
  <1>7. TransferTypeOK'
    <2>1. array' \in [Arrays -> Seq(1 .. MaxObjects)]
      <3>1. Rest(m + 1) \in Seq(1 .. MaxObjects)
        BY <1>2, RestIsSeq
      <3> QED
        BY <1>1, <1>2, <3>1 DEF TransferTypeOK, Arrays
    <2>2. nextObject' \in [Transfers -> 0 .. MaxObjects]
      BY <1>2 DEF TransferTypeOK
    <2> QED
      BY <2>1, <2>2 DEF TransferTypeOK, States, Waiting, Arrays
  <1>8. \A h \in Arrays : array'[h] = Rest(u[h])
    BY <1>1, <1>2, <1>3 DEF TransferTypeOK, TakenInv, Arrays
  <1>9. RequestInv(r, u)'
    <2>1. m + 1 \in 1 .. m + 1 /\ (m + 1) - 1 = m
      BY <1>2
    <2> QED
      BY <1>2, <1>3, <1>4, <1>5, <1>6, <2>1
         DEF RequestInv, Unsent, Fresh, Between, Increasing
  <1>10. ASSUME NEW q \in Transfers \ {r}
         PROVE  RequestInv(q, u)' /\ Settled(q)' = Settled(q)
    <2>1. Held(q) \in Arrays /\ t[Held(q)] \in Int
      BY DEF Held, Arrays
    <2>2. t[Held(q)] <= u[Held(q)]
      BY <1>2, <1>3, <2>1
    <2>3. ~shared => t[q] = u[q]
      BY <1>3 DEF Held, Arrays
    <2> QED
      BY <1>3, <1>6, <2>2, <2>3, OthersStay DEF TakenInv
  <1>11. Settled(r)' = Settled(r) \union {m + 1}
    BY <1>6 DEF Settled, Loss, Objects
  <1>12. ASSUME shared', NEW o \in 1 .. u["application"]
         PROVE  \E q \in Transfers : o \in Settled(q)'
    <2>1. Held(r) = "application" /\ u["application"] = m + 1 /\ t["application"] = m
      BY <1>3, <1>12 DEF Held
    <2>2. CASE o = m + 1
      BY <1>11, <2>2
    <2>3. CASE o # m + 1
      <3>1. o \in 1 .. t["application"]
        BY <1>2, <2>1, <2>3
      <3>2. PICK q \in Transfers : o \in Settled(q)
        BY <1>12, <3>1 DEF TakenInv
      <3>3. o \in Settled(q)'
        BY <1>10, <1>11, <3>2
      <3> QED
        BY <3>3
    <2> QED
      BY <2>2, <2>3
  <1>13. TakenInv(u)'
    BY <1>8, <1>9, <1>10, <1>12 DEF TakenInv
  <1> QED
    BY <1>3, <1>7, <1>13 DEF TransferInv

(* A disposal and a loss change nothing that the invariant speaks of.        *)
LEMMA NothingMoves ==
  ASSUME TransferInv, TransferTypeOK',
         UNCHANGED <<shared, state, array, nextObject, received>>
  PROVE  TransferInv'
  <1> PICK t \in [Arrays -> 0 .. MaxObjects] : TakenInv(t)
    BY DEF TransferInv
  <1>1. TakenInv(t)'
    BY DEF TakenInv, RequestInv, Increasing, Held, Settled, Loss, Objects
  <1> QED
    BY <1>1 DEF TransferInv

-----------------------------------------------------------------------------
LEMMA NextTransfer == TransferInv /\ [TransferNext]_transferVars => TransferInv'
  <1> SUFFICES ASSUME TransferInv, [TransferNext]_transferVars PROVE TransferInv'
    OBVIOUS
  <1> PICK t \in [Arrays -> 0 .. MaxObjects] : TakenInv(t)
    BY DEF TransferInv
  <1>1. TransferTypeOK /\ shared \in BOOLEAN
    BY DEF TransferInv
  <1>2. CASE Dispose \/ UNCHANGED transferVars
    BY <1>1, <1>2, NothingMoves DEF Dispose, transferVars, TransferTypeOK
  <1>3. ASSUME NEW r \in Transfers, Loses(r) PROVE TransferInv'
    BY <1>1, <1>3, NothingMoves DEF Loses, TransferTypeOK
  <1>4. ASSUME NEW r \in Transfers, AskForAll(r) PROVE TransferInv'
    <2>1. PICK s \in {"called", "calledForList"} : state' = [state EXCEPT ![r] = s]
      BY <1>4 DEF AskForAll
    <2>2. state[r] \in Fresh /\ s \in Unsent /\ s \in States
      BY <1>4 DEF AskForAll, Unsent, Fresh, States
    <2> QED
      BY <1>1, <1>4, <2>1, <2>2, StateStep DEF AskForAll
  <1>5. ASSUME NEW r \in Transfers, Begin(r) PROVE TransferInv'
    <2>1. PICK s \in States : /\ state' = [state EXCEPT ![r] = s]
                              /\ \/ s = "done" /\ array[Held(r)] = <<>>
                                 \/ s = "timer"
      BY <1>5 DEF Begin, States
    <2>2. state[r] \in Fresh
      BY <1>5 DEF Begin, Fresh
    <2> QED
      BY <1>1, <1>5, <2>1, <2>2, StateStep DEF Begin
  <1>6. ASSUME NEW r \in Transfers, BeginList(r) PROVE TransferInv'
    <2>1. PICK s \in {"list", "failed"} : state' = [state EXCEPT ![r] = s]
      BY <1>6 DEF BeginList, Execute
    <2>2. state[r] \in Fresh /\ s \in Unsent \union {"failed"} /\ s \in States
      BY <1>6 DEF BeginList, Unsent, Fresh, States, Waiting
    <2> QED
      BY <1>1, <1>6, <2>1, <2>2, StateStep DEF BeginList
  <1>7. ASSUME NEW r \in Transfers, SendNextObject(r) PROVE TransferInv'
    <2>1. CASE array[Held(r)] = <<>>
      <3>1. "done" \in States
        BY DEF States
      <3> QED
        BY <1>1, <1>7, <2>1, <3>1, StateStep DEF SendNextObject
    <2>2. CASE array[Held(r)] # <<>>
      <3>1. PICK s \in {"object", "failed"} : state' = [state EXCEPT ![r] = s]
        BY <1>7, <2>2 DEF SendNextObject, Execute
      <3> QED
        BY <1>1, <1>7, <2>2, <3>1, SendObject DEF SendNextObject
    <2> QED
      BY <2>1, <2>2
  <1>8. ASSUME NEW r \in Transfers, GetsThrough(r) PROVE TransferInv'
    BY <1>1, <1>8, ObjectArrives, ListArrives DEF GetsThrough
  <1>9. ASSUME NEW r \in Transfers, Reply(r) PROVE TransferInv'
    <2>1. PICK s \in States : /\ state' = [state EXCEPT ![r] = s]
                              /\ \/ state[r] = "objectGotThrough" /\ s = "timer"
                                 \/ state[r] = "listGotThrough" /\ s = "done"
      BY <1>9 DEF Reply, States
    <2> QED
      BY <1>1, <1>9, <2>1, StateStep DEF Reply
  <1>10. ASSUME NEW r \in Transfers, Fails(r) PROVE TransferInv'
    <2>1. "failed" \in States
      BY DEF States
    <2> QED
      BY <1>1, <1>10, <2>1, StateStep DEF Fails
  <1> QED
    BY <1>2, <1>3, <1>4, <1>5, <1>6, <1>7, <1>8, <1>9, <1>10 DEF TransferNext, Step, Settles

(* What the invariant says of the objects that were sent.                    *)
LEMMA TransferInvGives == TransferInv => EveryObjectIsSent
  <1> SUFFICES ASSUME TransferInv PROVE EveryObjectIsSent
    OBVIOUS
  <1> PICK t \in [Arrays -> 0 .. MaxObjects] : TakenInv(t)
    BY DEF TransferInv
  <1>1. TransferTypeOK /\ MaxObjects \in Nat
    BY ObjectsAssumption DEF TransferInv
  <1>2. ASSUME NEW r \in Transfers, NEW i \in 1 .. MaxObjects, NEW j \in 1 .. MaxObjects,
               i < j, j <= Len(received[r])
        PROVE  received[r][i] < received[r][j]
    <2>1. received[r] \in Seq(1 .. MaxObjects) /\ Increasing(received[r])
      BY <1>1 DEF TransferTypeOK, TakenInv, RequestInv
    <2>2. i \in 1 .. Len(received[r]) /\ j \in 1 .. Len(received[r])
      BY <1>1, <1>2, <2>1
    <2> QED
      BY <1>2, <2>1, <2>2 DEF Increasing
  <1>3. ASSUME ~shared, NEW r \in Transfers
        PROVE  Prefix(received[r]) /\ (state[r] = "done" => received[r] = AllObjects)
    <2>1. state[r] \in States /\ t[r] \in 0 .. MaxObjects /\ RequestInv(r, t) /\ Held(r) = r
      BY <1>1, <1>3 DEF TransferTypeOK, Arrays, TakenInv, Held
    <2>2. First(0) = <<>> /\ First(MaxObjects) = AllObjects
          /\ 0 \in 0 .. MaxObjects /\ MaxObjects \in 0 .. MaxObjects
      BY <1>1, FirstFacts
    <2>3. state[r] = "object" => t[r] - 1 \in 0 .. MaxObjects
      BY <1>1, <2>1 DEF RequestInv
    <2>4. \E n \in 0 .. MaxObjects : received[r] = First(n)
      BY <1>3, <2>1, <2>2, <2>3 DEF RequestInv, States, Waiting, Unsent, Fresh, Between
    <2>5. Prefix(received[r])
      BY <2>4, FirstIsPrefix DEF Prefix
    <2> QED
      BY <1>3, <2>1, <2>5 DEF RequestInv
  <1>4. ASSUME shared, NEW o \in 1 .. MaxObjects
        PROVE  \/ o \in Objects(array["application"])
               \/ \E r \in Transfers : o \in Objects(received[r]) \union Loss(r)
    <2> PICK m \in 0 .. MaxObjects : m = t["application"] /\ array["application"] = Rest(m)
      BY DEF Arrays, TakenInv
    <2>1. CASE o <= m
      <3>1. o \in 1 .. t["application"]
        BY <1>1, <2>1
      <3> QED
        BY <1>4, <3>1 DEF TakenInv, Settled
    <2>2. CASE ~(o <= m)
      <3>1. o - m \in 1 .. MaxObjects - m /\ m + (o - m) = o
        BY <1>1, <2>2
      <3>2. Rest(m)[o - m] = o /\ DOMAIN Rest(m) = 1 .. MaxObjects - m
        BY <3>1 DEF Rest
      <3>3. o \in Objects(Rest(m))
        BY <3>1, <3>2 DEF Objects
      <3> QED
        BY <3>3
    <2> QED
      BY <2>1, <2>2
  <1> QED
    BY <1>1, <1>2, <1>3, <1>4 DEF EveryObjectIsSent

(* For any requests and any number of objects, with sends that are refused,   *)
(* time out or are forgotten, and a disposal: a transfer brings no object     *)
(* twice or out of order; with an array of its own, one that is done has      *)
(* brought every object and any other the first of them; and of an array that *)
(* transfers share each loses at most the object it took out last.           *)
THEOREM ObjectsAreSent == TransferSpec => []EveryObjectIsSent
  <1> QED
    BY InitTransfer, NextTransfer, TransferInvGives, PTL DEF TransferSpec

-----------------------------------------------------------------------------
(* The tables of MosMessages: every operation against every row.             *)

(* The row is one for the message of the operation.                          *)
RowFor(row, op) ==
  /\ row.tag = op.message.tag /\ row.attribute = op.message.attribute
  /\ row.source # Absent => row.source = op.message.source

Swaps == {"ROSwapStories", "ROSwapItems"}

(* What the row does is what the operation is carried out as, and its reply   *)
(* is one the operation understands.                                         *)
Agree(op, row) ==
  RowFor(row, op) =>
    /\ row.callback = CarriedOutAs(op.name)
    /\ row.reply # Nack
    /\ row.reply = ROListAll <=> op.name = "RequestAllRunningOrders"
    /\ op.understood \in {row.reply, Unread} \/ op.name = "RequestAllMOSObjects"
    /\ row.reads = "two" => op.name \in Swaps

AllAgree(op, rows) == rows \in Seq(Range(rows)) /\ \A row \in Range(rows) : Agree(op, row)

LEMMA EachTableAgrees ==
  ASSUME NEW op \in Ops
  PROVE  /\ AllAgree(op, Profile0Rows)
         /\ AllAgree(op, Profile1Rows)
         /\ AllAgree(op, RunningOrderRows)
         /\ AllAgree(op, InsertRows)
         /\ AllAgree(op, ReplaceRows)
         /\ AllAgree(op, MoveRows)
         /\ AllAgree(op, DeleteRows)
         /\ AllAgree(op, SwapRows)
         /\ AllAgree(op, Profile3Rows)
         /\ AllAgree(op, Profile4Rows)
  <1> USE DEF Ops, OwnOps, Agree, RowFor, Swaps, CarriedOutAs, Misrouted,
        Meanings, Meant, Nack, Absent, Message, Plain, ElementAction,
        ReqObjAction, HeartBeat, ReqMachInfo, MosObj, ReqMosObj, ReqMosObjAll,
        ROCreate, ROReplace, RODelete, ROReq, ROMetadataReplace, ROElementStat,
        ROReadyToAir, ROInsertStories, ROInsertItems, ROReplaceStories,
        ROReplaceItems, ROMoveStories, ROMoveItems, RODeleteStories,
        RODeleteItems, ROSwapStories, ROSwapItems, MosItemReplace,
        MosObjCreate, MosReqObjActionNew, MosReqObjActionUpdate,
        MosReqObjActionDelete, MosReqObjList, MosReqSearchableSchema, ROReqAll,
        ROStory, ListMachineInfo, MOSAck, MosListAll, ROAck, ROList, ROListAll,
        MosObjList, MosListSearchableSchema, Unread, Op, Profile0Ops,
        Profile1Ops, RunningOrderOps, ElementActionOps, Profile3Ops,
        Profile4Ops, ForeignOps, Row, Case, ActionCase, NoCallback
  <1>1. AllAgree(op, Profile0Rows)
    <2>1. Profile0Rows \in Seq(Range(Profile0Rows))
      BY DEF Profile0Rows, Range
    <2>2. \A i \in DOMAIN Profile0Rows : Agree(op, Profile0Rows[i])
      BY DEF Profile0Rows
    <2> QED
      BY <2>1, <2>2 DEF AllAgree, Range
  <1>2. AllAgree(op, Profile1Rows)
    <2>1. Profile1Rows \in Seq(Range(Profile1Rows))
      BY DEF Profile1Rows, Range
    <2>2. \A i \in DOMAIN Profile1Rows : Agree(op, Profile1Rows[i])
      BY DEF Profile1Rows
    <2> QED
      BY <2>1, <2>2 DEF AllAgree, Range
  <1>3. AllAgree(op, RunningOrderRows)
    <2>1. RunningOrderRows \in Seq(Range(RunningOrderRows))
      BY DEF RunningOrderRows, Range
    <2>2. \A i \in DOMAIN RunningOrderRows : Agree(op, RunningOrderRows[i])
      BY DEF RunningOrderRows
    <2> QED
      BY <2>1, <2>2 DEF AllAgree, Range
  <1>4. AllAgree(op, InsertRows)
    <2>1. InsertRows \in Seq(Range(InsertRows))
      BY DEF InsertRows, Range
    <2>2. \A i \in DOMAIN InsertRows : Agree(op, InsertRows[i])
      BY DEF InsertRows
    <2> QED
      BY <2>1, <2>2 DEF AllAgree, Range
  <1>5. AllAgree(op, ReplaceRows)
    <2>1. ReplaceRows \in Seq(Range(ReplaceRows))
      BY DEF ReplaceRows, Range
    <2>2. \A i \in DOMAIN ReplaceRows : Agree(op, ReplaceRows[i])
      BY DEF ReplaceRows
    <2> QED
      BY <2>1, <2>2 DEF AllAgree, Range
  <1>6. AllAgree(op, MoveRows)
    <2>1. MoveRows \in Seq(Range(MoveRows))
      BY DEF MoveRows, Range
    <2>2. \A i \in DOMAIN MoveRows : Agree(op, MoveRows[i])
      BY DEF MoveRows
    <2> QED
      BY <2>1, <2>2 DEF AllAgree, Range
  <1>7. AllAgree(op, DeleteRows)
    <2>1. DeleteRows \in Seq(Range(DeleteRows))
      BY DEF DeleteRows, Range
    <2>2. \A i \in DOMAIN DeleteRows : Agree(op, DeleteRows[i])
      BY DEF DeleteRows
    <2> QED
      BY <2>1, <2>2 DEF AllAgree, Range
  <1>8. AllAgree(op, SwapRows)
    <2>1. SwapRows \in Seq(Range(SwapRows))
      BY DEF SwapRows, Range
    <2>2. \A i \in DOMAIN SwapRows : Agree(op, SwapRows[i])
      BY DEF SwapRows
    <2> QED
      BY <2>1, <2>2 DEF AllAgree, Range
  <1>9. AllAgree(op, Profile3Rows)
    <2>1. Profile3Rows \in Seq(Range(Profile3Rows))
      BY DEF Profile3Rows, Range
    <2>2. \A i \in DOMAIN Profile3Rows : Agree(op, Profile3Rows[i])
      BY DEF Profile3Rows
    <2> QED
      BY <2>1, <2>2 DEF AllAgree, Range
  <1>10. AllAgree(op, Profile4Rows)
    <2>1. Profile4Rows \in Seq(Range(Profile4Rows))
      BY DEF Profile4Rows, Range
    <2>2. \A i \in DOMAIN Profile4Rows : Agree(op, Profile4Rows[i])
      BY DEF Profile4Rows
    <2> QED
      BY <2>1, <2>2 DEF AllAgree, Range
  <1> QED
    BY <1>1, <1>2, <1>3, <1>4, <1>5, <1>6, <1>7, <1>8, <1>9, <1>10

(* The same of two lists of rows, one after the other.                       *)
LEMMA JoinedAgree ==
  ASSUME NEW op, NEW s, NEW t, AllAgree(op, s), AllAgree(op, t)
  PROVE  AllAgree(op, s \o t) /\ Range(s) \union Range(t) = Range(s \o t)
  <1> DEFINE S == Range(s) \union Range(t)
  <1>1. s \in Seq(S) /\ t \in Seq(S)
    BY SeqMonotonic DEF AllAgree
  <1>2. Range(s \o t) = S /\ s \o t \in Seq(S)
    BY <1>1, RangeConcatenation, ConcatProperties
  <1> QED
    BY <1>2 DEF AllAgree

LEMMA TablesAgree ==
  ASSUME NEW op \in Ops
  PROVE  /\ AllAgree(op, Rows)
         /\ Range(Profile0Rows) \subseteq Range(Rows)
         /\ Range(Profile1Rows) \subseteq Range(Rows)
         /\ Range(RunningOrderRows) \subseteq Range(Rows)
         /\ Range(InsertRows) \subseteq Range(Rows)
         /\ Range(ReplaceRows) \subseteq Range(Rows)
         /\ Range(MoveRows) \subseteq Range(Rows)
         /\ Range(DeleteRows) \subseteq Range(Rows)
         /\ Range(SwapRows) \subseteq Range(Rows)
         /\ Range(Profile3Rows) \subseteq Range(Rows)
         /\ Range(Profile4Rows) \subseteq Range(Rows)
  <1> DEFINE s1 == Profile0Rows
             s2 == s1 \o Profile1Rows
             s3 == s2 \o RunningOrderRows
             s4 == s3 \o InsertRows
             s5 == s4 \o ReplaceRows
             s6 == s5 \o MoveRows
             s7 == s6 \o DeleteRows
             s8 == s7 \o SwapRows
             s9 == s8 \o Profile3Rows
             s10 == s9 \o Profile4Rows
  <1>1. AllAgree(op, s1)
    BY EachTableAgrees
  <1>2. AllAgree(op, s2) /\ Range(s1) \union Range(Profile1Rows) = Range(s2)
    <2> HIDE DEF s1
    <2>1. AllAgree(op, s1) /\ AllAgree(op, Profile1Rows)
      BY <1>1, EachTableAgrees
    <2> QED
      BY <2>1, JoinedAgree
  <1>3. AllAgree(op, s3) /\ Range(s2) \union Range(RunningOrderRows) = Range(s3)
    <2> HIDE DEF s2
    <2>1. AllAgree(op, s2) /\ AllAgree(op, RunningOrderRows)
      BY <1>2, EachTableAgrees
    <2> QED
      BY <2>1, JoinedAgree
  <1>4. AllAgree(op, s4) /\ Range(s3) \union Range(InsertRows) = Range(s4)
    <2> HIDE DEF s3
    <2>1. AllAgree(op, s3) /\ AllAgree(op, InsertRows)
      BY <1>3, EachTableAgrees
    <2> QED
      BY <2>1, JoinedAgree
  <1>5. AllAgree(op, s5) /\ Range(s4) \union Range(ReplaceRows) = Range(s5)
    <2> HIDE DEF s4
    <2>1. AllAgree(op, s4) /\ AllAgree(op, ReplaceRows)
      BY <1>4, EachTableAgrees
    <2> QED
      BY <2>1, JoinedAgree
  <1>6. AllAgree(op, s6) /\ Range(s5) \union Range(MoveRows) = Range(s6)
    <2> HIDE DEF s5
    <2>1. AllAgree(op, s5) /\ AllAgree(op, MoveRows)
      BY <1>5, EachTableAgrees
    <2> QED
      BY <2>1, JoinedAgree
  <1>7. AllAgree(op, s7) /\ Range(s6) \union Range(DeleteRows) = Range(s7)
    <2> HIDE DEF s6
    <2>1. AllAgree(op, s6) /\ AllAgree(op, DeleteRows)
      BY <1>6, EachTableAgrees
    <2> QED
      BY <2>1, JoinedAgree
  <1>8. AllAgree(op, s8) /\ Range(s7) \union Range(SwapRows) = Range(s8)
    <2> HIDE DEF s7
    <2>1. AllAgree(op, s7) /\ AllAgree(op, SwapRows)
      BY <1>7, EachTableAgrees
    <2> QED
      BY <2>1, JoinedAgree
  <1>9. AllAgree(op, s9) /\ Range(s8) \union Range(Profile3Rows) = Range(s9)
    <2> HIDE DEF s8
    <2>1. AllAgree(op, s8) /\ AllAgree(op, Profile3Rows)
      BY <1>8, EachTableAgrees
    <2> QED
      BY <2>1, JoinedAgree
  <1>10. AllAgree(op, s10) /\ Range(s9) \union Range(Profile4Rows) = Range(s10)
    <2> HIDE DEF s9
    <2>1. AllAgree(op, s9) /\ AllAgree(op, Profile4Rows)
      BY <1>9, EachTableAgrees
    <2> QED
      BY <2>1, JoinedAgree
  <1>11. s10 = Rows
    BY DEF Rows
  <1> HIDE DEF s10
  <1> QED
    BY <1>1, <1>2, <1>3, <1>4, <1>5, <1>6, <1>7, <1>8, <1>9, <1>10, <1>11

(* Every operation has a row, but for an object that comes unasked.          *)
LEMMA SomeRowFor ==
  ASSUME NEW op \in Ops, op.name # "MOSObject"
  PROVE  \E i \in DOMAIN Rows : RowFor(Rows[i], op)
  <1> USE DEF RowFor, Absent, Message, Plain, ElementAction, ReqObjAction,
        HeartBeat, ReqMachInfo, MosObj, ReqMosObj, ReqMosObjAll, ROCreate,
        ROReplace, RODelete, ROReq, ROMetadataReplace, ROElementStat,
        ROReadyToAir, ROInsertStories, ROInsertItems, ROReplaceStories,
        ROReplaceItems, ROMoveStories, ROMoveItems, RODeleteStories,
        RODeleteItems, ROSwapStories, ROSwapItems, MosItemReplace,
        MosObjCreate, MosReqObjActionNew, MosReqObjActionUpdate,
        MosReqObjActionDelete, MosReqObjList, MosReqSearchableSchema, ROReqAll,
        ROStory, ListMachineInfo, MOSAck, MosListAll, ROAck, ROList, ROListAll,
        MosObjList, MosListSearchableSchema, Unread, Op, Row, Case, ActionCase,
        NoCallback
  <1>1. CASE op \in Profile0Ops
    <2>1. \E i \in DOMAIN Profile0Rows : RowFor(Profile0Rows[i], op)
      BY <1>1 DEF Profile0Ops, Profile0Rows
    <2> QED
      BY <2>1, TablesAgree DEF Range
  <1>2. CASE op \in Profile1Ops
    <2>1. \/ \E i \in DOMAIN Profile1Rows : RowFor(Profile1Rows[i], op)
          \/ \E i \in DOMAIN Profile0Rows : RowFor(Profile0Rows[i], op)
      BY <1>2 DEF Profile1Ops, Profile1Rows, Profile0Rows
    <2> QED
      BY <2>1, TablesAgree DEF Range
  <1>3. CASE op \in RunningOrderOps
    <2>1. \E i \in DOMAIN RunningOrderRows : RowFor(RunningOrderRows[i], op)
      BY <1>3 DEF RunningOrderOps, RunningOrderRows
    <2> QED
      BY <2>1, TablesAgree DEF Range
  <1>4. CASE op \in ElementActionOps
    <2>1. \/ \E i \in DOMAIN InsertRows : RowFor(InsertRows[i], op)
          \/ \E i \in DOMAIN ReplaceRows : RowFor(ReplaceRows[i], op)
          \/ \E i \in DOMAIN MoveRows : RowFor(MoveRows[i], op)
          \/ \E i \in DOMAIN DeleteRows : RowFor(DeleteRows[i], op)
          \/ \E i \in DOMAIN SwapRows : RowFor(SwapRows[i], op)
      BY <1>4 DEF ElementActionOps, InsertRows, ReplaceRows, MoveRows, DeleteRows, SwapRows
    <2> QED
      BY <2>1, TablesAgree DEF Range
  <1>5. CASE op \in Profile3Ops
    <2>1. \E i \in DOMAIN Profile3Rows : RowFor(Profile3Rows[i], op)
      BY <1>5 DEF Profile3Ops, Profile3Rows
    <2> QED
      BY <2>1, TablesAgree DEF Range
  <1>6. CASE op \in Profile4Ops
    <2>1. \E i \in DOMAIN Profile4Rows : RowFor(Profile4Rows[i], op)
      BY <1>6 DEF Profile4Ops, Profile4Rows
    <2> QED
      BY <2>1, TablesAgree DEF Range
  <1>7. CASE op \in ForeignOps
    <2>1. \/ \E i \in DOMAIN Profile0Rows : RowFor(Profile0Rows[i], op)
          \/ \E i \in DOMAIN InsertRows : RowFor(InsertRows[i], op)
          \/ \E i \in DOMAIN ReplaceRows : RowFor(ReplaceRows[i], op)
          \/ \E i \in DOMAIN MoveRows : RowFor(MoveRows[i], op)
          \/ \E i \in DOMAIN DeleteRows : RowFor(DeleteRows[i], op)
      BY <1>7 DEF ForeignOps, Profile0Rows, InsertRows, ReplaceRows, MoveRows, DeleteRows
    <2> QED
      BY <2>1, TablesAgree DEF Range
  <1> QED
    BY <1>1, <1>2, <1>3, <1>4, <1>5, <1>6, <1>7 DEF Ops, OwnOps

(* A profile that requires the callback an operation is for requires the one  *)
(* that carries it out.                                                      *)
LEMMA RequiredTogether ==
  ASSUME NEW op \in Ops, NEW p \in 0 .. 4, Meant(op.name) \in RequiredCallbacks[p + 1]
  PROVE  CarriedOutAs(op.name) \in RequiredCallbacks[p + 1]
  BY DEF Meant, Meanings, CarriedOutAs, Misrouted, RequiredCallbacks, NoCallback

-----------------------------------------------------------------------------
(* What is known of an exchange, phase by phase.                             *)

Shape(e) ==
  e = [phase |-> e.phase, request |-> e.request, row |-> e.row, given |-> e.given,
       result |-> e.result, answer |-> e.answer, reply |-> e.reply, got |-> e.got]

Phases   == {"idle", "sent", "handling", "replied", "resolved", "rejected"}
Answered == {"replied", "resolved", "rejected"}

(* The message is at the row that is for it, and the elements have been read  *)
(* as they were sent, numbers rewritten, or are known not to be.             *)
Routed(e) == e.row \in DOMAIN Rows /\ RowFor(Rows[e.row], e.request.op)
Arrived(e) ==
  \/ e.given = Natives(e.request.elements)
  \/ Mangled(Rows[e.row], e.request.elements)

(* The reply tells what the callback did.                                    *)
ReplyInv(e) ==
  /\ e.answer \in Seq(STRING)
  /\ e.reply # Nack => Routed(e) /\ Arrived(e) /\ e.result # "error"
  /\ e.reply = ROListAll => Rows[e.row].reply = ROListAll
  /\ e.result = "value" => Routed(e) /\ e.reply = Rows[e.row].reply

ExchangeInv(e) ==
  /\ Shape(e) /\ e.phase \in Phases
  /\ e.phase # "idle" => e.request \in Requests
  /\ e.phase = "sent" => e.result = Absent /\ e.answer = <<>>
  /\ e.phase = "handling" => Routed(e) /\ Arrived(e)
  /\ e.phase \in Answered => ReplyInv(e)
  /\ e.phase = "resolved" => e.reply # Nack /\ e.got = ReadAnswer(e.reply, e.answer)
  /\ e.phase = "rejected" => ~(e.reply # Nack /\ Understands(e.request.op, e.reply))

DialogueInv == ExchangeInv(exchange)

LEMMA LeastNat ==
  ASSUME NEW T, T \subseteq Nat, T # {}
  PROVE  \E m \in T : \A k \in T : m <= k
  <1> DEFINE R == {ss \in Nat \X Nat : ss[1] < ss[2]}
  <1>1. IsWellFoundedOn(R, Nat)
    BY NatLessThanWellFounded DEF OpToRel
  <1>2. \A x, y \in Nat : x < y => <<x, y>> \in R
    OBVIOUS
  <1> HIDE DEF R
  <1>3. \E x \in T : \A y \in T : ~(<<y, x>> \in R)
    BY <1>1, WFMin
  <1>4. \A x, y \in Nat : ~(y < x) => x <= y
    OBVIOUS
  <1> QED
    BY <1>2, <1>3, <1>4

(* routeData takes the first row that takes the message, if there is one.    *)
LEMMA RouteFacts ==
  ASSUME NEW op \in Ops, NEW elements, NEW row, row = Route(op.message, elements)
  PROVE  /\ row = 0 => \A i \in DOMAIN Rows : ~Takes(Rows[i], op.message, elements)
         /\ row # 0 => /\ row \in DOMAIN Rows /\ RowFor(Rows[row], op)
                       /\ Takes(Rows[row], op.message, elements)
  <1> DEFINE takers == {i \in DOMAIN Rows : Takes(Rows[i], op.message, elements)}
  <1>1. takers \subseteq Nat \ {0}
    BY TablesAgree DEF AllAgree
  <1>2. row = IF takers = {} THEN 0 ELSE CHOOSE i \in takers : \A j \in takers : i <= j
    BY Zenon DEF Route
  <1>3. ASSUME takers # {} PROVE row \in takers
    <2>1. \E i \in takers : \A j \in takers : i <= j
      BY <1>1, <1>3, LeastNat
    <2> HIDE DEF takers
    <2> QED
      BY <1>2, <1>3, <2>1
  <1>4. row # 0 => row \in takers
    BY <1>2, <1>3
  <1>5. row = 0 => takers = {}
    BY <1>1, <1>3
  <1> QED
    BY <1>4, <1>5 DEF Takes, RowFor

LEMMA ReadFacts ==
  ASSUME NEW row, NEW elements
  PROVE  \/ row.reads \in {"ids", "two"} /\ Read(row, elements) = ReadIds(elements)
         \/ row.reads = "idList" /\ Read(row, elements) = ReadIdList(elements)
         \/ row.reads = "wrapped" /\ Read(row, elements) = ReadWrapped(row.source, elements)
         \/ row.reads = "itemReplace"
         \/ row.reads = "body" /\ Read(row, elements) = ReadBody(elements)
         \/ Read(row, elements) = Natives(elements)
  BY Zenon DEF Read

(* What can be read arrives as it was sent, or is named by Mangled.          *)
LEMMA ReadArrives ==
  ASSUME NEW row, NEW message, NEW elements \in Seq(STRING),
         ~Unreadable(row.reads, message, elements)
  PROVE  Read(row, elements) = Natives(elements) \/ Mangled(row, elements)
  <1>1. CASE row.reads \in {"ids", "two"} /\ Read(row, elements) = ReadIds(elements)
    <2>1. CASE \E i \in DOMAIN elements : Native(elements[i]) \in Falsy
      BY <1>1, <2>1 DEF Mangled
    <2>2. CASE \A i \in DOMAIN elements : Native(elements[i]) \notin Falsy
      <3>1. ReadIds(elements) = Natives(elements)
        BY <2>2 DEF ReadIds, Natives
      <3> QED
        BY <1>1, <3>1
    <2> QED
      BY <2>1, <2>2
  <1>2. CASE row.reads = "idList" /\ Read(row, elements) = ReadIdList(elements)
    BY <1>2 DEF ReadIdList, Mangled
  <1>3. CASE row.reads = "wrapped" /\ Read(row, elements) = ReadWrapped(row.source, elements)
    <2>1. Len(elements) \in Nat /\ (Len(elements) = 0 => elements = <<>>)
      BY EmptySeq, LenProperties
    <2> QED
      BY <1>3, <2>1 DEF ReadWrapped, Mangled, Unreadable
  <1>4. CASE row.reads = "body" /\ Read(row, elements) = ReadBody(elements)
    BY <1>4 DEF ReadBody, Mangled
  <1>5. CASE row.reads = "itemReplace"
    BY <1>5 DEF Mangled
  <1> QED
    BY <1>1, <1>2, <1>3, <1>4, <1>5, ReadFacts

LEMMA ReplyFacts ==
  ASSUME NEW row, NEW result
  PROVE  /\ ReplyOf(row, result) \in {row.reply, ROAck, Nack}
         /\ result = "value" => ReplyOf(row, result) = row.reply
         /\ result = "error" => ReplyOf(row, result) = Nack
  <1>1. ReplyOf(row, result) \in {row.reply, ROAck, Nack}
    BY Zenon DEF ReplyOf
  <1>2. result = "value" => ReplyOf(row, result) = row.reply
    BY Zenon DEF ReplyOf
  <1>3. result = "error" => ReplyOf(row, result) = Nack
    BY Zenon DEF ReplyOf
  <1> QED
    BY <1>1, <1>2, <1>3

-----------------------------------------------------------------------------
(* The steps.                                                                *)

LEMMA AskStep ==
  ASSUME DialogueInv, NEW r \in Requests, Ask(r)
  PROVE  DialogueInv'
  BY DEF DialogueInv, ExchangeInv, Shape, Ask, Quiet, Phases, Answered, Absent

LEMMA ReceiveStep ==
  ASSUME DialogueInv, Receive
  PROVE  DialogueInv'
  <1> DEFINE op == exchange.request.op
             elements == exchange.request.elements
             row == Route(op.message, elements)
  <1>1. exchange.phase = "sent" /\ op \in Ops /\ elements \in Seq(STRING)
    BY RequestsAssumption DEF DialogueInv, ExchangeInv, Receive
  <1>2. /\ exchange.request \in Requests /\ Shape(exchange)
        /\ exchange.result = Absent /\ exchange.answer = <<>>
    BY <1>1 DEF DialogueInv, ExchangeInv
  <1>3. <<>> \in Seq(STRING)
    OBVIOUS
  <1>4. row # 0 => row \in DOMAIN Rows /\ RowFor(Rows[row], op)
    <2>1. row = Route(op.message, elements)
      OBVIOUS
    <2> HIDE DEF row, op, elements
    <2> QED
      BY <1>1, <2>1, RouteFacts
  <1>5. \/ exchange' = [exchange EXCEPT !.phase = "replied", !.reply = Nack]
        \/ exchange' = [exchange EXCEPT !.phase = "replied", !.reply = Nack, !.row = row]
        \/ /\ row # 0 /\ Rows[row].callback = NoCallback
           /\ exchange' = [exchange EXCEPT !.phase = "replied", !.row = row,
                                           !.given = Natives(elements),
                                           !.result = "value", !.reply = Rows[row].reply]
        \/ /\ row # 0 /\ ~Unreadable(Rows[row].reads, op.message, elements)
           /\ exchange' = [exchange EXCEPT !.phase = "handling", !.row = row,
                                           !.given = Read(Rows[row], elements)]
    BY Zenon DEF Receive
  <1> HIDE DEF row
  <1>6. CASE exchange' = [exchange EXCEPT !.phase = "replied", !.reply = Nack]
    BY <1>2, <1>3, <1>6
       DEF DialogueInv, ExchangeInv, ReplyInv, Shape, Phases, Answered, Nack, ROListAll, Absent
  <1>7. CASE exchange' = [exchange EXCEPT !.phase = "replied", !.reply = Nack, !.row = row]
    BY <1>2, <1>3, <1>7
       DEF DialogueInv, ExchangeInv, ReplyInv, Shape, Phases, Answered, Nack, ROListAll, Absent
  <1>8. CASE /\ row # 0
             /\ exchange' = [exchange EXCEPT !.phase = "replied", !.row = row,
                                             !.given = Natives(elements),
                                             !.result = "value", !.reply = Rows[row].reply]
    BY <1>2, <1>3, <1>4, <1>8
       DEF DialogueInv, ExchangeInv, ReplyInv, Routed, Arrived, Shape, Phases, Answered
  <1>9. CASE /\ row # 0 /\ ~Unreadable(Rows[row].reads, op.message, elements)
             /\ exchange' = [exchange EXCEPT !.phase = "handling", !.row = row,
                                             !.given = Read(Rows[row], elements)]
    <2>1. Read(Rows[row], elements) = Natives(elements) \/ Mangled(Rows[row], elements)
      BY <1>1, <1>9, ReadArrives
    <2> QED
      BY <1>2, <1>4, <1>9, <2>1
         DEF DialogueInv, ExchangeInv, Routed, Arrived, Shape, Phases, Answered
  <1> QED
    BY <1>5, <1>6, <1>7, <1>8, <1>9

LEMMA ReturnStep ==
  ASSUME DialogueInv, Return
  PROVE  DialogueInv'
  <1> DEFINE row == Rows[exchange.row]
  <1>1. exchange.phase = "handling"
    BY DEF Return
  <1>2. /\ exchange.request \in Requests /\ Shape(exchange)
        /\ Routed(exchange) /\ Arrived(exchange)
    BY <1>1 DEF DialogueInv, ExchangeInv
  <1>3. PICK result \in Results(row), answer \in (IF Listing(row) THEN Lists ELSE {<<>>}) :
          exchange' = [exchange EXCEPT !.phase = "replied", !.result = result,
                                       !.answer = answer, !.reply = ReplyOf(row, result)]
    BY Zenon DEF Return
  <1>4. answer \in Seq(STRING)
    <2>1. answer \in Lists \/ answer = <<>>
      BY Zenon, <1>3
    <2>2. Lists \subseteq Seq(STRING) /\ <<>> \in Seq(STRING)
      BY ListsAssumption
    <2> QED
      BY Zenon, <2>1, <2>2
  <1>5. PICK reply : reply = ReplyOf(row, result)
    OBVIOUS
  <1>6. /\ reply \in {row.reply, ROAck, Nack}
        /\ result = "value" => reply = row.reply
        /\ result = "error" => reply = Nack
    BY <1>5, ReplyFacts
  <1>7. exchange' = [exchange EXCEPT !.phase = "replied", !.result = result,
                                     !.answer = answer, !.reply = reply]
    BY <1>3, <1>5
  <1>8. reply = ROListAll => row.reply = ROListAll
    BY <1>6 DEF ROListAll, ROAck, Nack
  <1> QED
    BY <1>2, <1>4, <1>6, <1>7, <1>8
       DEF DialogueInv, ExchangeInv, ReplyInv, Routed, Arrived, Shape, Phases, Answered

LEMMA SettleStep ==
  ASSUME DialogueInv, Settle
  PROVE  DialogueInv'
  <1>1. exchange.phase = "replied"
    BY DEF Settle
  <1>2. exchange.request \in Requests /\ Shape(exchange) /\ ReplyInv(exchange)
    BY <1>1 DEF DialogueInv, ExchangeInv, Answered
  <1>3. CASE /\ exchange.reply # Nack /\ Understands(exchange.request.op, exchange.reply)
             /\ exchange' = [exchange EXCEPT !.phase = "resolved",
                               !.got = ReadAnswer(exchange.reply, exchange.answer)]
    BY <1>2, <1>3 DEF DialogueInv, ExchangeInv, ReplyInv, Routed, Arrived, Shape, Phases, Answered
  <1>4. CASE /\ ~(exchange.reply # Nack /\ Understands(exchange.request.op, exchange.reply))
             /\ exchange' = [exchange EXCEPT !.phase = "rejected"]
    BY <1>2, <1>4 DEF DialogueInv, ExchangeInv, ReplyInv, Routed, Arrived, Shape, Phases, Answered
  <1> QED
    BY <1>3, <1>4 DEF Settle, EnsureReply

LEMMA QuietInv ==
  ASSUME exchange' = Quiet
  PROVE  DialogueInv'
  BY DEF DialogueInv, ExchangeInv, Shape, Quiet, Phases, Answered

LEMMA InitDialogue == Init => DialogueInv
  BY DEF Init, DialogueInv, ExchangeInv, Shape, Quiet, Phases, Answered

LEMMA NextDialogue == DialogueInv /\ [Next]_vars => DialogueInv'
  <1> SUFFICES ASSUME DialogueInv, [Next]_vars PROVE DialogueInv'
    OBVIOUS
  <1>1. ASSUME NEW c \in Callbacks, Register(c) PROVE DialogueInv'
    BY <1>1 DEF Register, DialogueInv
  <1>2. CASE UNCHANGED vars
    BY <1>2 DEF vars, DialogueInv
  <1>3. CASE Forget
    BY <1>3, QuietInv DEF Forget
  <1> QED
    BY <1>1, <1>2, <1>3, AskStep, ReceiveStep, ReturnStep, SettleStep DEF Next

LEMMA DialogueIsTracked == Spec => []DialogueInv
  BY InitDialogue, NextDialogue, PTL DEF Spec


-----------------------------------------------------------------------------
(* What the invariant gives.                                                 *)

LEMMA AgreesWith ==
  ASSUME NEW op \in Ops, NEW i \in DOMAIN Rows, RowFor(Rows[i], op)
  PROVE  /\ Rows[i].callback = CarriedOutAs(op.name)
         /\ Rows[i].reply # Nack
         /\ Rows[i].reply = ROListAll <=> op.name = "RequestAllRunningOrders"
         /\ op.understood \in {Rows[i].reply, Unread} \/ op.name = "RequestAllMOSObjects"
         /\ Rows[i].reads = "two" => op.name \in Swaps
  BY TablesAgree DEF AllAgree, Agree, Range

LEMMA ZeroIsNoRow == Ops # {} => 0 \notin DOMAIN Rows
  BY TablesAgree DEF AllAgree

LEMMA InvGivesResolved == DialogueInv => ResolvedMeansDone
  <1> SUFFICES ASSUME DialogueInv, exchange.phase = "resolved" PROVE ResolvedMeansDone
    BY DEF ResolvedMeansDone
  <1> DEFINE op == exchange.request.op
  <1>1. /\ op \in Ops /\ ReplyInv(exchange) /\ exchange.reply # Nack
        /\ exchange.got = ReadAnswer(exchange.reply, exchange.answer)
    BY RequestsAssumption DEF DialogueInv, ExchangeInv, Answered
  <1>2. Routed(exchange) /\ Arrived(exchange) /\ exchange.result # "error"
    BY <1>1 DEF ReplyInv
  <1>3. exchange.row \in DOMAIN Rows /\ exchange.row # 0 /\ RowFor(Rows[exchange.row], op)
    BY <1>1, <1>2, ZeroIsNoRow DEF Routed
  <1> HIDE DEF op
  <1>4. /\ Rows[exchange.row].callback = CarriedOutAs(op.name)
        /\ Rows[exchange.row].reply = ROListAll <=> op.name = "RequestAllRunningOrders"
    BY <1>1, <1>3, AgreesWith
  <1>5. exchange.reply = ROListAll => op.name = "RequestAllRunningOrders"
    BY <1>1, <1>4 DEF ReplyInv
  <1>6. IF op.name = "RequestAllRunningOrders" THEN Len(exchange.got) = Len(exchange.answer)
        ELSE exchange.got = Natives(exchange.answer)
    <2>1. CASE exchange.reply # ROListAll
      <3>1. exchange.got = Natives(exchange.answer) /\ exchange.answer \in Seq(STRING)
        BY <1>1, <2>1 DEF ReadAnswer, ReplyInv
      <3>2. Len(Natives(exchange.answer)) = Len(exchange.answer)
        BY <3>1 DEF Natives
      <3> QED
        BY <3>1, <3>2
    <2>2. CASE exchange.reply = ROListAll
      <3> DEFINE got == [i \in DOMAIN exchange.answer |-> Garbled]
      <3>1. exchange.got = got /\ exchange.answer \in Seq(STRING)
        BY <1>1, <2>2 DEF ReadAnswer, ReplyInv
      <3>2. Len(got) = Len(exchange.answer)
        BY <3>1
      <3> QED
        BY <1>5, <2>2, <3>1, <3>2
    <2> QED
      BY <2>1, <2>2
  <1> QED
    BY <1>2, <1>3, <1>4, <1>6 DEF ResolvedMeansDone, Handler, Arrived, op

LEMMA InvGivesRejected == DialogueInv => RejectedMeansNotAccepted
  <1> SUFFICES ASSUME DialogueInv, exchange.phase = "rejected", exchange.result = "value",
                      exchange.request.op.name # "RequestAllMOSObjects"
               PROVE  FALSE
    BY DEF RejectedMeansNotAccepted
  <1>1. /\ exchange.request.op \in Ops /\ ReplyInv(exchange)
        /\ ~(exchange.reply # Nack /\ Understands(exchange.request.op, exchange.reply))
    BY RequestsAssumption DEF DialogueInv, ExchangeInv, Answered
  <1>2. Routed(exchange) /\ exchange.reply = Rows[exchange.row].reply
    BY <1>1 DEF ReplyInv
  <1>3. /\ Rows[exchange.row].reply # Nack
        /\ exchange.request.op.understood \in {Rows[exchange.row].reply, Unread}
    BY <1>1, <1>2, AgreesWith DEF Routed
  <1> QED
    BY <1>1, <1>2, <1>3 DEF Understands

(* A message of a supported profile finds the row that is for it.            *)
LEMMA SupportedIsRouted ==
  ASSUME DialogueInv, Receive, Valid,
         \/ exchange.request.op.message.source = Absent
         \/ SourcePresent(exchange.request.op.message.source, exchange.request.elements),
         NEW p \in Supported, Meant(exchange.request.op.name) \in RequiredCallbacks[p + 1]
  PROVE  exchange'.row # 0
  <1> DEFINE r == exchange.request
             row == Route(r.op.message, r.elements)
  <1>1. exchange.phase = "sent" /\ Shape(exchange) /\ r \in Requests
    BY DEF Receive, DialogueInv, ExchangeInv
  <1>2. /\ r.op \in Ops /\ p \in 0 .. 4
        /\ r.op.name \in Swaps => Len(r.elements) = 2
    BY <1>1, RequestsAssumption, SupportedAssumption DEF Swaps
  <1>3. r.op.name # "MOSObject"
    BY <1>2 DEF Meant, Meanings, RequiredCallbacks, NoCallback
  <1>4. PICK i \in DOMAIN Rows : RowFor(Rows[i], r.op)
    BY <1>2, <1>3, SomeRowFor
  <1>5. CarriedOutAs(r.op.name) \in registered
    BY <1>2, RequiredTogether DEF Valid
  <1>6. Takes(Rows[i], r.op.message, r.elements)
    BY <1>2, <1>4, <1>5, AgreesWith DEF Takes, RowFor
  <1>7. row # 0
    <2>1. row = Route(r.op.message, r.elements)
      OBVIOUS
    <2> HIDE DEF row, r
    <2> QED
      BY <1>2, <1>4, <1>6, <2>1, RouteFacts
  <1>8. \/ exchange' = [exchange EXCEPT !.phase = "replied", !.reply = Nack, !.row = row]
        \/ exchange' = [exchange EXCEPT !.phase = "replied", !.row = row,
                                        !.given = Natives(r.elements),
                                        !.result = "value", !.reply = Rows[row].reply]
        \/ exchange' = [exchange EXCEPT !.phase = "handling", !.row = row,
                                        !.given = Read(Rows[row], r.elements)]
    BY Zenon, <1>7 DEF Receive
  <1> HIDE DEF row
  <1> QED
    BY <1>1, <1>7, <1>8 DEF Shape

(* The only step that takes an exchange out of "sent" is that of the receiver. *)
LEMMA StepIsSupported ==
  ASSUME DialogueInv, [Next]_vars, exchange.phase = "sent", exchange'.phase # "sent"
  PROVE  Receive
  <1>1. ~Return /\ ~Settle /\ ~Forget
    BY DEF Return, Settle, Forget
  <1>2. ~(\E r \in Requests : Ask(r)) /\ ~(\E c \in Callbacks : Register(c))
    BY DEF Ask, Register
  <1> QED
    BY <1>1, <1>2 DEF Next, vars

(* The promise of a send method resolves only when the other side has done,   *)
(* under the callback of that operation, what was asked, and gets what the    *)
(* callback answered, numbers and booleans written in their own way, but for   *)
(* the operations and contents the property names.                           *)
THEOREM ResolvedIsDone == Spec => []ResolvedMeansDone
  BY DialogueIsTracked, InvGivesResolved, PTL

(* It rejects only when the other side has not accepted the request, but for   *)
(* the request for all objects.                                              *)
THEOREM RejectedIsNotAccepted == Spec => []RejectedMeansNotAccepted
  BY DialogueIsTracked, InvGivesRejected, PTL

(* A device whose configuration passes the strict check takes up every         *)
(* request of the profiles it supports, whatever it asks with.                *)
THEOREM ValidIsSupported == Spec => ValidMeansSupported
  <1>1. DialogueInv /\ [Next]_vars =>
          [ /\ exchange.phase = "sent" /\ exchange'.phase # "sent"
            /\ Valid
            /\ \/ exchange.request.op.message.source = Absent
               \/ SourcePresent(exchange.request.op.message.source, exchange.request.elements)
            /\ \E p \in Supported : Meant(exchange.request.op.name) \in RequiredCallbacks[p + 1]
            => exchange'.row # 0 ]_vars
    BY StepIsSupported, SupportedIsRouted
  <1> QED
    BY <1>1, DialogueIsTracked, PTL DEF Spec, ValidMeansSupported
=============================================================================
