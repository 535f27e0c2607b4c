---------------------------- MODULE ObjectTransfer ----------------------------
(***************************************************************************)
(* How a MosDevice answers mosReqAll (MosDevice.ts, routeData): with all    *)
(* objects in one mosListAll, or, when the request asks for a pause, with   *)
(* one mosObj after another, each sent by a timer that the reply to the one *)
(* before has armed.  Several requests may be served at the same time.      *)
(***************************************************************************)
EXTENDS Integers, Sequences

CONSTANTS
    Transfers,    \* the requests that may come
    MaxObjects   \* the objects the application has: 1 .. MaxObjects

ASSUME ObjectsAssumption == MaxObjects \in Nat
ASSUME TransfersAssumption == "application" \notin Transfers

AllObjects == [i \in 1 .. MaxObjects |-> i]

VARIABLES
    shared,      \* the application answers every request with the same array,
                 \*   and not with a new one each time
    state,       \* how far each transfer is
    array,       \* the arrays in memory: the one each transfer holds a
                 \*   reference to, or the one of the application they share
    nextObject,  \* the object each transfer has taken out of its array last
    received,    \* the objects that have got through to the peer, for each
                 \*   transfer in the order they were written first
    lost,        \* the transfers whose command a connection has forgotten
    disposed     \* the connections of the device are disposed

transferVars == <<shared, state, array, nextObject, received, lost, disposed>>

NoObject == 0

(* A message is waited for from its executeCommand until its promise settles:*)
(* it may have got through to the peer, or not (yet).                        *)
Waiting == {"object", "list", "objectGotThrough", "listGotThrough"}
States == {"none", "called", "calledForList", "timer", "done", "failed"} \union Waiting

TransferInit ==
  /\ shared \in BOOLEAN
  /\ state = [r \in Transfers |-> "none"]
  /\ array = [h \in Transfers \cup {"application"} |-> AllObjects]
  /\ nextObject = [r \in Transfers |-> NoObject]
  /\ received = [r \in Transfers |-> <<>>]
  /\ lost = {}
  /\ disposed = FALSE

Held(r) == IF shared THEN "application" ELSE r

-----------------------------------------------------------------------------
(* mosReqAll arrives; the callback of the application is asked for objects. *)
AskForAll(r) ==
  /\ ~disposed /\ state[r] = "none"
  /\ state' \in {[state EXCEPT ![r] = s] : s \in {"called", "calledForList"}}
  /\ UNCHANGED <<shared, array, nextObject, received, lost, disposed>>

(* The setImmediate after it, for a request with a pause.                   *)
Begin(r) ==
  /\ state[r] = "called"
  /\ state' = [state EXCEPT ![r] = IF array[Held(r)] = <<>> THEN "done" ELSE "timer"]
  /\ UNCHANGED <<shared, array, nextObject, received, lost, disposed>>

(* executeCommand of a message of r: it rejects at once where no connection  *)
(* is up, as none is that is disposed.                                       *)
Execute(r, message) ==
  \/ ~disposed /\ state' = [state EXCEPT ![r] = message]
  \/ state' = [state EXCEPT ![r] = "failed"]

(* The same without a pause: _sendAllMOSObjects.                            *)
BeginList(r) ==
  /\ state[r] = "calledForList"
  /\ Execute(r, "list")
  /\ UNCHANGED <<shared, array, nextObject, received, lost, disposed>>

(* sendNextObject: what it sends it has taken out of the array before.  (Its *)
(* test of _disposed never stops it: nothing sets that field of a MosDevice.)*)
SendNextObjectSkipsMutant(r) ==
  LET a == array[Held(r)]
  IN  /\ state[r] = "timer"
      /\ \/ /\ a = <<>>
            /\ state' = [state EXCEPT ![r] = "done"]
            /\ UNCHANGED <<array, nextObject>>
         \/ /\ a # <<>>
            /\ array' = [array EXCEPT ![Held(r)] = SubSeq(a, 3, Len(a))]
            /\ nextObject' = [nextObject EXCEPT ![r] = Head(a)]
            /\ Execute(r, "object")
      /\ UNCHANGED <<shared, received, lost, disposed>>

SendNextObject(r) ==
  LET a == array[Held(r)]
  IN  /\ state[r] = "timer"
      /\ \/ /\ a = <<>>
            /\ state' = [state EXCEPT ![r] = "done"]
            /\ UNCHANGED <<array, nextObject>>
         \/ /\ a # <<>>
            /\ array' = [array EXCEPT ![Held(r)] = Tail(a)]
            /\ nextObject' = [nextObject EXCEPT ![r] = Head(a)]
            /\ Execute(r, "object")
      /\ UNCHANGED <<shared, received, lost, disposed>>

-----------------------------------------------------------------------------
(* The client of the connection (MosSocketClient.tla, Failover.tla).         *)

(* It writes the message on a connection that holds.  A list is the array of *)
(* this moment: it is serialised when it is written (MosListAll), and other  *)
(* transfers may have taken from it.  What a retry writes again brings       *)
(* nothing new.                                                              *)
GetsThrough(r) ==
  /\ ~disposed
  /\ \/ /\ state[r] = "object"
        /\ state' = [state EXCEPT ![r] = "objectGotThrough"]
        /\ received' = [received EXCEPT ![r] = Append(@, nextObject[r])]
     \/ /\ state[r] = "list"
        /\ state' = [state EXCEPT ![r] = "listGotThrough"]
        /\ received' = [received EXCEPT ![r] = array[Held(r)]]
  /\ UNCHANGED <<shared, array, nextObject, lost, disposed>>

(* The peer replies, under the id of the message; the reply to an object     *)
(* arms the next timer, the one to a list is the end.                        *)
Reply(r) ==
  /\ ~disposed /\ r \notin lost
  /\ \/ state[r] = "objectGotThrough" /\ state' = [state EXCEPT ![r] = "timer"]
     \/ state[r] = "listGotThrough" /\ state' = [state EXCEPT ![r] = "done"]
  /\ UNCHANGED <<shared, array, nextObject, received, lost, disposed>>

(* It times out, or is refused: the error is logged and the transfer ends.   *)
Fails(r) ==
  /\ ~disposed /\ r \notin lost /\ state[r] \in Waiting
  /\ state' = [state EXCEPT ![r] = "failed"]
  /\ UNCHANGED <<shared, array, nextObject, received, lost, disposed>>

(* A handover or a cleanup forgets the command: its promise never settles.   *)
(* The message may get through all the same, from the queue it went to.      *)
Loses(r) ==
  /\ ~disposed /\ r \notin lost /\ state[r] \in Waiting
  /\ lost' = lost \union {r}
  /\ UNCHANGED <<shared, state, array, nextObject, received, disposed>>

(* The callbacks and the timers of the clients do nothing after that, so a   *)
(* transfer that waits goes on waiting.                                      *)
Dispose ==
  /\ ~disposed /\ disposed' = TRUE
  /\ UNCHANGED <<shared, state, array, nextObject, received, lost>>

Step(r)    == Begin(r) \/ BeginList(r) \/ SendNextObject(r)
Settles(r) == Reply(r) \/ Fails(r) \/ Loses(r)

TransferNext ==
  Dispose \/ \E r \in Transfers : AskForAll(r) \/ Step(r) \/ GetsThrough(r) \/ Settles(r)

TransferSpec == TransferInit /\ [][TransferNext]_transferVars

(* Timers fire, and the client settles a command or forgets it: it is never  *)
(* without the timeout of what it has in flight.                             *)
TransferFairness ==
  \A r \in Transfers : WF_transferVars(Step(r)) /\ WF_transferVars(Settles(r))

-----------------------------------------------------------------------------

Prefix(s) == \E n \in 0 .. MaxObjects : s = SubSeq(AllObjects, 1, n)

TransferTypeOK ==
  /\ state \in [Transfers -> States] /\ disposed \in BOOLEAN
  /\ array \in [Transfers \cup {"application"} -> Seq(1 .. MaxObjects)]
  /\ nextObject \in [Transfers -> 0 .. MaxObjects] /\ lost \subseteq Transfers
  /\ received \in [Transfers -> Seq(1 .. MaxObjects)]

Objects(sequence) == {sequence[i] : i \in DOMAIN sequence}

(* The object that went down with transfer r: it was taken out of the array, *)
(* and the message with it has not got through.                              *)
Loss(r) == IF state[r] \in {"object", "failed"} THEN {nextObject[r]} ELSE {}

(* A transfer brings no object twice or out of order; one that came to its  *)
(* end has brought every object to the peer ("a mosObj message for every    *)
(* Object in the MOS"), and one that did not the first of them.  That needs *)
(* a new array for every request: shift() takes the objects out of the      *)
(* application's own array (MosDevice.ts:310), so transfers that share it   *)
(* divide the objects between them, and a later one may find none.  Then    *)
(* every object is still in the array, or one of them has brought it to the *)
(* peer, or it is the one object that a transfer took down with it.         *)
EveryObjectIsSent ==
  /\ TransferTypeOK
  /\ \A r \in Transfers, i, j \in 1 .. MaxObjects :
       i < j /\ j <= Len(received[r]) => received[r][i] < received[r][j]
  /\ ~shared => \A r \in Transfers :
       /\ Prefix(received[r])
       /\ state[r] = "done" => received[r] = AllObjects
  /\ shared => \A o \in 1 .. MaxObjects :
       \/ o \in Objects(array["application"])
       \/ \E r \in Transfers : o \in Objects(received[r]) \union Loss(r)

(* Every request that is taken up comes to an end: all objects are sent or   *)
(* an error is logged, with any delays, sends that are refused, and a        *)
(* disposal between two objects.  The one exception is a message whose       *)
(* promise never settles, because its command was lost or the connections    *)
(* were disposed while it was waited for.                                    *)
TransfersEnd ==
  \A r \in Transfers :
    state[r] # "none" ~> \/ state[r] \in {"done", "failed"}
                         \/ state[r] \in Waiting /\ (disposed \/ r \in lost)
=============================================================================
