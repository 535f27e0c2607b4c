-------------------------- MODULE CommandLifecycle --------------------------
(***************************************************************************)
(* What a MosSocketClient promises to whoever queues commands on it: each   *)
(* command moves along a fixed life cycle, is settled at most once and then *)
(* for good, commands go out one at a time and in the order in which they   *)
(* were queued.  How timers, replies and the connection bring the moves     *)
(* about is left to the implementation.                                     *)
(***************************************************************************)
EXTENDS Naturals

CONSTANT MaxId

Id == 1 .. MaxId

VARIABLE status   \* where each command is in its life

Status == {"new", "queued", "inFlight", "lingering", "settled", "handedOver", "orphaned"}

Moves ==
  {<<"new", "queued">>, <<"new", "inFlight">>,
   <<"queued", "inFlight">>, <<"queued", "settled">>, <<"queued", "handedOver">>,
   <<"inFlight", "settled">>, <<"inFlight", "handedOver">>,
   <<"inFlight", "lingering">>, <<"inFlight", "orphaned">>,
   <<"lingering", "settled">>, <<"lingering", "handedOver">>,
   <<"orphaned", "handedOver">>}

Starts(id) == status[id] # "inFlight" /\ status'[id] = "inFlight"

Init == status = [id \in Id |-> "new"]

(* One step moves any number of commands: a handler may settle the command  *)
(* in flight, drop aged ones and send the next one.                         *)
Next ==
  /\ status' \in [Id -> Status]
  /\ \A id \in Id : status'[id] = status[id] \/ <<status[id], status'[id]>> \in Moves
  /\ \A i, j \in Id : status'[i] = "inFlight" /\ status'[j] = "inFlight" => i = j
  /\ \A i, j \in Id : i < j /\ Starts(j) => status'[i] \notin {"new", "queued"}

Spec == Init /\ [][Next]_status
=============================================================================
