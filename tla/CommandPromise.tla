--------------------------- MODULE CommandPromise ---------------------------
(***************************************************************************)
(* What a MosDevice with two connections promises to whoever sends a        *)
(* command: its promise is settled at most once, and one way only; and as   *)
(* long as the device stays on a connection it loses track of no command.   *)
(* A command that is lost, because the device switched, stays lost.         *)
(***************************************************************************)
CONSTANTS Command, Connection

VARIABLES status, current

Status == {"new", "waiting", "resolved", "rejected", "lost"}

Moves == {<<"new", "waiting">>, <<"new", "rejected">>, <<"waiting", "resolved">>,
          <<"waiting", "rejected">>, <<"waiting", "lost">>}

Init == status = [k \in Command |-> "new"] /\ current \in Connection

Next ==
  /\ status' \in [Command -> Status] /\ current' \in Connection
  /\ \A k \in Command : status'[k] = status[k] \/ <<status[k], status'[k]>> \in Moves
  /\ current' = current => \A k \in Command : status'[k] = "lost" => status[k] = "lost"

Spec == Init /\ [][Next]_<<status, current>>
=============================================================================
