------------------------------ MODULE MessageIds ------------------------------
(***************************************************************************)
(* The ids of messages (mosModel/MosMessage.ts).  One static counter serves *)
(* all connections of the process; prepare() draws an id for a command, and *)
(* for a reply to a message that carries none.  The queues of clients, their*)
(* callbacks and their timers are keyed by these ids.                       *)
(***************************************************************************)
EXTENDS Integers

CONSTANTS
    MAX,       \* MAX_MESSAGE_ID
    Window     \* bounds how many ids are drawn during the life of a command

ASSUME MaxAssumption    == MAX \in Nat /\ MAX > 2
ASSUME WindowAssumption == Window \in Nat /\ Window <= MAX - 2

VARIABLES
    messageID,   \* MosMessage._messageID
    commands,    \* the commands that wait for a reply, each with the number of
                 \*   ids that were drawn after its own
    drawn        \* ghost: whether an id was drawn yet

idsVars == <<messageID, commands, drawn>>

IdsInit == messageID = 1 /\ commands = {} /\ drawn = FALSE

(* getNewMessageID *)
NewMessageIDShortMutant == IF messageID + 1 >= MAX - 1 THEN 1 ELSE messageID + 1

NewMessageID == IF messageID + 1 >= MAX THEN 1 ELSE messageID + 1

Older == {[id |-> c.id, age |-> c.age + 1] : c \in commands}

Draw ==
  /\ \A c \in commands : c.age < Window
  /\ messageID' = NewMessageID
  /\ drawn' = TRUE

(* prepare() of a command                                                   *)
Command == Draw /\ commands' = Older \cup {[id |-> messageID', age |-> 0]}

(* prepare() of a reply without an id                                       *)
Reply == Draw /\ commands' = Older

(* A command is settled.                                                    *)
Settle ==
  /\ \E c \in commands : commands' = commands \ {c}
  /\ UNCHANGED <<messageID, drawn>>

IdsNext == Command \/ Reply \/ Settle

IdsSpec == IdsInit /\ [][IdsNext]_idsVars

-----------------------------------------------------------------------------

IdsTypeOK ==
  /\ messageID \in 1 .. MAX - 1
  /\ commands \subseteq [id : 1 .. MAX - 1, age : 0 .. Window]
  /\ drawn \in BOOLEAN

(* No two commands that wait for a reply have the same id, though the       *)
(* counter wraps, as long as none outlives MAX - 2 drawings (a client keys  *)
(* its callbacks by the id).                                                *)
IdsAreUnique == \A c, d \in commands : c.id = d.id => c = d
=============================================================================
