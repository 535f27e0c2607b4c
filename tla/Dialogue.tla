------------------------------- MODULE Dialogue -------------------------------
(***************************************************************************)
(* One request and its reply between two devices that run this code: a send  *)
(* method of MosDevice on one side, MosDevice.routeData and the callbacks    *)
(* the user has set on the other.  Exchanges on different sockets share      *)
(* nothing but the callbacks, so one exchange at a time is enough.  The      *)
(* connection itself is in SocketClient.tla and Failover.tla; here every     *)
(* message arrives.                                                          *)
(***************************************************************************)
EXTENDS MosMessages, NativeType, FiniteSets

CONSTANTS
    Requests,    \* the [op, elements] records that are asked for
    Lists,       \* the lists a callback may answer with
    Supported,   \* the profiles of the receiving device
    Bare         \* the stories that have an ID and nothing else

ASSUME RequestsAssumption ==
  \A r \in Requests :
    /\ r = [op |-> r.op, elements |-> r.elements]
    /\ r.op \in Ops /\ r.elements \in Seq(STRING)
    /\ r.op.name \in {"ROSwapStories", "ROSwapItems"} => Len(r.elements) = 2
    /\ r.op.name = "ItemReplace" => Len(r.elements) = 3
ASSUME ListsAssumption == Lists \subseteq Seq(STRING)
ASSUME SupportedAssumption == Supported \subseteq 0..4

VARIABLES
    registered,   \* the callbacks that are set on the receiving device
    exchange      \* the exchange in progress

vars == <<registered, exchange>>

StoryItem == "storyItem"  \* an element of a story body that is an item
Garbled   == "garbled"    \* something that is not what was sent

NoRequest == [op |-> Op(Absent, Plain(Absent, Absent), Unread), elements |-> <<>>]

Quiet == [phase |-> "idle", request |-> NoRequest,
          row |-> 0, given |-> <<>>, result |-> Absent, answer |-> <<>>,
          reply |-> Absent, got |-> <<>>]

(* The user sets the callbacks in any order; at most one is still missing    *)
(* when the first message arrives.                                           *)
Init ==
  /\ \/ registered = Callbacks
     \/ \E c \in Callbacks : registered = Callbacks \ {c}
  /\ exchange = Quiet

-----------------------------------------------------------------------------
(* Receiving.                                                                *)

(* Stories and items are known by their ids.  In its element_source, a story  *)
(* alone that has nothing but an ID is folded into a text, like an id.       *)
BecomesText(source, elements) ==
  /\ Len(elements) = 1
  /\ \/ source \in {"storyID", "itemID"}
     \/ source = "story" /\ elements[1] \in Bare

(* An element_source below which there is nothing, or one text that is 0 or  *)
(* false, is taken for absent.                                               *)
SourcePresent(source, elements) ==
  /\ elements # <<>>
  /\ BecomesText(source, elements) => Native(elements[1]) \notin Falsy

Takes(row, message, elements) ==
  /\ row.tag = message.tag /\ row.attribute = message.attribute
  /\ row.callback \in registered \union {NoCallback}
  /\ row.source # Absent =>
       /\ row.source = message.source
       /\ SourcePresent(row.source, elements)
       /\ row.reads = "two" => Len(elements) = 2

(* The row that takes the message, or 0: Unsupported function.               *)
Route(message, elements) ==
  LET takers == {i \in DOMAIN Rows : Takes(Rows[i], message, elements)}
  IN  IF takers = {} THEN 0 ELSE CHOOSE i \in takers : \A j \in takers : i <= j

(* Among several ids a 0 or a false has lost its text and comes out as JSON.  *)
ReadIds(elements) ==
  [i \in DOMAIN elements |-> IF Len(elements) > 1 /\ Native(elements[i]) \in Falsy THEN Garbled
                             ELSE Native(elements[i])]

(* A body with one element is not kept in order: an item is passed on as it  *)
(* came, anything else is lost.                                              *)
ReadBody(elements) ==
  IF Len(elements) # 1 THEN Natives(elements)
  ELSE IF elements = <<StoryItem>> THEN <<Garbled>> ELSE <<>>

(* The ids of a message that no longer exists; where there is none, one that  *)
(* is not there is read.                                                     *)
ReadIdList(elements) == IF elements = <<>> THEN <<Garbled>> ELSE Natives(elements)

(* xml2Stories is called with a list around what may be a list already, or a  *)
(* text, whose ID is "undefined".                                            *)
ReadWrapped(source, elements) ==
  IF Len(elements) = 1 /\ ~ BecomesText(source, elements)
  THEN Natives(elements) ELSE <<Garbled>>

(* <mosItemReplace> has roID, storyID and the item; ID and itemID are read.  *)
ReadItemReplace(elements) == <<Garbled, Garbled, Native(elements[3])>>

Read(row, elements) ==
  CASE row.reads \in {"ids", "two"} -> ReadIds(elements)
    [] row.reads = "idList"         -> ReadIdList(elements)
    [] row.reads = "wrapped"        -> ReadWrapped(row.source, elements)
    [] row.reads = "itemReplace"    -> ReadItemReplace(elements)
    [] row.reads = "body"           -> ReadBody(elements)
    [] OTHER                        -> Natives(elements)

(* Reading the message throws: before the callback is called.                *)
Unreadable(reads, message, elements) ==
  \/ reads = "notOnQueryPort" /\ message.port = "query"
  \/ reads = "groups" /\ Len(elements) < 2
  \/ reads = "wrapped" /\ elements = <<>>

-----------------------------------------------------------------------------
(* The steps of an exchange.                                                 *)

Register(c) ==
  /\ c \in Callbacks \ registered
  /\ registered' = registered \union {c}
  /\ UNCHANGED exchange

(* A send method: executeCommand of the message.                             *)
Ask(r) ==
  /\ exchange.phase = "idle"
  /\ exchange' = [Quiet EXCEPT !.phase = "sent", !.request = r]
  /\ UNCHANGED registered

(* routeData, until it calls the callback.  What it throws and what it does  *)
(* not support is answered with a <mosAck> of status NACK.                   *)
Nack == "NACK"

ReceiveInSilenceMutant ==
  /\ exchange.phase = "sent"
  /\ LET message  == exchange.request.op.message
         elements == exchange.request.elements
         row      == Route(message, elements)
     IN  exchange' =
           IF row = 0 THEN exchange
           ELSE [exchange EXCEPT !.phase = "handling", !.row = row,
                                 !.given = Read(Rows[row], elements)]
  /\ UNCHANGED registered

Receive ==
  /\ exchange.phase = "sent"
  /\ LET message  == exchange.request.op.message
         elements == exchange.request.elements
         row      == Route(message, elements)
     IN  exchange' =
           IF row = 0
           THEN [exchange EXCEPT !.phase = "replied", !.reply = Nack]
           ELSE IF Unreadable(Rows[row].reads, message, elements)
           THEN [exchange EXCEPT !.phase = "replied", !.reply = Nack, !.row = row]
           ELSE IF Rows[row].callback = NoCallback
           THEN [exchange EXCEPT !.phase = "replied", !.row = row, !.given = Natives(elements),
                                 !.result = "value", !.reply = Rows[row].reply]
           ELSE [exchange EXCEPT !.phase = "handling", !.row = row,
                                 !.given = Read(Rows[row], elements)]
  /\ UNCHANGED registered

(* The callback's promise settles: with a value, with an acknowledgement     *)
(* whose status is NACK, with null where its type allows it, or with an      *)
(* error.  A <roAck> passes its status on; that of a <mosAck> is looked at.  *)
Acknowledges(row) == row.reply \in {MOSAck, ROAck} /\ row.callback # "RequestAllMOSObjects"
Nullable(row)     == row.reply \in {MosObj.tag, ROList}
Listing(row)      == row.reply \in {ROList, ROListAll, MosObjList}

Results(row) == {"value", "error"} \union (IF Acknowledges(row) THEN {"negative"} ELSE {})
                                   \union (IF Nullable(row) THEN {"null"} ELSE {})

ReplyOf(row, result) ==
  CASE result = "value"                             -> row.reply
    [] result = "negative" /\ row.reply = ROAck   -> ROAck
    [] result = "null" /\ row.reply = ROList      -> ROAck
    [] OTHER                                        -> Nack

Return ==
  /\ exchange.phase = "handling"
  /\ LET row == Rows[exchange.row]
     IN  \E result \in Results(row), answer \in (IF Listing(row) THEN Lists ELSE {<<>>}) :
           exchange' = [exchange EXCEPT !.phase = "replied", !.result = result,
                                        !.answer = answer, !.reply = ReplyOf(row, result)]
  /\ UNCHANGED registered

(* executeCommand's _ensureReply, then the rest of the send method.  The     *)
(* running orders of a <roListAll> were not written into their <ro>.         *)
EnsureReplyMutant(reply) == TRUE
EnsureReply(reply) == reply # Nack

Understands(op, reply) == op.understood \in {reply, Unread}

ReadAnswer(reply, answer) ==
  IF reply = ROListAll THEN [i \in DOMAIN answer |-> Garbled] ELSE Natives(answer)

Settle ==
  /\ exchange.phase = "replied"
  /\ exchange' =
       IF EnsureReply(exchange.reply) /\ Understands(exchange.request.op, exchange.reply)
       THEN [exchange EXCEPT !.phase = "resolved",
                             !.got = ReadAnswer(exchange.reply, exchange.answer)]
       ELSE [exchange EXCEPT !.phase = "rejected"]
  /\ UNCHANGED registered

Forget ==
  /\ exchange.phase \in {"resolved", "rejected"}
  /\ exchange' = Quiet
  /\ UNCHANGED registered

Next ==
  \/ \E c \in Callbacks : Register(c)
  \/ \E r \in Requests : Ask(r)
  \/ Receive \/ Return \/ Settle \/ Forget

Spec == Init /\ [][Next]_vars

(* Both programs keep running, and a callback settles its promise.           *)
Fairness == WF_vars(Receive) /\ WF_vars(Return) /\ WF_vars(Settle)

-----------------------------------------------------------------------------
(* Properties.                                                               *)

(* What the operations of other devices mean, in the names of this code.     *)
Meanings ==
  [StoryAppend            |-> "ROInsertStories",
   StoryInsert            |-> "ROInsertStories",
   StoryReplace           |-> "ROReplaceStories",
   StoryMove              |-> "ROMoveStories",
   StoryDelete            |-> "RODeleteStories",
   MachineInfoOnQueryPort |-> "RequestMachineInfo",
   HeartBeat              |-> NoCallback]

Meant(op) == IF op \in DOMAIN Meanings THEN Meanings[op] ELSE op

Handler == IF exchange.row = 0 THEN "nobody" ELSE Rows[exchange.row].callback

(* Three requests are carried out as others: ROReplaceItems and ROSwapItems  *)
(* write the operation of another class (roActions.ts:77 and 176), and the    *)
(* row of a <roStoryMove> calls the callback that deletes (MosDevice.ts:527). *)
Misrouted ==
  [ROReplaceItems |-> "ROInsertItems",
   ROSwapItems    |-> "RODeleteItems",
   StoryMove      |-> "RODeleteStories"]

CarriedOutAs(op) == IF op \in DOMAIN Misrouted THEN Misrouted[op] ELSE Meant(op)

(* Contents that do not arrive as they were sent: several stories where one   *)
(* is read, one story that has nothing but its ID, an id 0 among several, no  *)
(* id where one is read, a body of one element, and the ids of a              *)
(* <mosItemReplace> (MosDevice.ts:425, 516, 529, 617).                        *)
Mangled(row, elements) ==
  \/ row.reads = "wrapped" /\ Len(elements) > 1
  \/ row.reads = "wrapped" /\ BecomesText(row.source, elements)
  \/ row.reads = "idList" /\ elements = <<>>
  \/ row.reads \in {"ids", "two"} /\ \E i \in DOMAIN elements : Native(elements[i]) \in Falsy
  \/ row.reads = "body" /\ Len(elements) = 1
  \/ row.reads = "itemReplace"

(* What a send method resolves with is the truth, but for what is named       *)
(* above: the callback of that operation was called, with the elements that   *)
(* were sent, and did not fail; and the list it answered is the list the      *)
(* sender gets, except that of all running orders, which loses what describes *)
(* them (ROListAll.ts:24).  Texts that look like numbers or booleans arrive   *)
(* as these are written, in both directions (Utils.ts:25).                    *)
ResolvedMeansDone ==
  LET op == exchange.request.op.name IN
  exchange.phase = "resolved" =>
    /\ Handler = CarriedOutAs(op)
    /\ exchange.result # "error"
    /\ \/ exchange.given = Natives(exchange.request.elements)
       \/ Mangled(Rows[exchange.row], exchange.request.elements)
    /\ IF op = "RequestAllRunningOrders" THEN Len(exchange.got) = Len(exchange.answer)
       ELSE exchange.got = Natives(exchange.answer)

(* A sender whose promise rejects may try again: the receiver has not        *)
(* accepted the request.  So the reply of every callback that returned a      *)
(* value is one the send method of that operation understands, but for the    *)
(* <mosAck> that answers mosReqAll before the objects are sent.               *)
RejectedMeansNotAccepted ==
  exchange.phase = "rejected" /\ exchange.request.op.name # "RequestAllMOSObjects" =>
    exchange.result # "value"

(* The strict check of the configuration is worth something: when it passes,  *)
(* no request of a supported profile is answered Unsupported function, unless *)
(* it names nothing, or alone an id that is 0 or false: these are taken for   *)
(* absent.                                                                   *)
Valid == \A p \in Supported : RequiredCallbacks[p + 1] \subseteq registered

ValidMeansSupported ==
  [][ /\ exchange.phase = "sent" /\ exchange'.phase # "sent"
      /\ Valid
      /\ \/ exchange.request.op.message.source = Absent
         \/ SourcePresent(exchange.request.op.message.source, exchange.request.elements)
      /\ \E p \in Supported : Meant(exchange.request.op.name) \in RequiredCallbacks[p + 1]
      => exchange'.row # 0 ]_vars

(* Every request settles: whatever is missing, unreadable or thrown on the   *)
(* other side, a reply is sent.                                              *)
EveryRequestSettles ==
  exchange.phase = "sent" ~> exchange.phase \in {"resolved", "rejected"}
==============================================================================
