------------------------------ MODULE MosMessages ------------------------------
(***************************************************************************)
(* The messages of the MOS protocol as mosModel/ writes them, the rows of    *)
(* MosDevice.routeData that read them, and the replies that each send        *)
(* method of MosDevice understands.                                          *)
(*                                                                          *)
(* An operation has the name of its methods without the send or on they      *)
(* start with: sendROMoveItems and onROMoveItems are "ROMoveItems".  The      *)
(* content of a message is the sequence of its elements: the stories, the    *)
(* items, the ids.                                                           *)
(***************************************************************************)
EXTENDS Sequences, Naturals

(* A message on port, with its tag below <mos>; the attribute that names     *)
(* what is done (operation, element) and the tag of the elements within      *)
(* element_source, where it has them.                                        *)
Absent == "absent"

Message(port, tag, attribute, source) ==
  [port |-> port, tag |-> tag, attribute |-> attribute, source |-> source]
Plain(port, tag)                 == Message(port, tag, Absent, Absent)
ElementAction(operation, source) == Message("upper", "roElementAction", operation, source)
ReqObjAction(operation)          == Message("lower", "mosReqObjAction", operation, Absent)

-----------------------------------------------------------------------------
(* One definition per message class.                                        *)
HeartBeat              == Plain("lower", "heartbeat")
ReqMachInfo            == Plain("lower", "reqMachInfo")
MosObj                 == Plain("lower", "mosObj")
ReqMosObj              == Plain("lower", "mosReqObj")
ReqMosObjAll           == Plain("lower", "mosReqAll")
ROCreate               == Plain("upper", "roCreate")
ROReplace              == Plain("upper", "roReplace")
RODelete               == Plain("upper", "roDelete")
ROReq                  == Plain("upper", "roReq")
ROMetadataReplace      == Plain("upper", "roMetadataReplace")
ROElementStat(type)    == Message("upper", "roElementStat", type, Absent)
ROReadyToAir           == Plain("upper", "roReadyToAir")
ROInsertStories        == ElementAction("INSERT", "story")
ROInsertItems          == ElementAction("INSERT", "item")
ROReplaceStories       == ElementAction("REPLACE", "story")
ROReplaceItems         == ElementAction("INSERT", "item")
ROMoveStories          == ElementAction("MOVE", "storyID")
ROMoveItems            == ElementAction("MOVE", "itemID")
RODeleteStories        == ElementAction("DELETE", "storyID")
RODeleteItems          == ElementAction("DELETE", "itemID")
ROSwapStories          == ElementAction("SWAP", "storyID")
ROSwapItems            == ElementAction("DELETE", "itemID")
MosItemReplace         == Plain("upper", "mosItemReplace")
MosObjCreate           == Plain("lower", "mosObjCreate")
MosReqObjActionNew     == ReqObjAction("NEW")
MosReqObjActionUpdate  == ReqObjAction("UPDATE")
MosReqObjActionDelete  == ReqObjAction("DELETE")
MosReqObjList          == Plain("query", "mosReqObjList")
MosReqSearchableSchema == Plain("query", "mosReqSearchableSchema")
ROReqAll               == Plain("upper", "roReqAll")
ROStory                == Plain("upper", "roStorySend")

(* The messages that are only replies, by their tags.                        *)
ListMachineInfo         == "listMachInfo"
MOSAck                  == "mosAck"
MosListAll              == "mosListAll"
ROAck                   == "roAck"
ROList                  == "roList"
ROListAll               == "roListAll"
MosObjList              == "mosObjList"
MosListSearchableSchema == "mosListSearchableSchema"

(* An operation: its name, the message it sends, and the tag of the reply it  *)
(* takes its value from.  Unread is for a reply that is not looked at.        *)
Unread == "any"
Op(name, message, understood) ==
  [name |-> name, message |-> message, understood |-> understood]

Profile0Ops ==
  { Op("RequestMachineInfo", ReqMachInfo, ListMachineInfo) }

Profile1Ops ==
  { Op("MOSObject",            MosObj,       MOSAck),
    Op("RequestMOSObject",     ReqMosObj,    MosObj.tag),
    Op("RequestAllMOSObjects", ReqMosObjAll, MosListAll) }

RunningOrderOps ==
  { Op("CreateRunningOrder",  ROCreate,               ROAck),
    Op("ReplaceRunningOrder", ROReplace,              ROAck),
    Op("DeleteRunningOrder",  RODelete,               ROAck),
    Op("RequestRunningOrder", ROReq,                  ROList),
    Op("MetadataReplace",     ROMetadataReplace,      ROAck),
    Op("RunningOrderStatus",  ROElementStat("RO"),    ROAck),
    Op("StoryStatus",         ROElementStat("STORY"), ROAck),
    Op("ItemStatus",          ROElementStat("ITEM"),  ROAck),
    Op("ReadyToAir",          ROReadyToAir,           ROAck) }

ElementActionOps ==
  { Op("ROInsertStories",  ROInsertStories,  ROAck),
    Op("ROInsertItems",    ROInsertItems,    ROAck),
    Op("ROReplaceStories", ROReplaceStories, ROAck),
    Op("ROReplaceItems",   ROReplaceItems,   ROAck),
    Op("ROMoveStories",    ROMoveStories,    ROAck),
    Op("ROMoveItems",      ROMoveItems,      ROAck),
    Op("RODeleteStories",  RODeleteStories,  ROAck),
    Op("RODeleteItems",    RODeleteItems,    ROAck),
    Op("ROSwapStories",    ROSwapStories,    ROAck),
    Op("ROSwapItems",      ROSwapItems,      ROAck) }

Profile3Ops ==
  { Op("ObjectCreate",              MosObjCreate,           MOSAck),
    Op("ItemReplace",               MosItemReplace,         ROAck),
    Op("RequestSearchableSchema",   MosReqSearchableSchema, Unread),
    Op("RequestObjectList",         MosReqObjList,          MosObjList),
    Op("RequestObjectActionNew",    MosReqObjActionNew,     MOSAck),
    Op("RequestObjectActionUpdate", MosReqObjActionUpdate,  MOSAck),
    Op("RequestObjectActionDelete", MosReqObjActionDelete,  MOSAck) }

Profile4OpsMutant ==
  { Op("RequestAllRunningOrders", ROReqAll, ROListAll),
    Op("RunningOrderStory",       ROStory,  MOSAck) }

Profile4Ops ==
  { Op("RequestAllRunningOrders", ROReqAll, ROListAll),
    Op("RunningOrderStory",       ROStory,  ROAck) }

(* What only a foreign peer sends: messages of older versions of the         *)
(* protocol, and a request on a port this code does not send it on.          *)
ForeignOps ==
  { Op("HeartBeat",    HeartBeat,                         Unread),
    Op("StoryAppend",  Plain("upper", "roStoryAppend"),  ROAck),
    Op("StoryInsert",  Plain("upper", "roStoryInsert"),  ROAck),
    Op("StoryReplace", Plain("upper", "roStoryReplace"), ROAck),
    Op("StoryMove",    Plain("upper", "roStoryMove"),    ROAck),
    Op("StoryDelete",  Plain("upper", "roStoryDelete"),  ROAck),
    Op("MachineInfoOnQueryPort", Plain("query", "reqMachInfo"), ListMachineInfo) }

OwnOps == Profile0Ops \union Profile1Ops \union RunningOrderOps \union ElementActionOps
            \union Profile3Ops \union Profile4Ops
Ops == OwnOps \union ForeignOps

-----------------------------------------------------------------------------
(* The rows of routeData, in the order it tries them.  A row is taken by a   *)
(* message with its tag, attribute and source, if its callback was set.      *)
(* reads tells how the elements get from the message to the callback.        *)
Row(tag, attribute, source, callback, reads, reply) ==
  [tag |-> tag, attribute |-> attribute, source |-> source,
   callback |-> callback, reads |-> reads, reply |-> reply]
Case(tag, callback, reads, reply) == Row(tag, Absent, Absent, callback, reads, reply)
ActionCase(operation, source, callback, reads) ==
  Row("roElementAction", operation, source, callback, reads, ROAck)

NoCallback == "none"

Profile0Rows == <<
  Case("heartbeat",   NoCallback,           "list",          HeartBeat.tag),
  Case("reqMachInfo", "RequestMachineInfo", "notOnQueryPort", ListMachineInfo) >>

Profile1Rows == <<
  Case("mosReqObj", "RequestMOSObject",     "list", MosObj.tag),
  Case("mosReqAll", "RequestAllMOSObjects", "list", MOSAck) >>

RunningOrderRows == <<
  Case("roCreate",          "CreateRunningOrder",  "list", ROAck),
  Case("roReplace",         "ReplaceRunningOrder", "list", ROAck),
  Case("roDelete",          "DeleteRunningOrder",  "list", ROAck),
  Case("roReq",             "RequestRunningOrder", "list", ROList),
  Case("roMetadataReplace", "MetadataReplace",     "list", ROAck),
  Row("roElementStat", "RO",    Absent, "RunningOrderStatus", "list", ROAck),
  Row("roElementStat", "STORY", Absent, "StoryStatus",        "list", ROAck),
  Row("roElementStat", "ITEM",  Absent, "ItemStatus",         "list", ROAck),
  Case("roReadyToAir",      "ReadyToAir",          "list", ROAck) >>

InsertRowsMutant == <<
  ActionCase("INSERT", "story", "ROInsertStories", "wrapped"),
  Case("roStoryAppend", "ROInsertStories", "wrapped", ROAck),
  ActionCase("INSERT", "item", "ROInsertItems", "list") >>

InsertRows == <<
  ActionCase("INSERT", "story", "ROInsertStories", "wrapped"),
  Case("roStoryAppend", "ROInsertStories", "wrapped", ROAck),
  Case("roStoryInsert", "ROInsertStories", "wrapped", ROAck),
  ActionCase("INSERT", "item", "ROInsertItems", "list") >>

ReplaceRows == <<
  ActionCase("REPLACE", "story", "ROReplaceStories", "wrapped"),
  Case("roStoryReplace", "ROReplaceStories", "wrapped", ROAck),
  ActionCase("REPLACE", "item", "ROReplaceItems", "list") >>

MoveRows == <<
  ActionCase("MOVE", "storyID", "ROMoveStories", "ids"),
  Case("roStoryMove", "RODeleteStories", "idList", ROAck),
  ActionCase("MOVE", "itemID", "ROMoveItems", "ids") >>

DeleteRows == <<
  ActionCase("DELETE", "storyID", "RODeleteStories", "ids"),
  Case("roStoryDelete", "RODeleteStories", "idList", ROAck),
  ActionCase("DELETE", "itemID", "RODeleteItems", "ids") >>

SwapRows == <<
  ActionCase("SWAP", "storyID", "ROSwapStories", "two"),
  ActionCase("SWAP", "itemID",  "ROSwapItems",   "two") >>

Profile3Rows == <<
  Case("mosItemReplace", "ItemReplace",  "itemReplace", ROAck),
  Case("mosObjCreate",   "ObjectCreate", "list",        MOSAck),
  Row("mosReqObjAction", "NEW",    Absent, "RequestObjectActionNew",    "list", MOSAck),
  Row("mosReqObjAction", "UPDATE", Absent, "RequestObjectActionUpdate", "list", MOSAck),
  Row("mosReqObjAction", "DELETE", Absent, "RequestObjectActionDelete", "list", MOSAck),
  Case("mosReqObjList",          "RequestObjectList",       "groups", MosObjList),
  Case("mosReqSearchableSchema", "RequestSearchableSchema", "list", MosListSearchableSchema) >>

Profile4Rows == <<
  Case("roReqAll",    "RequestAllRunningOrders", "list", ROListAll),
  Case("roStorySend", "RunningOrderStory",       "body", ROAck) >>

Rows == Profile0Rows \o Profile1Rows \o RunningOrderRows \o InsertRows \o ReplaceRows
          \o MoveRows \o DeleteRows \o SwapRows \o Profile3Rows \o Profile4Rows

Callbacks == {Rows[i].callback : i \in DOMAIN Rows} \ {NoCallback}

-----------------------------------------------------------------------------
(* _checkProfileValidness: the callbacks that a MOS device of a profile      *)
(* must have set.                                                            *)
RequiredCallbacks == <<
  {"RequestMachineInfo"},
  {"RequestMOSObject", "RequestAllMOSObjects"},
  {"CreateRunningOrder", "ReplaceRunningOrder", "DeleteRunningOrder",
   "RequestRunningOrder", "MetadataReplace", "RunningOrderStatus", "StoryStatus",
   "ItemStatus", "ReadyToAir", "ROInsertStories", "ROInsertItems",
   "ROReplaceStories", "ROReplaceItems", "ROMoveStories", "ROMoveItems",
   "RODeleteStories", "RODeleteItems", "ROSwapStories", "ROSwapItems"},
  {"ItemReplace", "ObjectCreate", "RequestObjectActionNew",
   "RequestObjectActionUpdate", "RequestObjectActionDelete", "RequestObjectList",
   "RequestSearchableSchema"},
  {"RequestAllRunningOrders", "RunningOrderStory"} >>
==============================================================================
