------------------------------- MODULE MCDevice -------------------------------
(* A device for TLC: a dialogue of two devices, or the transfers with which   *)
(* a device answers mosReqAll.  They share no state, so a behaviour has one   *)
(* of them.                                                                   *)
EXTENDS Dialogue, ObjectTransfer, TLC

VARIABLE part   \* the one this behaviour is about

deviceVars == <<part, vars, transferVars>>

DeviceInit ==
  \/ part = "dialogue" /\ Init /\ TransferInit /\ ~shared
  \/ part = "transfer" /\ Init /\ TransferInit /\ registered = Callbacks

DeviceNext ==
  \/ part = "dialogue" /\ Next /\ UNCHANGED <<part, transferVars>>
  \/ part = "transfer" /\ TransferNext /\ UNCHANGED <<part, vars>>

(* What is fair of each is disabled where it does not take part.             *)
DeviceSpec == DeviceInit /\ [][DeviceNext]_deviceVars /\ Fairness /\ TransferFairness

-----------------------------------------------------------------------------
(* The requests: every operation, with contents of at most two elements       *)
(* (three for ItemReplace, which has exactly three).                          *)
With(names, contents) == [op : {o \in Ops : o.name \in names}, elements : contents]

UpToTwo(E) == {<<>>} \union [{1} -> E] \union [{1, 2} -> E]

StoryOps == {"ROInsertStories", "ROReplaceStories", "StoryAppend", "StoryInsert", "StoryReplace"}
ItemOps  == {"ROInsertItems", "ROReplaceItems"}
IdOps    == {"ROMoveStories", "ROMoveItems", "RODeleteStories", "RODeleteItems",
             "StoryMove", "StoryDelete"}
SwapOps  == {"ROSwapStories", "ROSwapItems"}
OrderOps == {"CreateRunningOrder", "ReplaceRunningOrder"}
NoneOps  == {"HeartBeat", "RequestMachineInfo", "MachineInfoOnQueryPort",
             "RequestAllMOSObjects", "RequestAllRunningOrders"}
SingleOps == {o.name : o \in Ops} \ (StoryOps \union ItemOps \union IdOps \union SwapOps \union OrderOps
               \union NoneOps \union {"ItemReplace", "RunningOrderStory", "RequestObjectList"})

(* Texts that are numbers, one of them 0, and stories with nothing but an ID.  *)
Numbers     == "007" :> "7" @@ "00" :> "0"
BareStories == {"a bare one", "00"}

(* Every request of the model.                                               *)
AllRequests ==
  With(StoryOps \union ItemOps \union OrderOps \union {"RequestObjectList"}, UpToTwo({"a", "007"}))
    \union With(StoryOps, [{1} -> BareStories])
    \union With(IdOps, UpToTwo({"1", "007", "00"}))
    \union With(SwapOps, [{1, 2} -> {"1", "2"}])
    \union With({"RunningOrderStory"}, UpToTwo({StoryItem, "p"}))
    \union With({"ItemReplace"}, {<<"ro", "story", "item">>})
    \union With(SingleOps, {<<"007">>})
    \union With(NoneOps, {<<>>})

SomeLists == UpToTwo({"007"})

(* Every request of one device to the other is settled, and every transfer   *)
(* that has begun ends (Dialogue, ObjectTransfer).                           *)
EverythingEnds == EveryRequestSettles /\ TransfersEnd
=============================================================================
