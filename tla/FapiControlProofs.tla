------------------------- MODULE FapiControlProofs -------------------------
(*************************************************************************)
(* For any set of instances and any lists the MAC may send, disciplined  *)
(* or not: an instance in use keeps its own number (ActiveNamed),        *)
(* because only CONFIG.request of an IDLE instance sets it, only the     *)
(* clean-up clears it, and the clean-up clears the state next; records,  *)
(* threads, lists and channels keep their types (TypeOK).                *)
(*                                                                       *)
(* For a MAC that keeps to the state machine and sends at most one       *)
(* request in a slot's list: well-formed lists (HeaderFirst), agreement  *)
(* on the state (AgreesWithMac), all the tries before a stop is given up *)
(* (ErrorAfterAllTries) and requests under the right number              *)
(* (RequestNamesItsCarrier).  The invariant, CarefulInv, follows the one *)
(* request an instance has under way through the eight places it passes. *)
(*************************************************************************)
EXTENDS FapiControl, SequenceTheorems, FiniteSetTheorems, TLAPS

\* What appending, taking and joining do to the type of a sequence.
LEMMA AppendType ==
    ASSUME NEW S, NEW q \in Seq(S), NEW x \in S
    PROVE  Append(q, x) \in Seq(S)
  OBVIOUS

LEMMA JoinType ==
    ASSUME NEW S, NEW q \in Seq(S), NEW r \in Seq(S)
    PROVE  q \o r \in Seq(S)
  OBVIOUS

LEMMA TakeType ==
    ASSUME NEW S, NEW q \in Seq(S), q # <<>>
    PROVE  Head(q) \in S /\ Tail(q) \in Seq(S)
  OBVIOUS

LEMMA RestType ==
    ASSUME NEW S, NEW q \in Seq(S), Len(q) > 1
    PROVE  Tail(q) \in Seq(S) /\ Tail(q) # <<>>
  <1>0. Len(q) \in Nat /\ Len(<<>>) = 0
    BY LenProperties, EmptySeq
  <1>1. q # <<>> /\ Len(q) \in Nat
    BY <1>0
  <1>2. Tail(q) \in Seq(S) /\ Len(Tail(q)) = Len(q) - 1
    BY <1>1, HeadTailProperties
  <1>3. Len(Tail(q)) # 0
    BY <1>1, <1>2
  <1>4. Tail(q) # <<>>
    BY <1>0, <1>3
  <1> QED BY <1>2, <1>4

LEMMA InitNamed == Init => NamedInv
  <1> SUFFICES ASSUME Init PROVE NamedInv
    OBVIOUS
  <1> USE ControlAssumption DEF Init
  <1>1. NoList \in MacList
    BY DEF NoList, MacList
  <1>2. NoMsg \in FromPhyMsg
    BY DEF NoMsg, FromPhyMsg
  <1>3. RecordsOK
    BY DEF RecordsOK, MaxTries
  <1>4. Mac2PhyOK
    BY <1>1 DEF Mac2PhyOK
  <1>5. ChannelsOK
    BY DEF ChannelsOK
  <1>6. Phy2MacOK
    BY <1>2 DEF Phy2MacOK
  <1>7. ActiveNamed
    BY DEF ActiveNamed
  <1> QED BY <1>3, <1>4, <1>5, <1>6, <1>7 DEF NamedInv, CoreOK

(***************************************************************************)
(* Which steps touch what.                                                 *)
(***************************************************************************)
HandlerStep == ConfigRequest \/ StartRequest \/ StopRequest \/ ShutdownRequest

LEMMA RecordFrame ==
    [Next]_vars => \/ UNCHANGED inst
                   \/ M2PRecv \/ ConfigResponse \/ StartResponse \/ StopResponse
                   \/ ShutdownDone \/ ShutdownRetry \/ ShutdownGiveUp \/ CleanId \/ CleanState
  BY DEF Next, vars, Mac2Phy, Phy2Mac, MacSend, MacReceive, M2PRecv, M2POrder, Forward,
         ConfigRequest, StartRequest, StopRequest, ShutdownRequest, TtiRequest, ParamHeader,
         ParamAnswer, ParamSend, M2PSend, PhyAnswer, PhyTick, P2MRecv, RefuseAnswer,
         SlotIndication, P2MSend

LEMMA Mac2PhyFrame ==
    [Next]_vars => \/ UNCHANGED <<fromMac, m2p>>
                   \/ (\E p \in Phys : MacSend(p)) \/ M2PRecv \/ M2POrder \/ HandlerStep
                   \/ TtiRequest \/ ParamHeader \/ ParamAnswer \/ ParamSend \/ M2PSend
  BY DEF Next, vars, HandlerStep, Mac2Phy, Phy2Mac, MacReceive, PhyAnswer, PhyTick, P2MRecv,
         RefuseAnswer, ConfigResponse, StartResponse, StopResponse, ShutdownDone,
         ShutdownRetry, ShutdownGiveUp, CleanId, CleanState, SlotIndication, P2MSend

LEMMA ChannelFrame ==
    [Next]_vars => \/ UNCHANGED <<apiList, toPhy, fromPhy>>
                   \/ HandlerStep \/ M2PSend \/ PhyAnswer \/ PhyTick \/ P2MRecv
                   \/ StopResponse \/ ShutdownRetry
  BY DEF Next, vars, HandlerStep, Mac2Phy, Phy2Mac, MacSend, MacReceive, M2PRecv, M2POrder,
         TtiRequest, ParamHeader, ParamAnswer, ParamSend, RefuseAnswer, ConfigResponse,
         StartResponse, ShutdownDone, ShutdownGiveUp, CleanId, CleanState, SlotIndication,
         P2MSend

LEMMA Phy2MacFrame ==
    [Next]_vars => UNCHANGED p2m \/ Phy2Mac
  BY DEF Next, vars, Mac2Phy, MacSend, MacReceive, M2PRecv, M2POrder, Forward, ConfigRequest,
         StartRequest, StopRequest, ShutdownRequest, TtiRequest, ParamHeader, ParamAnswer,
         ParamSend, M2PSend, PhyAnswer, PhyTick

(***************************************************************************)
(* The records: only an answer that names its instance takes it out of     *)
(* IDLE, and only nr5g_fapi_clean takes the number away.                   *)
(***************************************************************************)
LEMMA RecordsStep == NamedInv /\ [Next]_vars => RecordsOK'
  <1> SUFFICES ASSUME NamedInv, [Next]_vars PROVE RecordsOK'
    OBVIOUS
  <1> USE DEF NamedInv, CoreOK, RecordsOK, Carrier
  <1>0. Carrier \in Phys
    BY DEF Phy2MacOK, FromPhyMsg
  <1>1. CASE UNCHANGED inst
    BY <1>1 DEF inst
  <1>2. CASE M2PRecv
    <2>1. Head(fromMac).phy \in Phys
      BY <1>2, TakeType DEF M2PRecv, Mac2PhyOK, SentList, MacList
    <2> QED BY <1>2, <2>1 DEF M2PRecv
  <1>3. CASE ConfigResponse
    BY <1>0, <1>3 DEF ConfigResponse
  <1>4. CASE StartResponse
    BY <1>0, <1>4 DEF StartResponse
  <1>5. CASE StopResponse
    BY <1>0, <1>5 DEF StopResponse
  <1>6. CASE ShutdownDone
    BY <1>0, <1>6 DEF ShutdownDone, MaxTries
  <1>7. CASE ShutdownRetry
    BY <1>0, <1>7 DEF ShutdownRetry, MaxTries
  <1>8. CASE ShutdownGiveUp
    BY <1>0, <1>8 DEF ShutdownGiveUp, MaxTries
  <1>9. CASE CleanId
    BY <1>0, <1>9, ControlAssumption DEF CleanId
  <1>10. CASE CleanState
    BY <1>0, <1>10 DEF CleanState
  <1> QED BY <1>1, <1>2, <1>3, <1>4, <1>5, <1>6, <1>7, <1>8, <1>9, <1>10, RecordFrame

LEMMA ActiveStep == NamedInv /\ [Next]_vars => ActiveNamed'
  <1> SUFFICES ASSUME NamedInv, [Next]_vars PROVE ActiveNamed'
    OBVIOUS
  <1> USE DEF NamedInv, CoreOK, RecordsOK, ActiveNamed, Carrier
  <1>0. Carrier \in Phys
    BY DEF Phy2MacOK, FromPhyMsg
  <1>1. CASE UNCHANGED inst
    <2>1. CASE UNCHANGED p2m
      BY <1>1, <2>1 DEF inst
    <2>2. CASE CleanState
      BY <1>0, <2>2 DEF CleanState
    <2>3. CASE Phy2Mac /\ ~CleanState
      <3>1. p2m.pc # "cleanState"
        BY <1>1, <2>3 DEF Phy2Mac, inst, P2MRecv, RefuseAnswer, ConfigResponse, StartResponse,
           StopResponse, Answering, ShutdownDone, ShutdownRetry, ShutdownGiveUp, CleanId,
           SlotIndication, P2MSend
      <3> QED BY <1>1, <3>1 DEF inst
    <2> QED BY <2>1, <2>2, <2>3, Phy2MacFrame
  <1>2. CASE M2PRecv
    <2>1. Head(fromMac).phy \in Phys
      BY <1>2, TakeType DEF M2PRecv, Mac2PhyOK, SentList, MacList
    <2> QED BY <1>2, <2>1 DEF M2PRecv
  <1>3. CASE ConfigResponse
    BY <1>0, <1>3 DEF ConfigResponse, Answering
  <1>4. CASE StartResponse
    BY <1>0, <1>4 DEF StartResponse, Answering
  <1>5. CASE StopResponse
    BY <1>0, <1>5 DEF StopResponse, Answering
  <1>6. CASE ShutdownDone
    BY <1>0, <1>6 DEF ShutdownDone, Answering
  <1>7. CASE ShutdownRetry
    BY <1>0, <1>7 DEF ShutdownRetry, Answering
  <1>8. CASE ShutdownGiveUp
    BY <1>0, <1>8 DEF ShutdownGiveUp, Answering
  <1>9. CASE CleanId
    BY <1>0, <1>9 DEF CleanId, Phy2MacOK
  <1>10. CASE CleanState
    BY <1>0, <1>10 DEF CleanState
  <1> QED BY <1>1, <1>2, <1>3, <1>4, <1>5, <1>6, <1>7, <1>8, <1>9, <1>10, RecordFrame

(***************************************************************************)
(* The list the mac2phy thread works on, and its loop.                     *)
(***************************************************************************)
LEMMA NextMessageType ==
    ASSUME Mac2PhyOK, m2p.list.msgs # <<>>, NextMessage
    PROVE  /\ m2p' \in [pc : {"handle", "send"}, list : MacList]
           /\ m2p'.pc = "handle" => m2p'.list.msgs # <<>>
  <1> USE DEF Mac2PhyOK, MacList
  <1>0. m2p.list.msgs \in Seq(Requests \cup P7)
    OBVIOUS
  <1>1. /\ Tail(m2p.list.msgs) \in Seq(Requests \cup P7)
        /\ Len(m2p.list.msgs) > 1 => Tail(m2p.list.msgs) # <<>>
    BY <1>0, TakeType, RestType
  <1> QED BY <1>1 DEF NextMessage

LEMMA Mac2PhyStep == NamedInv /\ [Next]_vars => Mac2PhyOK'
  <1> SUFFICES ASSUME NamedInv, [Next]_vars PROVE Mac2PhyOK'
    OBVIOUS
  <1> USE DEF NamedInv, CoreOK, Mac2PhyOK
  <1>1. CASE UNCHANGED <<fromMac, m2p>>
    BY <1>1
  <1>2. ASSUME NEW p \in Phys, MacSend(p) PROVE Mac2PhyOK'
    BY <1>2, ControlAssumption, AppendType DEF MacSend, SentList, MacList
  <1>3. CASE M2PRecv
    <2>1. Head(fromMac) \in SentList /\ Tail(fromMac) \in Seq(SentList)
      BY <1>3, TakeType DEF M2PRecv
    <2>2. NoList \in MacList
      BY ControlAssumption DEF NoList, MacList
    <2> QED BY <1>3, <2>1, <2>2 DEF M2PRecv, SentList
  <1>4. CASE M2POrder
    <2>1. NoList \in MacList
      BY ControlAssumption DEF NoList, MacList
    <2> QED BY <1>4, <2>1 DEF M2POrder
  <1>5. CASE HandlerStep \/ TtiRequest \/ ParamSend
    <2>1. NextMessage /\ UNCHANGED fromMac /\ m2p.list.msgs # <<>>
      BY <1>5 DEF HandlerStep, ConfigRequest, StartRequest, StopRequest, ShutdownRequest,
         Forward, Handling, TtiRequest, ParamSend
    <2> QED BY <2>1, NextMessageType
  <1>6. CASE ParamHeader \/ ParamAnswer
    BY <1>6 DEF ParamHeader, ParamAnswer, Handling
  <1>7. CASE M2PSend
    BY <1>7, ControlAssumption DEF M2PSend, NoList, MacList
  <1> QED BY <1>1, <1>2, <1>3, <1>4, <1>5, <1>6, <1>7, Mac2PhyFrame

(***************************************************************************)
(* The channels to and from the PHY.                                       *)
(***************************************************************************)
LEMMA ChannelsStep == NamedInv /\ [Next]_vars => ChannelsOK'
  <1> SUFFICES ASSUME NamedInv, [Next]_vars PROVE ChannelsOK'
    OBVIOUS
  <1> USE DEF NamedInv, CoreOK, ChannelsOK
  <1>0. Carrier \in Phys
    BY DEF Phy2MacOK, FromPhyMsg, Carrier
  <1>1. CASE UNCHANGED <<apiList, toPhy, fromPhy>>
    BY <1>1
  <1>2. CASE HandlerStep
    <2>1. phyId[m2p.list.phy] \in Phys
      BY DEF RecordsOK, Mac2PhyOK, MacList
    <2>2. UNCHANGED <<toPhy, fromPhy>>
      BY <1>2 DEF HandlerStep, ConfigRequest, StartRequest, StopRequest, ShutdownRequest, Forward
    <2>3. \/ UNCHANGED apiList
          \/ \E t \in {"CONFIG", "START", "STOP", "SHUTDOWN"} :
               apiList' = Append(apiList, [type |-> t, idx |-> phyId[m2p.list.phy]])
      BY <1>2 DEF HandlerStep, ConfigRequest, StartRequest, StopRequest, ShutdownRequest, Forward
    <2> QED BY <2>1, <2>2, <2>3, AppendType DEF ToPhyMsg
  <1>3. CASE M2PSend
    BY <1>3, JoinType DEF M2PSend, SendApiList
  <1>4. CASE PhyAnswer
    <2>1. Head(toPhy) \in ToPhyMsg /\ Tail(toPhy) \in Seq(ToPhyMsg)
      BY <1>4, TakeType DEF PhyAnswer
    <2>2. PICK status \in {"ok", "error", "other"} :
            LET m == Head(toPhy)
                r == [type |-> m.type, idx |-> m.idx, status |-> status]
                slot == [type |-> "SLOT", idx |-> m.idx, status |-> "ok"]
            IN  fromPhy' = fromPhy \o IF m.type = "START" /\ status = "ok"
                                     THEN <<r, slot>> ELSE <<r>>
      BY <1>4 DEF PhyAnswer, Statuses
    <2>3. fromPhy' \in Seq(FromPhyMsg)
      <3> DEFINE r == [type |-> Head(toPhy).type, idx |-> Head(toPhy).idx, status |-> status]
                 slot == [type |-> "SLOT", idx |-> Head(toPhy).idx, status |-> "ok"]
                 told == IF Head(toPhy).type = "START" /\ status = "ok" THEN <<r, slot>> ELSE <<r>>
      <3>1. r \in FromPhyMsg /\ slot \in FromPhyMsg
        BY <2>1 DEF ToPhyMsg, FromPhyMsg
      <3> HIDE DEF r, slot
      <3>2. told \in Seq(FromPhyMsg)
        BY <3>1
      <3> HIDE DEF told
      <3>3. fromPhy' = fromPhy \o told
        BY <2>2 DEF told, r, slot
      <3> QED BY <3>2, <3>3, JoinType
    <2> QED BY <1>4, <2>1, <2>3 DEF PhyAnswer
  <1>5. CASE PhyTick
    BY <1>5 DEF PhyTick, FromPhyMsg
  <1>6. CASE P2MRecv
    BY <1>6, TakeType DEF P2MRecv
  <1>7. CASE StopResponse \/ ShutdownRetry
    <2>1. [type |-> "SHUTDOWN", idx |-> Carrier] \in ToPhyMsg
      BY <1>0 DEF ToPhyMsg
    <2>2. Append(apiList, [type |-> "SHUTDOWN", idx |-> Carrier]) \in Seq(ToPhyMsg)
      BY <2>1, AppendType
    <2>3. UNCHANGED fromPhy /\ (AskShutdown \/ UNCHANGED <<apiList, toPhy>>)
      BY <1>7 DEF StopResponse, ShutdownRetry
    <2>4. CASE AskShutdown
      <3>1. /\ toPhy' = toPhy \o Append(apiList, [type |-> "SHUTDOWN", idx |-> Carrier])
            /\ apiList' = <<>>
        BY <2>4 DEF AskShutdown, SendApiList
      <3>2. toPhy' \in Seq(ToPhyMsg)
        BY <2>2, <3>1, JoinType
      <3> QED BY <2>3, <3>1, <3>2
    <2>5. CASE UNCHANGED <<apiList, toPhy>>
      BY <2>3, <2>5
    <2> QED BY <2>3, <2>4, <2>5
  <1> QED BY <1>1, <1>2, <1>3, <1>4, <1>5, <1>6, <1>7, ChannelFrame

LEMMA Phy2MacStep == NamedInv /\ [Next]_vars => Phy2MacOK'
  <1> SUFFICES ASSUME NamedInv, [Next]_vars PROVE Phy2MacOK'
    OBVIOUS
  <1> USE DEF NamedInv, CoreOK, Phy2MacOK
  <1>1. CASE UNCHANGED p2m
    BY <1>1
  <1>2. CASE P2MRecv
    BY <1>2, TakeType DEF P2MRecv, ChannelsOK
  <1>3. CASE P2MSend
    BY <1>3, ControlAssumption DEF P2MSend, NoMsg, FromPhyMsg
  <1>4. CASE ShutdownDone \/ CleanId
    BY <1>4 DEF ShutdownDone, CleanId
  <1>5. CASE \/ RefuseAnswer \/ ConfigResponse \/ StartResponse \/ StopResponse
             \/ ShutdownRetry \/ ShutdownGiveUp \/ CleanState \/ SlotIndication
    BY <1>5 DEF RefuseAnswer, ConfigResponse, StartResponse, StopResponse, ShutdownRetry,
       ShutdownGiveUp, CleanState, SlotIndication, Handled
  <1> QED BY <1>1, <1>2, <1>3, <1>4, <1>5, Phy2MacFrame DEF Phy2Mac

-----------------------------------------------------------------------------
\* The inductive invariant: the types of the records, threads and channels, and
\* the numbers of the instances in use.
THEOREM NamedInvariant == Spec => []NamedInv
  <1>1. NamedInv /\ [Next]_vars => NamedInv'
    BY RecordsStep, ActiveStep, Mac2PhyStep, ChannelsStep, Phy2MacStep DEF NamedInv, CoreOK
  <1> QED BY InitNamed, <1>1, PTL DEF Spec

\* An instance that is not IDLE carries its own number except between the two
\* writes of nr5g_fapi_clean, whatever the MAC sends and whenever.
THEOREM ActiveNumbered == Spec => []ActiveNamed
  <1>1. NamedInv => ActiveNamed
    BY DEF NamedInv
  <1> QED BY NamedInvariant, <1>1, PTL

\* The records of the instances and the threads keep their types; in
\* particular no instance is shut down more often than the limit.
THEOREM CoreTypeCorrect == Spec => []CoreOK
  <1>1. NamedInv => CoreOK
    BY DEF NamedInv
  <1> QED BY NamedInvariant, <1>1, PTL
-----------------------------------------------------------------------------
(***************************************************************************)
(* The lists towards the MAC, and the MAC.                                 *)
(***************************************************************************)
Message == Answers \cup {"HEADER"}

ListsOK ==
    /\ sendList \in [Phys -> Seq(Message)]
    /\ toMac \in Seq(Segment)

MacOK ==
    /\ macState \in [Phys -> {"IDLE", "CONFIGURED", "RUNNING"}]
    /\ pending \in [Phys -> Requests \cup {"none"}]
    /\ sent \in 0..MaxLists /\ careless \in 0..MaxCareless
    /\ refusals \in [Phys -> 0..MaxTries + 2]

LEMMA TypeParts == TypeOK <=> CoreOK /\ ListsOK /\ MacOK
  BY DEF TypeOK, ListsOK, MacOK, Message

LEMMA AnswersListed ==
    /\ {"CONFIG_RESP", "CONFIG_FAIL", "PARAM_RESP", "SLOT_IND", "STOP_IND", "HEADER",
        "ERROR_START", "ERROR_STOP", "ERROR_SHUTDOWN"} = Message
  BY DEF Message, Answers, Errors

LEMMA PhysFinite == IsFiniteSet(Phys) /\ Phys \subseteq Nat
  <1>1. IsFiniteSet(0..23)
    BY 0 \in Int, 23 \in Int, FS_Interval, Zenon
  <1>2. Phys \in SUBSET (0..23) /\ Phys \subseteq Nat
    BY ControlAssumption
  <1> QED BY <1>1, <1>2, FS_Subset

\* What is added to an instance's list.
LEMMA AddType ==
    ASSUME NEW q \in [Phys -> Seq(Message)], NEW p \in Phys, NEW ms \in Seq(Message)
    PROVE  AddToMac(q, p, ms) \in [Phys -> Seq(Message)]
  <1>1. q[p] \o ms \in Seq(Message)
    BY JoinType
  <1> QED BY <1>1 DEF AddToMac

\* Sending the lists.
LEMMA SendType ==
    ASSUME ListsOK, SendMacLists PROVE ListsOK'
  <1> DEFINE n == Cardinality(Committed)
  <1>1. n \in Nat
    <2>1. Committed \subseteq Phys
      BY DEF Committed
    <2> QED BY <2>1, PhysFinite, FS_Subset, FS_CardinalityType
  <1>2. PICK order \in Ascending(Committed) :
           toMac' = IF Dropped THEN toMac
                    ELSE toMac \o [i \in 1..n |->
                                     [phy |-> order[i], msgs |-> sendList[order[i]]]]
    BY DEF SendMacLists
  <1> HIDE DEF n
  <1>3. order \in [1..n -> Phys]
    BY DEF Ascending, Committed, n
  <1> DEFINE segs == [i \in 1..n |-> [phy |-> order[i], msgs |-> sendList[order[i]]]]
  <1>4. segs \in Seq(Segment)
    <2>1. \A i \in 1..n : [phy |-> order[i], msgs |-> sendList[order[i]]] \in Segment
      BY <1>3 DEF ListsOK, Segment, Message
    <2> QED BY <1>1, <2>1
  <1> HIDE DEF segs
  <1>5. toMac' = toMac \/ toMac' = toMac \o segs
    BY <1>2 DEF segs
  <1>6. toMac' \in Seq(Segment)
    BY <1>4, <1>5, JoinType DEF ListsOK
  <1>7. sendList' = [p \in Phys |-> <<>>]
    BY DEF SendMacLists
  <1>8. <<>> \in Seq(Message)
    OBVIOUS
  <1> QED BY <1>6, <1>7, <1>8 DEF ListsOK

LEMMA ListsFrame ==
    [Next]_vars => \/ UNCHANGED <<sendList, toMac>>
                   \/ MacReceive \/ ParamHeader \/ ParamAnswer \/ ParamSend \/ P2MRecv
                   \/ ConfigResponse \/ StartResponse \/ StopResponse \/ ShutdownDone
                   \/ ShutdownGiveUp \/ SlotIndication \/ P2MSend
  BY DEF Next, vars, Mac2Phy, Phy2Mac, MacSend, M2PRecv, M2POrder, ConfigRequest, StartRequest,
         StopRequest, ShutdownRequest, Forward, TtiRequest, M2PSend, PhyAnswer, PhyTick,
         RefuseAnswer, ShutdownRetry, CleanId, CleanState

LEMMA ListsStep == CoreOK /\ ListsOK /\ [Next]_vars => ListsOK'
  <1> SUFFICES ASSUME CoreOK, ListsOK, [Next]_vars PROVE ListsOK'
    OBVIOUS
  <1> USE AnswersListed
  <1>0. Carrier \in Phys /\ phyId[m2p.list.phy] \in Phys
    BY DEF CoreOK, RecordsOK, Mac2PhyOK, MacList, Phy2MacOK, FromPhyMsg, Carrier
  <1>1. ASSUME NEW p \in Phys, NEW ms \in Seq(Message), sendList' = AddToMac(sendList, p, ms),
               toMac' = toMac
        PROVE  ListsOK'
    BY <1>1, AddType DEF ListsOK
  <1>2. CASE MacReceive
    BY <1>2, TakeType DEF MacReceive, ListsOK
  <1>3. CASE ParamHeader \/ ParamAnswer
    <2>1. /\ <<"HEADER">> \in Seq(Message) /\ <<"PARAM_RESP">> \in Seq(Message)
      OBVIOUS
    <2> QED BY <1>0, <1>1, <1>3, <2>1 DEF ParamHeader, ParamAnswer
  <1>4. CASE ParamSend \/ P2MSend
    BY <1>4, SendType DEF ParamSend, P2MSend
  <1>5. CASE P2MRecv
    <2>1. \A p \in Phys : Append(sendList[p], "HEADER") \in Seq(Message)
      BY AppendType DEF ListsOK
    <2> QED BY <1>5, <2>1 DEF P2MRecv, ListsOK
  <1>6. CASE SlotIndication
    <2>1. \A p \in Phys : Append(sendList[p], "SLOT_IND") \in Seq(Message)
      BY AppendType DEF ListsOK
    <2> QED BY <1>6, <2>1 DEF SlotIndication, ListsOK
  <1>7. CASE ConfigResponse
    <2>1. /\ <<"HEADER", "CONFIG_RESP">> \in Seq(Message)
          /\ <<"HEADER", "CONFIG_FAIL">> \in Seq(Message)
          /\ <<"CONFIG_RESP">> \in Seq(Message) /\ <<"CONFIG_FAIL">> \in Seq(Message)
      OBVIOUS
    <2>2. PICK ms \in Seq(Message) : sendList' = AddToMac(sendList, Carrier, ms)
      BY <1>7, <2>1 DEF ConfigResponse
    <2> QED BY <1>0, <1>1, <1>7, <2>2 DEF ConfigResponse
  <1>8. CASE StartResponse \/ StopResponse \/ ShutdownDone \/ ShutdownGiveUp
    <2>1. /\ <<"ERROR_START">> \in Seq(Message) /\ <<"ERROR_STOP">> \in Seq(Message)
          /\ <<"STOP_IND">> \in Seq(Message) /\ <<"ERROR_SHUTDOWN">> \in Seq(Message)
      OBVIOUS
    <2>2. toMac' = toMac
      BY <1>8 DEF StartResponse, StopResponse, ShutdownDone, ShutdownGiveUp
    <2>3. \/ sendList' = sendList
          \/ \E ms \in Seq(Message) : sendList' = AddToMac(sendList, Carrier, ms)
      BY <1>8, <2>1 DEF StartResponse, StopResponse, ShutdownDone, ShutdownGiveUp
    <2> QED BY <1>0, <1>1, <2>2, <2>3 DEF ListsOK
  <1>9. CASE UNCHANGED <<sendList, toMac>>
    BY <1>9 DEF ListsOK
  <1> QED BY <1>2, <1>3, <1>4, <1>5, <1>6, <1>7, <1>8, <1>9, ListsFrame

LEMMA MacFrame ==
    [Next]_vars => UNCHANGED mac \/ MacReceive \/ PhyAnswer \/ \E p \in Phys : MacSend(p)
  BY DEF Next, vars, mac, Mac2Phy, Phy2Mac, M2PRecv, M2POrder, ConfigRequest, StartRequest,
         StopRequest, ShutdownRequest, Forward, TtiRequest, ParamHeader, ParamAnswer, ParamSend,
         M2PSend, PhyTick, P2MRecv, RefuseAnswer, ConfigResponse, StartResponse,
         StopResponse, ShutdownDone, ShutdownRetry, ShutdownGiveUp, CleanId, CleanState,
         SlotIndication, P2MSend

LEMMA MacStep == ChannelsOK /\ ListsOK /\ MacOK /\ [Next]_vars => MacOK'
  <1> SUFFICES ASSUME ChannelsOK, ListsOK, MacOK, [Next]_vars PROVE MacOK'
    OBVIOUS
  <1>1. ASSUME NEW p \in Phys, MacSend(p) PROVE MacOK'
    <2>1. PICK l \in Lists, v \in BOOLEAN :
             /\ careless' = IF Careful(p, l, v) THEN careless ELSE careless + 1
             /\ careless' <= MaxCareless
             /\ pending' = [pending EXCEPT ![p] = RequestIn(l)]
      BY <1>1 DEF MacSend
    <2>2. RequestIn(l) \in Requests \cup {"none"}
      BY DEF RequestIn
    <2>3. pending' \in [Phys -> Requests \cup {"none"}]
      BY <2>1, <2>2 DEF MacOK
    <2>4. careless' \in 0..MaxCareless
      BY <2>1, ControlAssumption DEF MacOK
    <2>5. sent' \in 0..MaxLists /\ macState' = macState /\ refusals' = refusals
      BY <1>1, ControlAssumption DEF MacSend, MacOK
    <2> QED BY <2>3, <2>4, <2>5 DEF MacOK
  <1>2. CASE MacReceive
    <2> DEFINE p == Head(toMac).phy
               ms == ToSet(Head(toMac).msgs)
               view == View(macState[p], pending[p], ms)
               wait == IF Ends(pending[p]) \cap ms # {} THEN "none" ELSE pending[p]
               rest == IF Ends(pending[p]) \cap ms # {} THEN 0 ELSE refusals[p]
    <2>1. p \in Phys
      <3>1. toMac \in Seq(Segment) /\ toMac # <<>>
        BY <1>2 DEF MacReceive, ListsOK
      <3>2. Head(toMac) \in Segment
        BY <3>1, TakeType
      <3> QED BY <3>2 DEF Segment
    <2>2. /\ macState' = [macState EXCEPT ![p] = view]
          /\ pending' = [pending EXCEPT ![p] = wait]
          /\ refusals' = [refusals EXCEPT ![p] = rest]
          /\ sent' = sent /\ careless' = careless
      BY <1>2 DEF MacReceive
    <2>3. view \in {"IDLE", "CONFIGURED", "RUNNING"} /\ wait \in Requests \cup {"none"}
      BY <2>1 DEF View, MacOK
    <2>4. rest \in 0..MaxTries + 2
      BY <2>1 DEF MacOK, MaxTries
    <2> HIDE DEF p, view, wait, rest
    <2> QED BY <2>1, <2>2, <2>3, <2>4 DEF MacOK
  <1>3. CASE PhyAnswer
    <2>1. toPhy # <<>> /\ toPhy \in Seq(ToPhyMsg)
      BY <1>3 DEF PhyAnswer, ChannelsOK
    <2>2. Head(toPhy) \in ToPhyMsg
      BY <2>1, TakeType
    <2>3. careless' \in 0..MaxCareless /\ UNCHANGED <<macState, pending, sent>>
      BY <1>3, ControlAssumption DEF PhyAnswer, MacOK
    <2>4. refusals' \in [Phys -> 0..MaxTries + 2]
      <3>1. PICK q \in Phys : q = Head(toPhy).idx
        BY <2>2 DEF ToPhyMsg
      <3>2. \/ refusals' = refusals
            \/ refusals[q] <= MaxTries + 1 /\ refusals' = [refusals EXCEPT ![q] = @ + 1]
        BY <1>3, <3>1 DEF PhyAnswer
      <3> QED BY <3>2 DEF MacOK, MaxTries
    <2> QED BY <2>3, <2>4 DEF MacOK
  <1>4. CASE UNCHANGED mac
    BY <1>4 DEF mac, MacOK
  <1> QED BY <1>1, <1>2, <1>3, <1>4, MacFrame

LEMMA InitListsMac == Init => ListsOK /\ MacOK
  <1>1. <<>> \in Seq(Message) /\ <<>> \in Seq(Segment)
    OBVIOUS
  <1> QED BY <1>1, ControlAssumption DEF Init, ListsOK, MacOK, MaxTries

\* Everything keeps its type, the lists towards the MAC and the MAC's own view
\* included, whatever lists the MAC sends.
THEOREM ControlTypeCorrect == Spec => []TypeOK
  <1>1. CoreOK /\ ListsOK /\ MacOK /\ [Next]_vars => ListsOK' /\ MacOK'
    BY ListsStep, MacStep DEF CoreOK
  <1>2. Spec => [](ListsOK /\ MacOK)
    BY <1>1, InitListsMac, CoreTypeCorrect, PTL DEF Spec
  <1>3. CoreOK /\ ListsOK /\ MacOK => TypeOK
    BY TypeParts
  <1> QED BY <1>2, <1>3, CoreTypeCorrect, PTL
-----------------------------------------------------------------------------
\* A sequence has at most one member of a set.
Single(q, S) == \A i, j \in DOMAIN q : q[i] \in S /\ q[j] \in S => i = j

LEMMA SetOfAppend ==
    ASSUME NEW R, NEW q \in Seq(R), NEW x \in R
    PROVE  ToSet(Append(q, x)) = ToSet(q) \cup {x}
  <1>1. DOMAIN Append(q, x) = 1..(Len(q) + 1) /\ DOMAIN q = 1..Len(q) /\ Len(q) \in Nat
    OBVIOUS
  <1>2. \A i \in 1..Len(q) : Append(q, x)[i] = q[i]
    OBVIOUS
  <1>3. Append(q, x)[Len(q) + 1] = x
    OBVIOUS
  <1>4. ASSUME NEW y \in ToSet(Append(q, x)) PROVE y \in ToSet(q) \cup {x}
    <2>1. PICK i \in 1..(Len(q) + 1) : y = Append(q, x)[i]
      BY <1>1 DEF ToSet
    <2>2. CASE i \in 1..Len(q)
      BY <1>1, <1>2, <2>1, <2>2 DEF ToSet
    <2>3. CASE i = Len(q) + 1
      BY <1>3, <2>1, <2>3
    <2> QED BY <1>1, <2>2, <2>3
  <1>5. ASSUME NEW y \in ToSet(q) PROVE y \in ToSet(Append(q, x))
    <2>1. PICK i \in 1..Len(q) : y = q[i]
      BY <1>1 DEF ToSet
    <2>2. i \in DOMAIN Append(q, x) /\ Append(q, x)[i] = y
      BY <1>1, <1>2, <2>1
    <2> QED BY <2>2 DEF ToSet
  <1>6. x \in ToSet(Append(q, x))
    <2>1. Len(q) + 1 \in DOMAIN Append(q, x)
      BY <1>1
    <2> QED BY <1>3, <2>1 DEF ToSet
  <1> QED BY <1>4, <1>5, <1>6

LEMMA SetOfTail ==
    ASSUME NEW R, NEW q \in Seq(R), q # <<>>
    PROVE  ToSet(q) = {Head(q)} \cup ToSet(Tail(q))
  <1>1. DOMAIN Tail(q) = 1..(Len(q) - 1) /\ DOMAIN q = 1..Len(q) /\ Len(q) \in Nat /\ Len(q) > 0
    OBVIOUS
  <1>2. Head(q) = q[1] /\ \A i \in 1..(Len(q) - 1) : Tail(q)[i] = q[i + 1]
    OBVIOUS
  <1>3. ASSUME NEW y \in ToSet(q) PROVE y \in {Head(q)} \cup ToSet(Tail(q))
    <2>1. PICK i \in 1..Len(q) : y = q[i]
      BY <1>1 DEF ToSet
    <2>2. CASE i = 1
      BY <1>2, <2>1, <2>2
    <2>3. CASE i # 1
      <3>1. i - 1 \in DOMAIN Tail(q) /\ Tail(q)[i - 1] = y
        BY <1>1, <1>2, <2>1, <2>3
      <3> QED BY <3>1 DEF ToSet
    <2> QED BY <2>2, <2>3
  <1>4. Head(q) \in ToSet(q)
    BY <1>1, <1>2 DEF ToSet
  <1>5. ASSUME NEW y \in ToSet(Tail(q)) PROVE y \in ToSet(q)
    <2>1. PICK i \in 1..(Len(q) - 1) : y = Tail(q)[i]
      BY <1>1 DEF ToSet
    <2>2. i + 1 \in DOMAIN q /\ q[i + 1] = y
      BY <1>1, <1>2, <2>1
    <2> QED BY <2>2 DEF ToSet
  <1> QED BY <1>3, <1>4, <1>5

LEMMA SetOfJoin ==
    ASSUME NEW R, NEW q \in Seq(R), NEW r \in Seq(R)
    PROVE  ToSet(q \o r) = ToSet(q) \cup ToSet(r)
  <1>1. /\ DOMAIN (q \o r) = 1..(Len(q) + Len(r)) /\ DOMAIN q = 1..Len(q) /\ DOMAIN r = 1..Len(r)
        /\ Len(q) \in Nat /\ Len(r) \in Nat
    OBVIOUS
  <1>2. /\ \A i \in 1..Len(q) : (q \o r)[i] = q[i]
        /\ \A i \in 1..Len(r) : (q \o r)[Len(q) + i] = r[i]
    OBVIOUS
  <1>3. ASSUME NEW y \in ToSet(q \o r) PROVE y \in ToSet(q) \cup ToSet(r)
    <2>1. PICK i \in 1..(Len(q) + Len(r)) : y = (q \o r)[i]
      BY <1>1 DEF ToSet
    <2>2. CASE i \in 1..Len(q)
      BY <1>1, <1>2, <2>1, <2>2 DEF ToSet
    <2>3. CASE i \notin 1..Len(q)
      <3>1. i - Len(q) \in 1..Len(r) /\ Len(q) + (i - Len(q)) = i
        BY <1>1, <2>3
      <3>2. r[i - Len(q)] = y
        BY <1>2, <2>1, <3>1
      <3> QED BY <1>1, <3>1, <3>2 DEF ToSet
    <2> QED BY <2>2, <2>3
  <1>4. ASSUME NEW y \in ToSet(q) PROVE y \in ToSet(q \o r)
    <2>1. PICK i \in 1..Len(q) : y = q[i]
      BY <1>1 DEF ToSet
    <2>2. i \in DOMAIN (q \o r) /\ (q \o r)[i] = y
      BY <1>1, <1>2, <2>1
    <2> QED BY <2>2 DEF ToSet
  <1>5. ASSUME NEW y \in ToSet(r) PROVE y \in ToSet(q \o r)
    <2>1. PICK i \in 1..Len(r) : y = r[i]
      BY <1>1 DEF ToSet
    <2>2. Len(q) + i \in DOMAIN (q \o r) /\ (q \o r)[Len(q) + i] = y
      BY <1>1, <1>2, <2>1
    <2> QED BY <2>2 DEF ToSet
  <1> QED BY <1>3, <1>4, <1>5

LEMMA SingleAppend ==
    ASSUME NEW R, NEW q \in Seq(R), NEW x \in R, NEW S, Single(q, S),
           x \notin S \/ ToSet(q) \cap S = {}
    PROVE  Single(Append(q, x), S)
  <1> SUFFICES ASSUME NEW i \in DOMAIN Append(q, x), NEW j \in DOMAIN Append(q, x),
                      Append(q, x)[i] \in S, Append(q, x)[j] \in S
               PROVE  i = j
    BY DEF Single
  <1>1. \A k \in DOMAIN Append(q, x) : \/ k = Len(q) + 1 /\ Append(q, x)[k] = x
                                       \/ k \in DOMAIN q /\ Append(q, x)[k] = q[k]
    OBVIOUS
  <1>2. \A k \in DOMAIN q : q[k] \in S => x \notin S
    BY DEF ToSet
  <1> QED BY <1>1, <1>2 DEF Single

LEMMA SingleTail ==
    ASSUME NEW R, NEW q \in Seq(R), q # <<>>, NEW S, Single(q, S)
    PROVE  Single(Tail(q), S) /\ (Head(q) \in S => ToSet(Tail(q)) \cap S = {})
  <1>1. DOMAIN Tail(q) = 1..(Len(q) - 1) /\ DOMAIN q = 1..Len(q) /\ Len(q) \in Nat /\ Len(q) > 0
    OBVIOUS
  <1>2. Head(q) = q[1] /\ \A i \in 1..(Len(q) - 1) : Tail(q)[i] = q[i + 1]
    OBVIOUS
  <1>3. Single(Tail(q), S)
    BY <1>1, <1>2 DEF Single
  <1>4. ASSUME Head(q) \in S, NEW y \in ToSet(Tail(q)), y \in S PROVE FALSE
    <2>1. PICK i \in 1..(Len(q) - 1) : y = Tail(q)[i]
      BY <1>1, <1>4 DEF ToSet
    <2>2. i + 1 \in DOMAIN q /\ q[i + 1] \in S /\ 1 \in DOMAIN q /\ q[1] \in S /\ i + 1 # 1
      BY <1>1, <1>2, <1>4, <2>1
    <2> QED BY <2>2 DEF Single
  <1> QED BY <1>3, <1>4

LEMMA SingleJoin ==
    ASSUME NEW R, NEW q \in Seq(R), NEW r \in Seq(R), NEW S, Single(q, S), Single(r, S),
           ToSet(q) \cap S = {} \/ ToSet(r) \cap S = {}
    PROVE  Single(q \o r, S)
  <1> SUFFICES ASSUME NEW i \in DOMAIN (q \o r), NEW j \in DOMAIN (q \o r),
                      (q \o r)[i] \in S, (q \o r)[j] \in S
               PROVE  i = j
    BY DEF Single
  <1>1. \A k \in DOMAIN (q \o r) : \/ k \in DOMAIN q /\ (q \o r)[k] = q[k]
                                   \/ k - Len(q) \in DOMAIN r /\ (q \o r)[k] = r[k - Len(q)]
    OBVIOUS
  <1>2. \A k \in DOMAIN q, l \in DOMAIN r : ~(q[k] \in S /\ r[l] \in S)
    BY DEF ToSet
  <1>3. i \in Int /\ j \in Int /\ Len(q) \in Int
    OBVIOUS
  <1>4. i - Len(q) = j - Len(q) => i = j
    BY <1>3
  <1> QED BY <1>1, <1>2, <1>4 DEF Single

(***************************************************************************)
(* While the MAC is careful, an instance has at most one request under way *)
(* (its token): in a list of the MAC, in the mac2phy thread's hand, with   *)
(* the PHY, in the phy2mac thread's hand, or answered and not yet seen by  *)
(* the MAC.  Each place is the set of requests, or of final answers, that  *)
(* are there for p.                                                        *)
(***************************************************************************)
ApiQueue == toPhy \o apiList
Finals == Answers \ {"SLOT_IND"}

Requesting(p)  == {l \in SentList : l.phy = p /\ ToSet(l.msgs) \cap Requests # {}}
ToCarrier(p)   == {m \in ToPhyMsg : m.idx = p}
FromCarrier(p) == {m \in FromPhyMsg : m.idx = p /\ m.type # "SLOT"}
Final(p, a)    == [phy |-> p, msgs |-> <<"HEADER", a>>]
Ending(p)      == {Final(p, a) : a \in Finals}

Asked(p)     == {r \in Requests : \E l \in ToSet(fromMac) : l.phy = p /\ r \in ToSet(l.msgs)}
InHand(p)    == {r \in Requests : /\ m2p.pc \in {"order", "handle"}
                                  /\ m2p.list.phy = p /\ r \in ToSet(m2p.list.msgs)}
Passed(p)    == {r \in Requests : \E m \in ToSet(ApiQueue) : m.idx = p /\ m.type = r}
Returned(p)  == {r \in Requests : \E m \in ToSet(fromPhy) : m.idx = p /\ m.type = r}
AtHandler(p) == {r \in Requests : p2m.pc = "handle" /\ p2m.msg.idx = p /\ p2m.msg.type = r}
Queued(p)    == {a \in Finals : sendList[p] = <<"HEADER", a>>}
Told(p)      == {a \in Finals : Final(p, a) \in ToSet(toMac)}

Underway(p) == Asked(p) \cup InHand(p) \cup Passed(p) \cup Returned(p) \cup AtHandler(p)
Decided(p) == Queued(p) \cup Told(p)

OnePlace(p) ==
    /\ Asked(p) # {} => InHand(p) \cup Passed(p) \cup Returned(p) \cup AtHandler(p) = {}
    /\ InHand(p) # {} => Passed(p) \cup Returned(p) \cup AtHandler(p) = {}
    /\ Passed(p) # {} => Returned(p) \cup AtHandler(p) = {}
    /\ Returned(p) # {} => AtHandler(p) = {}
    /\ Underway(p) # {} => Decided(p) = {}
    /\ Queued(p) # {} => Told(p) = {}

OneEach(p) ==
    /\ Single(fromMac, Requesting(p)) /\ Single(ApiQueue, ToCarrier(p))
    /\ Single(fromPhy, FromCarrier(p)) /\ Single(toMac, Ending(p))

Goes(r, p) ==
    \/ /\ pending[p] = r /\ macState[p] = state[p]
       /\ r = "START" => state[p] = "CONFIGURED"
       /\ r = "STOP" => state[p] = "RUNNING"
       /\ r = "SHUTDOWN" => state[p] # "IDLE"
    \/ r = "SHUTDOWN" /\ pending[p] = "STOP" /\ macState[p] = "RUNNING" /\ state[p] = "CONFIGURED"

Cleaning(p) == p2m.pc \in {"cleanId", "cleanState"} /\ Carrier = p

EndFits(a, p) ==
    /\ a \in Ends(pending[p])
    /\ a = "ERROR_START" => state[p] = "CONFIGURED"
    /\ \/ View(macState[p], pending[p], {"HEADER", a}) = state[p]
       \/ a = "STOP_IND" /\ Cleaning(p) /\ Goes("SHUTDOWN", p)

Settled(p) ==
    \/ macState[p] = state[p]
    \/ pending[p] = "START" /\ macState[p] = "CONFIGURED" /\ state[p] = "RUNNING"

Token(p) ==
    /\ OnePlace(p) /\ OneEach(p)
    /\ \A r \in Underway(p) : Goes(r, p)
    /\ \A a \in Decided(p) : EndFits(a, p)
    /\ InHand(p) # {} => phyId[p] = p
    /\ Underway(p) = {} /\ Decided(p) = {} => Settled(p)

\* The lists of a careful MAC.
Shape(ms) == "PARAM" \notin ToSet(ms) /\ Single(ms, Requests)

ShapeInv ==
    /\ \A l \in ToSet(fromMac) : Shape(l.msgs)
    /\ m2p.pc \in {"order", "handle"} => Shape(m2p.list.msgs)
    /\ m2p.pc \notin {"param", "paramSend"}

\* The lists to the MAC while the phy2mac thread fills them: a header, then one message.
Begun(p) == IF state[p] = "IDLE" THEN <<>> ELSE <<"HEADER">>

Filled(p) == \/ sendList[p] = <<>> \/ sendList[p] = <<"HEADER">>
             \/ \E a \in Answers : sendList[p] = <<"HEADER", a>>

HeadersInv ==
    /\ p2m.pc = "recv" => \A p \in Phys : sendList[p] = <<>>
    /\ p2m.pc = "handle" => \A p \in Phys : sendList[p] = Begun(p)
    /\ p2m.pc \in {"cleanId", "cleanState"} =>
         /\ state[Carrier] # "IDLE" /\ sendList[Carrier] = <<"HEADER", "STOP_IND">>
         /\ \A p \in Phys \ {Carrier} : sendList[p] = Begun(p)
    /\ p2m.pc = "send" => \A p \in Phys :
         Filled(p) /\ (sendList[p] = <<"HEADER", "SLOT_IND">> => state[p] = "RUNNING")
    /\ \A i \in DOMAIN toMac : \E a \in Answers : toMac[i].msgs = <<"HEADER", a>>

\* A SLOT.indication the MAC has not seen: the instance is running, or was when
\* the MAC asked for the stop whose answer comes later.
Ticks(p) ==
    \A i \in DOMAIN toMac : toMac[i] = Final(p, "SLOT_IND") =>
       \/ state[p] = "RUNNING"
       \/ /\ macState[p] = "RUNNING" /\ pending[p] \in {"STOP", "SHUTDOWN"}
          /\ \A j \in DOMAIN toMac : toMac[j] \in Ending(p) => i < j

\* The PHY gave no status FAPI does not know.
StatusInv ==
    /\ \A m \in ToSet(fromPhy) : m.status # "other"
    /\ p2m.pc = "handle" => p2m.msg.status # "other"

\* The refused tries of a shutdown: FAPI has counted all but the one on its way
\* back, and stops counting only when it gives up or the PHY gives in.
ShuttingDown(p) == "SHUTDOWN" \in Passed(p) \cup Returned(p) \cup AtHandler(p)

Refusal(m, p) == m.idx = p /\ m.type = "SHUTDOWN" /\ m.status # "ok"
Refused(p) == \/ \E m \in ToSet(fromPhy) : Refusal(m, p)
              \/ p2m.pc = "handle" /\ Refusal(p2m.msg, p)

Tries(p) ==
    /\ retries[p] # 0 => ShuttingDown(p)
    /\ Refused(p) => refusals[p] = retries[p] + 1
    /\ "ERROR_SHUTDOWN" \in Decided(p) => refusals[p] = MaxTries + 1
    /\ "STOP_IND" \in Decided(p) => refusals[p] <= MaxTries
    /\ ~Refused(p) /\ "ERROR_SHUTDOWN" \notin Decided(p) /\ "STOP_IND" \notin Decided(p) =>
          refusals[p] = retries[p]

CarefulInv ==
    /\ ShapeInv /\ HeadersInv /\ StatusInv
    /\ \A p \in Phys : Token(p) /\ Ticks(p) /\ Tries(p)

Known == CoreOK /\ ListsOK /\ MacOK /\ ActiveNamed

LEMMA SameToken ==
    ASSUME NEW p \in Phys, Token(p), OneEach(p)',
           Asked(p)' = Asked(p), InHand(p)' = InHand(p), Passed(p)' = Passed(p),
           Returned(p)' = Returned(p), AtHandler(p)' = AtHandler(p),
           Queued(p)' = Queued(p), Told(p)' = Told(p),
           state'[p] = state[p], macState'[p] = macState[p], pending'[p] = pending[p],
           InHand(p) = {} \/ phyId'[p] = phyId[p],
           Cleaning(p) => Cleaning(p)'
    PROVE  Token(p)'
  <1>1. OnePlace(p)'
    BY DEF Token, OnePlace, Underway, Decided
  <1>2. \A r : Goes(r, p) => Goes(r, p)'
    BY DEF Goes
  <1>3. \A a : EndFits(a, p) => EndFits(a, p)'
    BY <1>2 DEF EndFits
  <1>4. Underway(p)' = Underway(p) /\ Decided(p)' = Decided(p)
    BY DEF Underway, Decided
  <1>5. Settled(p) => Settled(p)'
    BY DEF Settled
  <1> QED BY <1>1, <1>2, <1>3, <1>4, <1>5 DEF Token

\* What an idle wait of the MAC says about the instance.
LEMMA NothingUnderway ==
    ASSUME NEW p \in Phys, Token(p), pending[p] = "none"
    PROVE  Underway(p) = {} /\ Decided(p) = {} /\ macState[p] = state[p]
  <1>1. Underway(p) = {}
    <2>1. \A r \in Underway(p) : r \in Requests
      BY DEF Underway, Asked, InHand, Passed, Returned, AtHandler
    <2> QED BY <2>1 DEF Token, Goes, Requests
  <1>2. Decided(p) = {}
    BY DEF Token, EndFits, Ends
  <1> QED BY <1>1, <1>2 DEF Token, Settled

\* What a careful MAC sends.
LEMMA CarefulList ==
    ASSUME OneRequestEach, NEW l \in Lists, NEW view \in {"IDLE", "CONFIGURED", "RUNNING"},
           Fits(view, l), "PARAM" \notin ToSet(l)
    PROVE  /\ Shape(l)
           /\ \A x \in ToSet(l) \cap Requests : x = RequestIn(l)
           /\ RequestIn(l) # "none" => RequestIn(l) \in ToSet(l) \cap Requests
           /\ RequestIn(l) = "START" => view = "CONFIGURED"
           /\ RequestIn(l) = "STOP" => view = "RUNNING"
           /\ RequestIn(l) = "SHUTDOWN" => view # "IDLE"
  <1> DEFINE R == {m \in ToSet(l) : m \in Requests}
             r == CHOOSE m \in R : TRUE
  <1>1. RequestIn(l) = IF R = {} THEN "none" ELSE r
    BY DEF RequestIn
  <1>2. R # {} => r \in R
    OBVIOUS
  <1>3. "none" \notin Requests
    BY DEF Requests
  <1>4. CASE view = "RUNNING"
    <2>1. Single(l, Requests) /\ "START" \notin ToSet(l)
      BY <1>4 DEF OneRequestEach, Fits, Single
    <2>2. \A x, y \in R : x = y
      BY <2>1 DEF Single, ToSet
    <2> HIDE DEF r, R
    <2>3. \A x \in R : x = RequestIn(l)
      BY <1>1, <1>2, <2>2
    <2>4. RequestIn(l) # "none" => RequestIn(l) \in R
      BY <1>1, <1>2
    <2>5. RequestIn(l) # "START"
      BY <2>1, <2>4 DEF R
    <2> QED BY <1>4, <2>1, <2>3, <2>4, <2>5 DEF Shape, R
  <1>5. CASE view # "RUNNING"
    <2>1. PICK x \in {"CONFIG", "START", "SHUTDOWN"} :
             l = <<x>> /\ (x # "CONFIG" => view = "CONFIGURED")
      BY <1>5 DEF Fits
    <2>2. ToSet(l) = {x} /\ Single(l, Requests)
      BY <2>1 DEF ToSet, Single
    <2>3. R = {x}
      BY <2>1, <2>2 DEF Requests
    <2>4. RequestIn(l) = x
      BY <1>1, <2>3
    <2> QED BY <2>1, <2>2, <2>4 DEF Shape, Requests
  <1> QED BY <1>4, <1>5

-----------------------------------------------------------------------------
LEMMA TokenMacSend ==
    ASSUME Known, CarefulInv, OneRequestEach, careless = 0, careless' = 0,
           NEW q \in Phys, MacSend(q), NEW p \in Phys
    PROVE  Token(p)'
  <1>1. PICK l \in Lists, v \in BOOLEAN :
           /\ careless' = IF Careful(q, l, v) THEN careless ELSE careless + 1
           /\ fromMac' = Append(fromMac, [phy |-> q, msgs |-> l, vendor |-> v])
           /\ pending' = [pending EXCEPT ![q] = RequestIn(l)]
    BY DEF MacSend
  <1>2. Careful(q, l, v)
    BY <1>1
  <1>3. UNCHANGED <<inst, m2p, apiList, toPhy, fromPhy, p2m, sendList, toMac, macState>>
    BY DEF MacSend
  <1> DEFINE x == [phy |-> q, msgs |-> l, vendor |-> v]
  <1>4. x \in SentList /\ fromMac \in Seq(SentList)
    BY ControlAssumption DEF SentList, MacList, Known, CoreOK, Mac2PhyOK
  <1>5. ToSet(fromMac') = ToSet(fromMac) \cup {x}
    BY <1>1, <1>4, SetOfAppend
  <1>6. /\ InHand(p)' = InHand(p) /\ Passed(p)' = Passed(p) /\ Returned(p)' = Returned(p)
        /\ AtHandler(p)' = AtHandler(p) /\ Queued(p)' = Queued(p) /\ Told(p)' = Told(p)
        /\ state'[p] = state[p] /\ macState'[p] = macState[p] /\ phyId'[p] = phyId[p]
        /\ Cleaning(p)' = Cleaning(p)
    BY <1>3 DEF InHand, Passed, Returned, AtHandler, Queued, Told, inst, Cleaning, Carrier, ApiQueue
  <1>7. Token(p)
    BY DEF CarefulInv
  <1>8. Single(fromMac', Requesting(p)) => OneEach(p)'
    BY <1>3, <1>7 DEF OneEach, Token, ApiQueue
  <1>9. CASE p # q
    <2>1. Asked(p)' = Asked(p)
      BY <1>5, <1>9 DEF Asked
    <2>2. x \notin Requesting(p)
      BY <1>9 DEF Requesting
    <2>3. Single(fromMac', Requesting(p))
      BY <1>1, <1>4, <1>7, <2>2, SingleAppend DEF Token, OneEach
    <2>4. pending'[p] = pending[p]
      BY <1>1, <1>9 DEF Known, MacOK
    <2> QED BY <1>6, <1>7, <1>8, <2>1, <2>3, <2>4, SameToken
  <1>10. CASE p = q
    <2>1. /\ Underway(p) = {} /\ Decided(p) = {} /\ macState[p] = state[p]
      BY <1>2, <1>7, <1>10, NothingUnderway DEF Careful
    <2>2. /\ \A y \in ToSet(l) \cap Requests : y = RequestIn(l)
          /\ RequestIn(l) = "START" => macState[p] = "CONFIGURED"
          /\ RequestIn(l) = "STOP" => macState[p] = "RUNNING"
          /\ RequestIn(l) = "SHUTDOWN" => macState[p] # "IDLE"
      BY <1>2, <1>10, CarefulList DEF Careful, Known, MacOK
    <2>3. pending'[p] = RequestIn(l)
      BY <1>1, <1>10 DEF Known, MacOK
    <2>4. Asked(p)' = Asked(p) \cup (ToSet(l) \cap Requests)
      <3>1. x.phy = p /\ x.msgs = l
        BY <1>10
      <3> HIDE DEF x
      <3> QED BY <1>5, <3>1 DEF Asked
    <2>5. ToSet(fromMac) \cap Requesting(p) = {}
      <3> SUFFICES ASSUME NEW z \in ToSet(fromMac), z \in Requesting(p) PROVE FALSE
        OBVIOUS
      <3>1. PICK r \in Requests : r \in ToSet(z.msgs)
        BY DEF Requesting
      <3>2. r \in Asked(p)
        BY <3>1 DEF Asked, Requesting
      <3> QED BY <2>1, <3>2 DEF Underway
    <2>6. Single(fromMac', Requesting(p))
      BY <1>1, <1>4, <1>7, <2>5, SingleAppend DEF Token, OneEach
    <2>7. \A y \in Asked(p)' : Goes(y, p)'
      BY <1>6, <2>1, <2>2, <2>3, <2>4 DEF Goes, Underway
    <2>8. /\ Underway(p)' = Asked(p)' /\ Decided(p)' = {} /\ InHand(p)' = {}
          /\ OnePlace(p)'
      BY <1>6, <2>1 DEF Underway, Decided, OnePlace
    <2>9. Settled(p)'
      BY <1>6, <2>1 DEF Settled
    <2> QED BY <1>8, <2>6, <2>7, <2>8, <2>9 DEF Token
  <1> QED BY <1>9, <1>10

LEMMA TokenMacReceive ==
    ASSUME Known, CarefulInv, MacReceive, NEW p \in Phys
    PROVE  Token(p)'
  <1> DEFINE g == Head(toMac)
             q == g.phy
             ms == ToSet(g.msgs)
  <1>1. /\ toMac # <<>> /\ toMac \in Seq(Segment) /\ g \in Segment /\ q \in Phys
        /\ toMac' = Tail(toMac)
    <2>1. toMac # <<>> /\ toMac \in Seq(Segment) /\ toMac' = Tail(toMac)
      BY DEF MacReceive, Known, ListsOK
    <2>2. g \in Segment
      BY <2>1, TakeType
    <2> QED BY <2>1, <2>2 DEF Segment
  <1>2. /\ macState' = [macState EXCEPT ![q] = View(@, pending[q], ms)]
        /\ pending'  = [pending EXCEPT ![q] = IF Ends(@) \cap ms # {} THEN "none" ELSE @]
        /\ UNCHANGED <<inst, fromMac, m2p, apiList, toPhy, fromPhy, p2m, sendList>>
    BY DEF MacReceive
  <1>3. PICK a \in Answers : g = Final(q, a)
    <2>1. 1 \in DOMAIN toMac /\ g = toMac[1]
      BY <1>1
    <2>2. PICK a \in Answers : g.msgs = <<"HEADER", a>>
      BY <2>1 DEF CarefulInv, HeadersInv
    <2>3. g = [phy |-> q, msgs |-> <<"HEADER", a>>]
      BY <1>1, <2>2 DEF Segment
    <2> QED BY <2>3 DEF Final
  <1>4. ms = {"HEADER", a}
    <2>1. g.msgs = <<"HEADER", a>>
      BY <1>3 DEF Final
    <2> QED BY <2>1 DEF ToSet
  <1>5. ToSet(toMac) = {g} \cup ToSet(toMac')
    BY <1>1, SetOfTail
  <1>6. /\ Asked(p)' = Asked(p) /\ InHand(p)' = InHand(p) /\ Passed(p)' = Passed(p)
        /\ Returned(p)' = Returned(p) /\ AtHandler(p)' = AtHandler(p) /\ Queued(p)' = Queued(p)
        /\ state'[p] = state[p] /\ phyId'[p] = phyId[p] /\ Cleaning(p)' = Cleaning(p)
    BY <1>2 DEF Asked, InHand, Passed, Returned, AtHandler, Queued, inst, Cleaning, Carrier, ApiQueue
  <1>7. Token(p)
    BY DEF CarefulInv
  <1>8. OneEach(p)' /\ (g \in Ending(p) => ToSet(toMac') \cap Ending(p) = {})
    <2>1. Single(toMac', Ending(p)) /\ (g \in Ending(p) => ToSet(toMac') \cap Ending(p) = {})
      BY <1>1, <1>7, SingleTail DEF Token, OneEach
    <2> QED BY <1>2, <1>7, <2>1 DEF OneEach, Token, ApiQueue
  <1> HIDE DEF g, q, ms
  <1>9. macState \in [Phys -> {"IDLE", "CONFIGURED", "RUNNING"}] /\ pending \in [Phys -> Requests \cup {"none"}]
    BY DEF Known, MacOK
  <1>10. ASSUME p # q \/ a = "SLOT_IND" PROVE Told(p)' = Told(p)
    <2>1. \A b \in Finals : Final(p, b) # g
      BY <1>3, <1>10 DEF Final, Finals
    <2> QED BY <1>5, <2>1 DEF Told
  <1>11. CASE p # q
    <2>1. macState'[p] = macState[p] /\ pending'[p] = pending[p]
      BY <1>2, <1>9, <1>11
    <2> QED BY <1>6, <1>7, <1>8, <1>10, <1>11, <2>1, SameToken
  <1>12. CASE p = q /\ a = "SLOT_IND"
    <2>1. macState'[p] = "RUNNING"
      BY <1>1, <1>2, <1>4, <1>9, <1>12 DEF View
    <2>2. pending[p] # "START" => pending'[p] = pending[p]
      BY <1>1, <1>2, <1>4, <1>9, <1>12 DEF Ends, Errors
    <2>3. \/ state[p] = "RUNNING"
          \/ macState[p] = "RUNNING" /\ pending[p] \in {"STOP", "SHUTDOWN"}
      <3>1. 1 \in DOMAIN toMac /\ toMac[1] = Final(p, "SLOT_IND")
        BY <1>1, <1>3, <1>12 DEF g
      <3> QED BY <3>1 DEF CarefulInv, Ticks
    <2>4. CASE macState[p] = "RUNNING" /\ pending[p] # "START"
      BY <1>6, <1>7, <1>8, <1>10, <1>12, <2>1, <2>2, <2>4, SameToken
    <2>5. CASE state[p] = "RUNNING" /\ ~(macState[p] = "RUNNING" /\ pending[p] # "START")
      <3>1. Underway(p) = {}
        BY <1>7, <2>5 DEF Token, Goes
      <3>2. Decided(p) = {}
        <4>1. ASSUME NEW b \in Finals, EndFits(b, p) PROVE FALSE
          <5>1. CASE pending[p] = "START"
            BY <2>5, <4>1, <5>1 DEF EndFits, Ends, Finals
          <5>2. CASE pending[p] # "START"
            BY <2>5, <4>1, <5>2 DEF EndFits, Goes, View, Ends, Finals
          <5> QED BY <5>1, <5>2
        <4> QED BY <1>7, <4>1 DEF Token, Decided, Queued, Told
      <3>3. Underway(p)' = {} /\ Decided(p)' = {} /\ InHand(p)' = {} /\ OnePlace(p)'
        BY <1>6, <1>10, <1>12, <3>1, <3>2 DEF Underway, Decided, OnePlace
      <3>4. Settled(p)'
        BY <1>6, <2>1, <2>5 DEF Settled
      <3> QED BY <1>8, <3>3, <3>4 DEF Token
    <2> QED BY <2>3, <2>4, <2>5
  <1>13. CASE p = q /\ a # "SLOT_IND"
    <2>1. a \in Finals /\ a \in Told(p)
      BY <1>3, <1>5, <1>13 DEF Told, Finals
    <2>2. Told(p)' = {}
      <3>1. g \in Ending(p)
        BY <1>3, <1>13, <2>1 DEF Ending
      <3>2. \A b \in Finals : Final(p, b) \notin ToSet(toMac')
        BY <1>8, <3>1 DEF Ending
      <3> QED BY <3>2 DEF Told
    <2>3. Underway(p) = {} /\ Queued(p) = {}
      BY <1>7, <2>1 DEF Token, OnePlace, Decided
    <2>4. ~Cleaning(p)
      <3>1. Cleaning(p) => sendList[p] = <<"HEADER", "STOP_IND">>
        BY DEF Cleaning, CarefulInv, HeadersInv
      <3>2. "STOP_IND" \in Finals
        BY DEF Finals, Answers
      <3> QED BY <2>3, <3>1, <3>2 DEF Queued
    <2>5. EndFits(a, p)
      BY <1>7, <2>1 DEF Token, Decided
    <2>6. macState'[p] = state[p]
      BY <1>1, <1>2, <1>4, <1>9, <1>13, <2>4, <2>5 DEF EndFits
    <2>7. Underway(p)' = {} /\ Decided(p)' = {} /\ InHand(p)' = {} /\ OnePlace(p)'
      BY <1>6, <2>2, <2>3 DEF Underway, Decided, OnePlace
    <2>8. Settled(p)'
      BY <1>6, <2>6 DEF Settled
    <2> QED BY <1>8, <2>7, <2>8 DEF Token
  <1> QED BY <1>11, <1>12, <1>13

LEMMA TokenM2PRecv ==
    ASSUME Known, CarefulInv, M2PRecv, NEW p \in Phys
    PROVE  Token(p)'
  <1> DEFINE l == Head(fromMac)
             q == l.phy
             R == ToSet(l.msgs) \cap Requests
             drop == state[q] = "IDLE" /\ l.msgs[1] # "CONFIG"
  <1>1. /\ fromMac # <<>> /\ fromMac \in Seq(SentList) /\ l \in SentList /\ fromMac' = Tail(fromMac)
        /\ m2p.pc = "recv"
    <2>1. fromMac # <<>> /\ fromMac \in Seq(SentList) /\ fromMac' = Tail(fromMac) /\ m2p.pc = "recv"
      BY DEF M2PRecv, Known, CoreOK, Mac2PhyOK
    <2> QED BY <2>1, TakeType
  <1>2. /\ drop => m2p' = [pc |-> "send", list |-> NoList] /\ UNCHANGED phyId
        /\ ~drop => /\ m2p' = [pc |-> "order", list |-> l]
                    /\ phyId' = IF state[q] = "IDLE" THEN [phyId EXCEPT ![q] = q] ELSE phyId
        /\ UNCHANGED <<state, retries, apiList, toPhy, fromPhy, p2m, sendList, toMac, mac>>
    BY DEF M2PRecv
  <1>3. ToSet(fromMac) = {l} \cup ToSet(fromMac')
    BY <1>1, SetOfTail
  <1>4. /\ Passed(p)' = Passed(p) /\ Returned(p)' = Returned(p) /\ AtHandler(p)' = AtHandler(p)
        /\ Queued(p)' = Queued(p) /\ Told(p)' = Told(p)
        /\ state'[p] = state[p] /\ macState'[p] = macState[p] /\ pending'[p] = pending[p]
        /\ Cleaning(p)' = Cleaning(p) /\ Decided(p)' = Decided(p)
    BY <1>2 DEF Passed, Returned, AtHandler, Queued, Told, mac, Cleaning, Carrier, ApiQueue, Decided
  <1>5. Token(p)
    BY DEF CarefulInv
  <1>6. OneEach(p)' /\ (l \in Requesting(p) => ToSet(fromMac') \cap Requesting(p) = {})
    <2>1. Single(fromMac', Requesting(p)) /\ (l \in Requesting(p) => ToSet(fromMac') \cap Requesting(p) = {})
      BY <1>1, <1>5, SingleTail DEF Token, OneEach
    <2> QED BY <1>2, <1>5, <2>1 DEF OneEach, Token, ApiQueue
  <1>7. InHand(p) = {}
    BY <1>1 DEF InHand
  <1>8. \A k \in ToSet(fromMac') : k \in SentList
    BY <1>1, <1>3, TakeType DEF ToSet
  <1> HIDE DEF l, q
  <1>9. CASE p # q \/ R = {}
    <2>1. Asked(p)' = Asked(p)
      BY <1>3, <1>9 DEF Asked, q
    <2>2. InHand(p)' = {}
      BY <1>2, <1>9 DEF InHand, q
    <2> QED BY <1>4, <1>5, <1>6, <1>7, <2>1, <2>2, SameToken
  <1>10. CASE p = q /\ R # {}
    <2>1. Asked(p) # {} /\ R \subseteq Asked(p)
      BY <1>3, <1>10 DEF Asked, q
    <2>2. Asked(p)' = {}
      <3>1. l \in Requesting(p)
        BY <1>1, <1>10 DEF Requesting, q
      <3>2. ASSUME NEW k \in ToSet(fromMac'), k.phy = p, NEW r \in Requests, r \in ToSet(k.msgs)
            PROVE  FALSE
        <4>1. k \in Requesting(p)
          BY <1>8, <3>2 DEF Requesting
        <4> QED BY <1>6, <3>1, <3>2, <4>1
      <3> QED BY <3>2 DEF Asked
    <2>3. /\ Passed(p) = {} /\ Returned(p) = {} /\ AtHandler(p) = {} /\ Queued(p) = {} /\ Told(p) = {}
      BY <1>5, <2>1 DEF Token, OnePlace, Underway, Decided
    <2>4. \A r \in R : Goes(r, p) /\ Goes(r, p)'
      BY <1>4, <1>5, <2>1 DEF Token, Underway, Goes
    <2>5. CASE drop
      <3>1. InHand(p)' = {}
        BY <1>2, <2>5 DEF InHand
      <3>2. Underway(p)' = {} /\ Decided(p)' = {} /\ OnePlace(p)'
        BY <1>4, <2>2, <2>3, <3>1 DEF Underway, Decided, OnePlace
      <3>3. Settled(p)'
        BY <1>4, <1>10, <2>4, <2>5 DEF Settled, Goes
      <3> QED BY <1>6, <3>1, <3>2, <3>3 DEF Token
    <2>6. CASE ~drop
      <3>1. InHand(p)' = R
        BY <1>2, <1>10, <2>6 DEF InHand, q
      <3>2. Underway(p)' = R /\ Decided(p)' = {} /\ OnePlace(p)'
        BY <1>4, <2>2, <2>3, <3>1 DEF Underway, Decided, OnePlace
      <3>3. phyId'[p] = p
        <4>1. CASE state[p] = "IDLE"
          BY <1>2, <1>10, <2>6, <4>1 DEF Known, CoreOK, RecordsOK
        <4>2. CASE state[p] # "IDLE"
          <5>1. ~(p2m.pc = "cleanState" /\ Carrier = p)
            <6>1. "STOP_IND" \in Finals
              BY DEF Finals, Answers
            <6> QED BY <2>3, <6>1 DEF Queued, CarefulInv, HeadersInv
          <5> QED BY <1>2, <1>10, <2>6, <4>2, <5>1 DEF Known, ActiveNamed
        <4> QED BY <4>1, <4>2
      <3> QED BY <1>6, <1>10, <2>4, <3>1, <3>2, <3>3 DEF Token
    <2> QED BY <2>5, <2>6
  <1> QED BY <1>9, <1>10

LEMMA TokenM2POrder ==
    ASSUME Known, CarefulInv, M2POrder, NEW p \in Phys
    PROVE  Token(p)'
  <1>1. /\ m2p.pc = "order"
        /\ \/ /\ state[m2p.list.phy] = "RUNNING" /\ m2p' = [pc |-> "send", list |-> NoList]
           \/ m2p' = [m2p EXCEPT !.pc = "handle"]
        /\ UNCHANGED <<inst, fromMac, apiList, toPhy, fromPhy, p2m, sendList, toMac, mac>>
    BY DEF M2POrder
  <1>2. /\ Asked(p)' = Asked(p) /\ Passed(p)' = Passed(p) /\ Returned(p)' = Returned(p)
        /\ AtHandler(p)' = AtHandler(p) /\ Queued(p)' = Queued(p) /\ Told(p)' = Told(p)
        /\ state'[p] = state[p] /\ macState'[p] = macState[p] /\ pending'[p] = pending[p]
        /\ Cleaning(p)' = Cleaning(p) /\ Decided(p)' = Decided(p) /\ phyId'[p] = phyId[p]
    BY <1>1 DEF Asked, Passed, Returned, AtHandler, Queued, Told, mac, inst, Cleaning, Carrier,
                ApiQueue, Decided
  <1>3. Token(p)
    BY DEF CarefulInv
  <1>4. OneEach(p)'
    BY <1>1, <1>3 DEF OneEach, Token, ApiQueue
  <1>5. m2p \in [pc : {"recv", "order", "handle", "param", "paramSend", "send"}, list : MacList]
    BY DEF Known, CoreOK, Mac2PhyOK
  <1>6. CASE m2p' = [m2p EXCEPT !.pc = "handle"]
    <2>1. m2p'.pc = "handle" /\ m2p'.list = m2p.list
      BY <1>5, <1>6
    <2>2. InHand(p)' = InHand(p)
      BY <1>1, <2>1 DEF InHand
    <2> QED BY <1>2, <1>3, <1>4, <2>2, SameToken
  <1>7. CASE state[m2p.list.phy] = "RUNNING" /\ m2p' = [pc |-> "send", list |-> NoList]
    <2>1. InHand(p)' = {}
      BY <1>7 DEF InHand
    <2>2. CASE InHand(p) = {}
      BY <1>2, <1>3, <1>4, <2>1, <2>2, SameToken
    <2>3. CASE InHand(p) # {}
      <3>1. Asked(p) = {} /\ Passed(p) = {} /\ Returned(p) = {} /\ AtHandler(p) = {} /\ Queued(p) = {} /\ Told(p) = {}
        BY <1>3, <2>3 DEF Token, OnePlace, Underway, Decided
      <3>2. Underway(p)' = {} /\ Decided(p)' = {} /\ OnePlace(p)'
        BY <1>2, <2>1, <3>1 DEF Underway, Decided, OnePlace
      <3>3. PICK r \in InHand(p) : Goes(r, p)
        BY <1>3, <2>3 DEF Token, Underway
      <3>4. state[p] = "RUNNING"
        BY <1>7, <2>3 DEF InHand
      <3>5. Settled(p)'
        BY <1>2, <3>3, <3>4 DEF Settled, Goes
      <3> QED BY <1>4, <2>1, <3>2, <3>5 DEF Token
    <2> QED BY <2>2, <2>3
  <1> QED BY <1>1, <1>6, <1>7

\* The next message of the list, and what it leaves in hand.
LEMMA HandAfter ==
    ASSUME Known, NextMessage, m2p.pc \in {"handle"}, NEW p \in Phys
    PROVE  /\ m2p.list.phy # p => InHand(p) = {} /\ InHand(p)' = {}
           /\ m2p.list.phy = p => /\ InHand(p) = ({Head(m2p.list.msgs)} \cap Requests) \cup InHand(p)'
                                  /\ InHand(p)' = ToSet(Tail(m2p.list.msgs)) \cap Requests
           /\ m2p'.list.msgs = Tail(m2p.list.msgs) /\ m2p.list.msgs # <<>>
           /\ m2p'.pc \in {"handle", "send"}
           /\ m2p.list.msgs \in Seq(Requests \cup P7)
  <1> DEFINE ms == m2p.list.msgs
  <1>1. ms # <<>> /\ ms \in Seq(Requests \cup P7) /\ m2p.list \in MacList
    BY DEF Known, CoreOK, Mac2PhyOK, MacList
  <1>2. /\ m2p'.pc = IF Len(ms) > 1 THEN "handle" ELSE "send"
        /\ m2p'.list.phy = m2p.list.phy /\ m2p'.list.msgs = Tail(ms)
    BY <1>1 DEF NextMessage, MacList
  <1>3. ToSet(ms) = {Head(ms)} \cup ToSet(Tail(ms))
    BY <1>1, SetOfTail
  <1>4. Len(ms) > 1 \/ ToSet(Tail(ms)) = {}
    <2>1. Len(ms) > 1 \/ DOMAIN Tail(ms) = {}
      <3>1. Len(ms) \in Nat /\ DOMAIN Tail(ms) = 1..(Len(ms) - 1)
        BY <1>1
      <3> QED BY <3>1
    <2> QED BY <2>1 DEF ToSet
  <1> HIDE DEF ms
  <1>5. m2p.list.phy # p => InHand(p) = {} /\ InHand(p)' = {}
    BY <1>2 DEF InHand
  <1>6. ASSUME m2p.list.phy = p PROVE InHand(p)' = ToSet(Tail(ms)) \cap Requests
    BY <1>2, <1>4, <1>6 DEF InHand
  <1>7. ASSUME m2p.list.phy = p PROVE InHand(p) = ToSet(ms) \cap Requests
    BY <1>7 DEF InHand, ms
  <1> QED BY <1>1, <1>2, <1>3, <1>5, <1>6, <1>7 DEF ms

LEMMA AppendJoin ==
    ASSUME NEW R, NEW q \in Seq(R), NEW r \in Seq(R), NEW x \in R
    PROVE  q \o Append(r, x) = Append(q \o r, x)
  OBVIOUS

LEMMA JoinEmpty ==
    ASSUME NEW R, NEW q \in Seq(R)
    PROVE  q \o <<>> = q /\ <<>> \o q = q
  OBVIOUS

\* A handler of the mac2phy thread: the request goes to the PHY under the
\* number of its own instance, or is dropped in an instance both sides agree on.
LEMMA TokenForward ==
    ASSUME Known, CarefulInv, NEW id \in {"CONFIG", "START", "STOP", "SHUTDOWN"}, Handling(id),
           NEW guard \in BOOLEAN, Forward(id, guard), id = "SHUTDOWN" => guard, NEW p \in Phys
    PROVE  Token(p)' /\ phyId[m2p.list.phy] = m2p.list.phy
  <1>0. PICK q \in Phys : q = m2p.list.phy
    BY DEF Known, CoreOK, Mac2PhyOK, MacList
  <1> DEFINE x == [type |-> id, idx |-> phyId[q]]
  <1>1. /\ m2p.pc = "handle" /\ Head(m2p.list.msgs) = id
        /\ apiList' = IF guard THEN Append(apiList, x) ELSE apiList
        /\ NextMessage
        /\ UNCHANGED <<inst, fromMac, toPhy, fromPhy, p2m, sendList, toMac, mac>>
    <2>1. m2p.pc = "handle" /\ m2p.list.msgs[1] = id /\ m2p.list.msgs # <<>>
      BY DEF Handling, Known, CoreOK, Mac2PhyOK
    <2> QED BY <1>0, <2>1 DEF Forward
  <1>2. id \in Requests
    BY DEF Requests
  <1>3. InHand(q) = {id} /\ InHand(q)' = {}
    <2>1. /\ InHand(q) = {id} \cup InHand(q)' /\ InHand(q)' = ToSet(Tail(m2p.list.msgs)) \cap Requests
          /\ m2p.list.msgs # <<>> /\ m2p.list.msgs \in Seq(Requests \cup P7)
      BY <1>0, <1>1, <1>2, HandAfter
    <2>2. ToSet(Tail(m2p.list.msgs)) \cap Requests = {}
      <3>1. Single(m2p.list.msgs, Requests)
        BY <1>1 DEF CarefulInv, ShapeInv, Shape
      <3> QED BY <1>1, <1>2, <2>1, <3>1, SingleTail
    <2> QED BY <2>1, <2>2
  <1>4. Token(q) /\ Token(p)
    BY DEF CarefulInv
  <1>5. phyId[q] = q /\ Goes(id, q)
    BY <1>3, <1>4 DEF Token, Underway
  <1>6. /\ Asked(q) = {} /\ Passed(q) = {} /\ Returned(q) = {} /\ AtHandler(q) = {}
        /\ Queued(q) = {} /\ Told(q) = {}
    BY <1>3, <1>4 DEF Token, OnePlace, Underway, Decided
  <1>7. /\ Asked(p)' = Asked(p) /\ Returned(p)' = Returned(p)
        /\ AtHandler(p)' = AtHandler(p) /\ Queued(p)' = Queued(p) /\ Told(p)' = Told(p)
        /\ state'[p] = state[p] /\ macState'[p] = macState[p] /\ pending'[p] = pending[p]
        /\ Cleaning(p)' = Cleaning(p) /\ Decided(p)' = Decided(p) /\ phyId'[p] = phyId[p]
    BY <1>1 DEF Asked, Returned, AtHandler, Queued, Told, mac, inst, Cleaning, Carrier, Decided
  <1>8. ApiQueue \in Seq(ToPhyMsg) /\ x \in ToPhyMsg /\ x.idx = q /\ x.type = id
    <2>1. toPhy \in Seq(ToPhyMsg) /\ apiList \in Seq(ToPhyMsg)
      BY DEF Known, CoreOK, ChannelsOK
    <2>2. ApiQueue \in Seq(ToPhyMsg)
      BY <2>1, JoinType DEF ApiQueue
    <2>3. x \in ToPhyMsg
      BY <1>1, <1>5 DEF ToPhyMsg
    <2> QED BY <1>5, <2>2, <2>3
  <1>9. ApiQueue' = IF guard THEN Append(ApiQueue, x) ELSE ApiQueue
    <2>1. toPhy \in Seq(ToPhyMsg) /\ apiList \in Seq(ToPhyMsg) /\ x \in ToPhyMsg
      BY <1>8 DEF Known, CoreOK, ChannelsOK
    <2> HIDE DEF x
    <2>2. toPhy \o Append(apiList, x) = Append(toPhy \o apiList, x)
      BY <2>1, AppendJoin
    <2>3. toPhy' = toPhy
      BY <1>1
    <2> QED BY <1>1, <2>2, <2>3 DEF ApiQueue
  <1> HIDE DEF x
  <1>10. ToSet(ApiQueue') = IF guard THEN ToSet(ApiQueue) \cup {x} ELSE ToSet(ApiQueue)
    <2>1. CASE guard
      BY <1>8, <1>9, <2>1, SetOfAppend
    <2>2. CASE ~guard
      BY <1>9, <2>2
    <2> QED BY <2>1, <2>2
  <1>11. Passed(p)' = IF guard /\ p = q THEN {id} ELSE Passed(p)
    <2>1. CASE guard /\ p = q
      BY <1>2, <1>6, <1>8, <1>10, <2>1 DEF Passed
    <2>2. CASE ~(guard /\ p = q)
      BY <1>8, <1>10, <2>2 DEF Passed
    <2> QED BY <2>1, <2>2
  <1>12. OneEach(p)'
    <2>1. x \in ToCarrier(p) => ToSet(ApiQueue) \cap ToCarrier(p) = {}
      <3> SUFFICES ASSUME x \in ToCarrier(p), NEW m \in ToSet(ApiQueue), m \in ToCarrier(p) PROVE FALSE
        OBVIOUS
      <3>1. p = q /\ m.idx = q /\ m.type \in Requests
        BY <1>8 DEF ToCarrier, ToPhyMsg, Requests
      <3> QED BY <1>6, <3>1 DEF Passed
    <2>2. Single(ApiQueue', ToCarrier(p))
      BY <1>4, <1>8, <1>9, <2>1, SingleAppend DEF Token, OneEach
    <2> QED BY <1>1, <1>4, <2>2 DEF Token, OneEach
  <1>13. ASSUME p # q PROVE Token(p)'
    <2>1. InHand(p) = {} /\ InHand(p)' = {}
      BY <1>0, <1>1, <1>13, HandAfter
    <2>2. Passed(p)' = Passed(p)
      BY <1>11, <1>13
    <2> QED BY <1>4, <1>7, <1>12, <2>1, <2>2, SameToken
  <1>14. ASSUME p = q PROVE Token(p)'
    <2>1. Underway(p)' = Passed(p)' /\ Decided(p)' = {} /\ OnePlace(p)' /\ InHand(p)' = {}
      BY <1>3, <1>6, <1>7, <1>14 DEF Underway, Decided, OnePlace
    <2>2. Goes(id, p)'
      BY <1>5, <1>7, <1>14 DEF Goes
    <2>3. CASE guard
      <3>1. Underway(p)' = {id}
        BY <1>11, <1>14, <2>1, <2>3
      <3> QED BY <1>12, <2>1, <2>2, <3>1 DEF Token
    <2>4. CASE ~guard
      <3>1. Settled(p)'
        BY <1>5, <1>7, <1>14, <2>4 DEF Settled, Goes
      <3>2. Underway(p)' = {}
        BY <1>6, <1>11, <1>14, <2>1, <2>4
      <3> QED BY <1>12, <2>1, <3>1, <3>2 DEF Token
    <2> QED BY <2>3, <2>4
  <1> QED BY <1>0, <1>5, <1>13, <1>14

LEMMA TokenTti ==
    ASSUME Known, CarefulInv, TtiRequest, NEW p \in Phys
    PROVE  Token(p)'
  <1>1. /\ m2p.pc = "handle" /\ m2p.list.msgs[1] \in P7 /\ NextMessage
        /\ UNCHANGED <<inst, fromMac, apiList, toPhy, fromPhy, p2m, sendList, toMac, mac>>
    BY DEF TtiRequest
  <1>2. /\ Asked(p)' = Asked(p) /\ Passed(p)' = Passed(p) /\ Returned(p)' = Returned(p)
        /\ AtHandler(p)' = AtHandler(p) /\ Queued(p)' = Queued(p) /\ Told(p)' = Told(p)
        /\ state'[p] = state[p] /\ macState'[p] = macState[p] /\ pending'[p] = pending[p]
        /\ Cleaning(p)' = Cleaning(p) /\ phyId'[p] = phyId[p]
    BY <1>1 DEF Asked, Passed, Returned, AtHandler, Queued, Told, mac, inst, Cleaning, Carrier, ApiQueue
  <1>3. Token(p)
    BY DEF CarefulInv
  <1>4. OneEach(p)'
    BY <1>1, <1>3 DEF OneEach, Token, ApiQueue
  <1>5. InHand(p)' = InHand(p)
    <2>1. Head(m2p.list.msgs) \notin Requests
      <3>1. P7 \cap Requests = {}
        BY DEF P7, Requests
      <3>2. Head(m2p.list.msgs) = m2p.list.msgs[1]
        BY <1>1, HandAfter
      <3> QED BY <1>1, <3>1, <3>2
    <2> QED BY <1>1, <2>1, HandAfter
  <1> QED BY <1>2, <1>3, <1>4, <1>5, SameToken

LEMMA TokenM2PSend ==
    ASSUME Known, CarefulInv, M2PSend, NEW p \in Phys
    PROVE  Token(p)'
  <1>1. /\ m2p.pc = "send" /\ m2p'.pc = "recv" /\ toPhy' = toPhy \o apiList /\ apiList' = <<>>
        /\ UNCHANGED <<inst, fromMac, fromPhy, p2m, sendList, toMac, mac>>
    BY DEF M2PSend, SendApiList
  <1>2. ApiQueue' = ApiQueue
    <2>1. toPhy \o apiList \in Seq(ToPhyMsg)
      BY JoinType DEF Known, CoreOK, ChannelsOK
    <2> QED BY <1>1, <2>1, JoinEmpty DEF ApiQueue
  <1>3. /\ Asked(p)' = Asked(p) /\ Passed(p)' = Passed(p) /\ Returned(p)' = Returned(p)
        /\ AtHandler(p)' = AtHandler(p) /\ Queued(p)' = Queued(p) /\ Told(p)' = Told(p)
        /\ state'[p] = state[p] /\ macState'[p] = macState[p] /\ pending'[p] = pending[p]
        /\ Cleaning(p)' = Cleaning(p) /\ phyId'[p] = phyId[p]
    BY <1>1, <1>2 DEF Asked, Passed, Returned, AtHandler, Queued, Told, mac, inst, Cleaning, Carrier
  <1>4. Token(p)
    BY DEF CarefulInv
  <1>5. OneEach(p)'
    BY <1>1, <1>2, <1>4 DEF OneEach, Token
  <1>6. InHand(p) = {} /\ InHand(p)' = {}
    BY <1>1 DEF InHand
  <1> QED BY <1>3, <1>4, <1>5, <1>6, SameToken

LEMMA TokenPhyTick ==
    ASSUME Known, CarefulInv, PhyTick, NEW p \in Phys
    PROVE  Token(p)'
  <1>1. PICK q \in Phys : /\ fromPhy = <<>> /\ fromPhy' = <<[type |-> "SLOT", idx |-> q, status |-> "ok"]>>
                           /\ UNCHANGED <<inst, fromMac, m2p, apiList, toPhy, p2m, sendList, toMac, mac>>
    BY DEF PhyTick
  <1>2. /\ Asked(p)' = Asked(p) /\ Passed(p)' = Passed(p) /\ InHand(p)' = InHand(p)
        /\ AtHandler(p)' = AtHandler(p) /\ Queued(p)' = Queued(p) /\ Told(p)' = Told(p)
        /\ state'[p] = state[p] /\ macState'[p] = macState[p] /\ pending'[p] = pending[p]
        /\ Cleaning(p)' = Cleaning(p) /\ phyId'[p] = phyId[p]
    BY <1>1 DEF Asked, Passed, InHand, AtHandler, Queued, Told, mac, inst, Cleaning, Carrier, ApiQueue
  <1>3. Token(p)
    BY DEF CarefulInv
  <1>4. Returned(p) = {} /\ Returned(p)' = {}
    <2>1. ToSet(fromPhy) = {}
      BY <1>1 DEF ToSet
    <2>2. ASSUME NEW m \in ToSet(fromPhy') PROVE m.type = "SLOT"
      <3>1. PICK i \in DOMAIN fromPhy' : m = fromPhy'[i]
        BY DEF ToSet
      <3> QED BY <1>1, <3>1
    <2> QED BY <2>1, <2>2 DEF Returned, Requests
  <1>5. OneEach(p)'
    <2>1. Single(fromPhy', FromCarrier(p))
      BY <1>1 DEF Single
    <2> QED BY <1>1, <1>3, <2>1 DEF OneEach, Token, ApiQueue
  <1> QED BY <1>2, <1>3, <1>4, <1>5, SameToken

LEMMA TailJoin ==
    ASSUME NEW R, NEW q \in Seq(R), NEW r \in Seq(R), q # <<>>
    PROVE  Tail(q) \o r = Tail(q \o r) /\ Head(q \o r) = Head(q) /\ q \o r # <<>>
  OBVIOUS

LEMMA TokenPhyAnswer ==
    ASSUME Known, CarefulInv, PhyAnswer, NEW p \in Phys
    PROVE  Token(p)'
  <1>1. PICK m \in ToPhyMsg, status \in {"ok", "error", "other"} :
          /\ m = Head(toPhy) /\ toPhy # <<>> /\ toPhy' = Tail(toPhy)
          /\ LET r == [type |-> m.type, idx |-> m.idx, status |-> status]
                 slot == [type |-> "SLOT", idx |-> m.idx, status |-> "ok"]
             IN  fromPhy' = fromPhy \o IF m.type = "START" /\ status = "ok"
                                      THEN <<r, slot>> ELSE <<r>>
    <2>1. toPhy # <<>> /\ toPhy \in Seq(ToPhyMsg) /\ toPhy' = Tail(toPhy)
      BY DEF PhyAnswer, Known, CoreOK, ChannelsOK
    <2>2. Head(toPhy) \in ToPhyMsg
      BY <2>1, TakeType
    <2> QED BY <2>1, <2>2 DEF PhyAnswer, Statuses
  <1>2. UNCHANGED <<inst, fromMac, m2p, apiList, p2m, sendList, toMac, macState, pending>>
    BY DEF PhyAnswer
  <1> DEFINE r == [type |-> m.type, idx |-> m.idx, status |-> status]
             slot == [type |-> "SLOT", idx |-> m.idx, status |-> "ok"]
             told == IF m.type = "START" /\ status = "ok" THEN <<r, slot>> ELSE <<r>>
  <1>3. /\ m.idx \in Phys /\ m.type \in Requests /\ m.type # "SLOT"
        /\ r \in FromPhyMsg /\ slot \in FromPhyMsg /\ slot.type = "SLOT"
        /\ r.type = m.type /\ r.idx = m.idx
    BY <1>1 DEF ToPhyMsg, FromPhyMsg, Requests
  <1>4. fromPhy' = fromPhy \o told
    BY <1>1
  <1> HIDE DEF r, slot
  <1>5. /\ told \in Seq(FromPhyMsg) /\ r \in ToSet(told)
        /\ \A y \in ToSet(told) : y = r \/ y = slot
        /\ Single(told, FromCarrier(p))
    <2>1. CASE told = <<r>>
      <3>1. told \in Seq(FromPhyMsg) /\ ToSet(told) = {r}
        BY <1>3, <2>1 DEF ToSet
      <3> QED BY <2>1, <3>1 DEF Single
    <2>2. CASE told = <<r, slot>>
      <3>1. told \in Seq(FromPhyMsg) /\ ToSet(told) = {r, slot}
        BY <1>3, <2>2 DEF ToSet
      <3>2. slot \notin FromCarrier(p)
        BY <1>3 DEF FromCarrier
      <3>3. DOMAIN told = {1, 2} /\ told[1] = r /\ told[2] = slot
        BY <2>2
      <3>4. Single(told, FromCarrier(p))
        BY <3>2, <3>3 DEF Single
      <3> QED BY <3>1, <3>4
    <2> QED BY <2>1, <2>2
  <1> HIDE DEF told
  <1>6. fromPhy \in Seq(FromPhyMsg) /\ ToSet(fromPhy') = ToSet(fromPhy) \cup ToSet(told)
    <2>1. fromPhy \in Seq(FromPhyMsg)
      BY DEF Known, CoreOK, ChannelsOK
    <2> QED BY <1>4, <1>5, <2>1, SetOfJoin
  <1>7. /\ ApiQueue \in Seq(ToPhyMsg) /\ ApiQueue # <<>> /\ ApiQueue' = Tail(ApiQueue) /\ Head(ApiQueue) = m
    <2>1. toPhy \in Seq(ToPhyMsg) /\ apiList \in Seq(ToPhyMsg)
      BY DEF Known, CoreOK, ChannelsOK
    <2>2. apiList' = apiList
      BY <1>2
    <2> QED BY <1>1, <2>1, <2>2, TailJoin, JoinType DEF ApiQueue
  <1>8. ToSet(ApiQueue) = {m} \cup ToSet(ApiQueue')
    BY <1>7, SetOfTail
  <1>9. /\ Asked(p)' = Asked(p) /\ InHand(p)' = InHand(p)
        /\ AtHandler(p)' = AtHandler(p) /\ Queued(p)' = Queued(p) /\ Told(p)' = Told(p)
        /\ state'[p] = state[p] /\ macState'[p] = macState[p] /\ pending'[p] = pending[p]
        /\ Cleaning(p)' = Cleaning(p) /\ phyId'[p] = phyId[p]
    BY <1>2 DEF Asked, InHand, AtHandler, Queued, Told, mac, inst, Cleaning, Carrier
  <1>10. Token(p)
    BY DEF CarefulInv
  <1>11. /\ Single(ApiQueue', ToCarrier(p))
         /\ m \in ToCarrier(p) => ToSet(ApiQueue') \cap ToCarrier(p) = {}
    BY <1>7, <1>10, SingleTail DEF Token, OneEach
  <1>12. CASE p # m.idx
    <2>1. Passed(p)' = Passed(p)
      BY <1>8, <1>12 DEF Passed
    <2>2. Returned(p)' = Returned(p)
      <3>1. \A y \in ToSet(told) : y.idx = p => y.type \notin Requests
        BY <1>3, <1>5, <1>12 DEF Requests
      <3> QED BY <1>6, <3>1 DEF Returned
    <2>3. ToSet(told) \cap FromCarrier(p) = {}
      BY <1>3, <1>5, <1>12 DEF FromCarrier
    <2>4. Single(fromPhy', FromCarrier(p))
      BY <1>4, <1>5, <1>6, <1>10, <2>3, SingleJoin DEF Token, OneEach
    <2>5. OneEach(p)'
      BY <1>2, <1>10, <1>11, <2>4 DEF Token, OneEach
    <2> QED BY <1>9, <1>10, <2>1, <2>2, <2>5, SameToken
  <1>13. CASE p = m.idx
    <2>1. m.type \in Passed(p)
      BY <1>3, <1>8, <1>13 DEF Passed
    <2>2. Asked(p) = {} /\ InHand(p) = {} /\ Returned(p) = {} /\ AtHandler(p) = {} /\ Queued(p) = {} /\ Told(p) = {}
      BY <1>10, <2>1 DEF Token, OnePlace, Underway, Decided
    <2>3. Passed(p)' = {}
      <3>1. m \in ToCarrier(p)
        BY <1>1, <1>13 DEF ToCarrier
      <3>2. ASSUME NEW y \in ToSet(ApiQueue'), y.idx = p PROVE FALSE
        <4>1. y \in ToPhyMsg
          BY <1>7, TakeType DEF ToSet
        <4> QED BY <1>11, <3>1, <3>2, <4>1 DEF ToCarrier
      <3> QED BY <3>2 DEF Passed
    <2>4. Returned(p)' = {m.type}
      <3>1. ToSet(fromPhy') = ToSet(fromPhy) \cup ToSet(told)
        BY <1>6
      <3>2. \A y \in ToSet(told) : y.type \in Requests => y.type = m.type
        BY <1>3, <1>5 DEF Requests
      <3>3. m.type \in Returned(p)'
        BY <1>3, <1>5, <1>13, <3>1 DEF Returned
      <3>4. ASSUME NEW t \in Returned(p)' PROVE t = m.type
        <4>1. PICK y \in ToSet(fromPhy') : y.idx = p /\ y.type = t /\ t \in Requests
          BY DEF Returned
        <4>2. y \notin ToSet(fromPhy)
          BY <2>2, <4>1 DEF Returned
        <4> QED BY <3>1, <3>2, <4>1, <4>2
      <3> QED BY <3>3, <3>4
    <2>5. OneEach(p)'
      <3>1. ToSet(fromPhy) \cap FromCarrier(p) = {}
        <4> SUFFICES ASSUME NEW y \in ToSet(fromPhy), y \in FromCarrier(p) PROVE FALSE
          OBVIOUS
        <4>1. y.type \in Requests /\ y.idx = p
          BY DEF FromCarrier, FromPhyMsg, Requests
        <4> QED BY <2>2, <4>1 DEF Returned
      <3>2. Single(fromPhy', FromCarrier(p))
        BY <1>4, <1>5, <1>6, <1>10, <3>1, SingleJoin DEF Token, OneEach
      <3> QED BY <1>2, <1>10, <1>11, <3>2 DEF Token, OneEach
    <2>6. Goes(m.type, p)'
      <3>1. Goes(m.type, p)
        BY <1>10, <2>1 DEF Token, Underway
      <3> QED BY <1>9, <3>1 DEF Goes
    <2>7. /\ Asked(p)' = {} /\ InHand(p)' = {} /\ AtHandler(p)' = {} /\ Queued(p)' = {} /\ Told(p)' = {}
      BY <1>9, <2>2
    <2>8. Underway(p)' = {m.type} /\ Decided(p)' = {} /\ OnePlace(p)'
      BY <2>3, <2>4, <2>7 DEF Underway, Decided, OnePlace
    <2> QED BY <2>5, <2>6, <2>7, <2>8 DEF Token
  <1> QED BY <1>12, <1>13

LEMMA TokenP2MRecv ==
    ASSUME Known, CarefulInv, P2MRecv, NEW p \in Phys
    PROVE  Token(p)'
  <1>1. /\ p2m.pc = "recv" /\ fromPhy # <<>> /\ p2m' = [pc |-> "handle", msg |-> Head(fromPhy)]
        /\ fromPhy' = Tail(fromPhy)
        /\ sendList' = [q \in Phys |-> IF state[q] = "IDLE" THEN sendList[q] ELSE Append(sendList[q], "HEADER")]
        /\ UNCHANGED <<inst, fromMac, m2p, apiList, toPhy, toMac, mac>>
    BY DEF P2MRecv
  <1>2. fromPhy \in Seq(FromPhyMsg)
    BY DEF Known, CoreOK, ChannelsOK
  <1>3. PICK m \in FromPhyMsg : m = Head(fromPhy)
    BY <1>1, <1>2, TakeType
  <1>4. ToSet(fromPhy) = {m} \cup ToSet(fromPhy')
    BY <1>1, <1>2, <1>3, SetOfTail
  <1>5. /\ Asked(p)' = Asked(p) /\ InHand(p)' = InHand(p) /\ Passed(p)' = Passed(p) /\ Told(p)' = Told(p)
        /\ state'[p] = state[p] /\ macState'[p] = macState[p] /\ pending'[p] = pending[p]
        /\ ~Cleaning(p) /\ phyId'[p] = phyId[p]
    BY <1>1 DEF Asked, InHand, Passed, Told, mac, inst, Cleaning, ApiQueue
  <1>6. Token(p)
    BY DEF CarefulInv
  <1>7. /\ Single(fromPhy', FromCarrier(p))
        /\ m \in FromCarrier(p) => ToSet(fromPhy') \cap FromCarrier(p) = {}
    BY <1>1, <1>2, <1>3, <1>6, SingleTail DEF Token, OneEach
  <1>8. OneEach(p)'
    BY <1>1, <1>6, <1>7 DEF Token, OneEach, ApiQueue
  <1>9. Queued(p) = {} /\ Queued(p)' = {}
    <2>1. sendList[p] = <<>>
      BY <1>1 DEF CarefulInv, HeadersInv
    <2>2. sendList'[p] = <<>> \/ sendList'[p] = <<"HEADER">>
      <3>1. Append(<<>>, "HEADER") = <<"HEADER">>
        OBVIOUS
      <3>2. sendList'[p] = IF state[p] = "IDLE" THEN sendList[p] ELSE Append(sendList[p], "HEADER")
        BY <1>1
      <3> QED BY <2>1, <3>1, <3>2
    <2>3. \A b : <<"HEADER", b>> # <<>> /\ <<"HEADER", b>> # <<"HEADER">>
      OBVIOUS
    <2> QED BY <2>1, <2>2, <2>3 DEF Queued
  <1>10. AtHandler(p) = {} /\ AtHandler(p)' = IF m.idx = p /\ m.type # "SLOT" THEN {m.type} ELSE {}
    <2>1. m.type \in Requests \/ m.type = "SLOT"
      BY DEF FromPhyMsg, Requests
    <2>2. "SLOT" \notin Requests
      BY DEF Requests
    <2>3. AtHandler(p) = {}
      BY <1>1 DEF AtHandler
    <2>4. p2m'.pc = "handle" /\ p2m'.msg = m
      BY <1>1, <1>3
    <2>5. \A r : r \in AtHandler(p)' <=> r \in Requests /\ m.idx = p /\ m.type = r
      BY <2>4 DEF AtHandler
    <2>6. \A r : r \in AtHandler(p)' <=> m.idx = p /\ m.type # "SLOT" /\ m.type = r
      BY <2>1, <2>2, <2>5
    <2> QED BY <2>3, <2>6
  <1>11. CASE m.idx # p \/ m.type = "SLOT"
    <2>1. Returned(p)' = Returned(p)
      <3>1. m.idx = p => m.type \notin Requests
        BY <1>11 DEF Requests
      <3> QED BY <1>4, <3>1 DEF Returned
    <2>2. AtHandler(p)' = {}
      BY <1>10, <1>11
    <2> QED BY <1>5, <1>6, <1>8, <1>9, <1>10, <2>1, <2>2, SameToken
  <1>12. CASE m.idx = p /\ m.type # "SLOT"
    <2>1. m.type \in Requests /\ m \in FromCarrier(p)
      BY <1>12 DEF FromPhyMsg, FromCarrier, Requests
    <2>2. m.type \in Returned(p)
      BY <1>4, <1>12, <2>1 DEF Returned
    <2>3. Asked(p) = {} /\ InHand(p) = {} /\ Passed(p) = {} /\ Told(p) = {}
      BY <1>6, <2>2 DEF Token, OnePlace, Underway, Decided
    <2>4. Returned(p)' = {}
      <3>1. ASSUME NEW y \in ToSet(fromPhy'), y.idx = p, y.type \in Requests PROVE FALSE
        <4>1. y \in FromPhyMsg
          BY <1>1, <1>2, TakeType DEF ToSet
        <4>2. y \in FromCarrier(p)
          BY <3>1, <4>1 DEF FromCarrier, Requests
        <4> QED BY <1>7, <2>1, <4>2
      <3> QED BY <3>1 DEF Returned
    <2>5. Goes(m.type, p)'
      <3>1. Goes(m.type, p)
        BY <1>6, <2>2 DEF Token, Underway
      <3> QED BY <1>5, <3>1 DEF Goes
    <2>6. Underway(p)' = {m.type} /\ Decided(p)' = {} /\ InHand(p)' = {} /\ OnePlace(p)'
      BY <1>5, <1>9, <1>10, <1>12, <2>3, <2>4 DEF Underway, Decided, OnePlace
    <2> QED BY <1>8, <2>5, <2>6 DEF Token
  <1> QED BY <1>11, <1>12

(***************************************************************************)
(* A response handler of the phy2mac thread works on the token of its      *)
(* instance, and leaves the other instances alone.                         *)
(***************************************************************************)
Handler ==
    /\ p2m.pc = "handle" /\ p2m'.pc \in {"send", "cleanId"} /\ p2m'.msg = p2m.msg
    /\ UNCHANGED <<phyId, fromMac, m2p, fromPhy, toMac, mac>>

\* What a handler finds.
LEMMA Handled1 ==
    ASSUME Known, CarefulInv, p2m.pc = "handle", p2m.msg.type # "SLOT"
    PROVE  /\ Carrier \in Phys /\ AtHandler(Carrier) = {p2m.msg.type}
           /\ Goes(p2m.msg.type, Carrier)
           /\ Asked(Carrier) = {} /\ InHand(Carrier) = {} /\ Passed(Carrier) = {}
           /\ Returned(Carrier) = {} /\ Queued(Carrier) = {} /\ Told(Carrier) = {}
           /\ state[Carrier] # "IDLE" => phyId[Carrier] = Carrier
           /\ sendList[Carrier] = Begun(Carrier)
  <1> DEFINE q == Carrier
             t == p2m.msg.type
  <1>1. q \in Phys /\ t \in Requests
    BY DEF Carrier, Known, CoreOK, Phy2MacOK, FromPhyMsg, Requests
  <1>2. AtHandler(q) = {t}
    <2>1. \A r : r \in AtHandler(q) <=> r = t
      BY <1>1 DEF AtHandler, Carrier
    <2> QED BY <2>1
  <1>3. Token(q) /\ sendList[q] = Begun(q)
    BY <1>1 DEF CarefulInv, HeadersInv
  <1> HIDE DEF q, t
  <1>4. Goes(t, q) /\ Asked(q) = {} /\ InHand(q) = {} /\ Passed(q) = {}
           /\ Returned(q) = {} /\ Queued(q) = {} /\ Told(q) = {}
    BY <1>2, <1>3 DEF Token, OnePlace, Underway, Decided
  <1>5. state[q] # "IDLE" => phyId[q] = q
    BY <1>1 DEF Known, ActiveNamed
  <1> QED BY <1>1, <1>2, <1>3, <1>4, <1>5 DEF q, t

LEMMA OthersToken ==
    ASSUME Known, CarefulInv, Handler, NEW p \in Phys, p # Carrier \/ p2m.msg.type = "SLOT",
           state'[p] = state[p], Queued(p)' = {},
           Passed(p)' = Passed(p), Single(ApiQueue', ToCarrier(p))
    PROVE  Token(p)'
  <1>1. /\ Asked(p)' = Asked(p) /\ InHand(p)' = InHand(p) /\ Returned(p)' = Returned(p)
        /\ Told(p)' = Told(p) /\ macState'[p] = macState[p] /\ pending'[p] = pending[p]
        /\ phyId'[p] = phyId[p] /\ ~Cleaning(p)
    BY DEF Handler, Asked, InHand, Returned, Told, mac, Cleaning
  <1>2. AtHandler(p) = {} /\ AtHandler(p)' = {}
    <2>1. "SLOT" \notin Requests
      BY DEF Requests
    <2> QED BY <2>1 DEF Handler, AtHandler, Carrier
  <1>3. Token(p)
    BY DEF CarefulInv
  <1>4. Queued(p) = {}
    <2>1. sendList[p] = <<>> \/ sendList[p] = <<"HEADER">>
      BY DEF Handler, CarefulInv, HeadersInv, Begun
    <2>2. \A b : <<"HEADER", b>> # <<>> /\ <<"HEADER", b>> # <<"HEADER">>
      OBVIOUS
    <2> QED BY <2>1, <2>2 DEF Queued
  <1>5. OneEach(p)'
    BY <1>3 DEF Handler, OneEach, Token
  <1> QED BY <1>1, <1>2, <1>3, <1>4, <1>5, SameToken

LEMMA CarrierToken ==
    ASSUME Known, CarefulInv, Handler, NEW p \in Phys, p = Carrier, p2m.msg.type # "SLOT",
           Single(ApiQueue', ToCarrier(p)), Passed(p)' = {} \/ Queued(p)' = {},
           \A r \in Passed(p)' : Goes(r, p)', \A a \in Queued(p)' : EndFits(a, p)',
           Passed(p)' = {} /\ Queued(p)' = {} => Settled(p)'
    PROVE  Token(p)'
  <1>1. /\ Asked(p)' = {} /\ InHand(p)' = {} /\ Returned(p)' = {} /\ Told(p)' = {} /\ AtHandler(p)' = {}
    <2>1. Asked(p) = {} /\ InHand(p) = {} /\ Returned(p) = {} /\ Told(p) = {}
      BY Handled1 DEF Handler
    <2>2. Asked(p)' = Asked(p) /\ InHand(p)' = InHand(p) /\ Returned(p)' = Returned(p) /\ Told(p)' = Told(p)
      BY DEF Handler, Asked, InHand, Returned, Told
    <2>3. AtHandler(p)' = {}
      BY DEF Handler, AtHandler
    <2> QED BY <2>1, <2>2, <2>3
  <1>2. Token(p)
    BY DEF CarefulInv
  <1>3. OneEach(p)'
    BY <1>2 DEF Handler, OneEach, Token
  <1>4. Underway(p)' = Passed(p)' /\ Decided(p)' = Queued(p)'
    BY <1>1 DEF Underway, Decided
  <1>5. OnePlace(p)'
    BY <1>1, <1>4 DEF OnePlace
  <1> QED BY <1>1, <1>3, <1>4, <1>5 DEF Token

\* Two sequences of one element end to end.
LEMMA JoinOnes ==
    ASSUME NEW S, NEW s \in Seq(S), NEW t \in Seq(S), NEW u \in Seq(S),
           Len(s) = 1, Len(t) = 1, Len(u) = 2, u[1] = s[1], u[2] = t[1]
    PROVE  s \o t = u
  <1>1. s \o t \in Seq(S) /\ Len(s \o t) = 2
    OBVIOUS
  <1> DEFINE m == Len(s)
  <1>2. /\ 1 \in 1..(Len(s) + Len(t)) /\ 1 <= m
        /\ m + 1 \in 1..(Len(s) + Len(t)) /\ ~(m + 1 <= m) /\ (m + 1) - m = 1 /\ m + 1 = 2
    OBVIOUS
  <1>3. \A i \in 1..(Len(s) + Len(t)) : (s \o t)[i] = IF i <= m THEN s[i] ELSE t[i - m]
    BY ConcatProperties, Zenon
  <1> HIDE DEF m
  <1>5. (s \o t)[1] = s[1] /\ (s \o t)[2] = t[1]
    BY <1>2, <1>3
  <1>4. \A i \in 1..2 : (s \o t)[i] = u[i]
    <2> SUFFICES ASSUME NEW i \in 1..2 PROVE (s \o t)[i] = u[i]
      OBVIOUS
    <2>1. i = 1 \/ i = 2
      OBVIOUS
    <2> QED BY <1>5, <2>1
  <1> QED BY <1>1, <1>4

\* What a handler adds to the list of its instance.
LEMMA AddBegun ==
    ASSUME NEW a
    PROVE  /\ <<"HEADER">> \o <<a>> = <<"HEADER", a>>
           /\ <<>> \o <<"HEADER", a>> = <<"HEADER", a>>
  <1>1. <<"HEADER">> \o <<a>> = <<"HEADER", a>>
    <2> DEFINE s == <<"HEADER">>
               t == <<a>>
               u == <<"HEADER", a>>
    <2>1. s \in Seq({"HEADER", a}) /\ t \in Seq({"HEADER", a}) /\ u \in Seq({"HEADER", a})
      OBVIOUS
    <2>2. Len(s) = 1 /\ Len(t) = 1 /\ Len(u) = 2 /\ s[1] = "HEADER" /\ t[1] = a
          /\ u[1] = "HEADER" /\ u[2] = a
      OBVIOUS
    <2> HIDE DEF s, t, u
    <2>3. s \o t = u
      BY <2>1, <2>2, JoinOnes
    <2> QED BY <2>3 DEF s, t, u
  <1>2. <<"HEADER", a>> \in Seq({"HEADER", a})
    OBVIOUS
  <1> QED BY <1>1, <1>2, JoinEmpty

LEMMA QueuedIs ==
    ASSUME NEW p \in Phys, NEW a \in Finals, sendList'[p] = <<"HEADER", a>>
    PROVE  Queued(p)' = {a}
  <1>1. \A b : <<"HEADER", b>> = <<"HEADER", a>> <=> b = a
    OBVIOUS
  <1>2. \A b : b \in Queued(p)' <=> b = a
    BY <1>1 DEF Queued
  <1> QED BY <1>2

LEMMA QueuedNone ==
    ASSUME NEW p \in Phys, sendList'[p] \in {<<>>, <<"HEADER">>, <<"HEADER", "SLOT_IND">>}
    PROVE  Queued(p)' = {}
  <1>1. \A b : /\ <<"HEADER", b>> # <<>> /\ <<"HEADER", b>> # <<"HEADER">>
              /\ <<"HEADER", b>> = <<"HEADER", "SLOT_IND">> => b = "SLOT_IND"
    OBVIOUS
  <1> QED BY <1>1 DEF Queued, Finals

\* The queue to the PHY, left alone or with the shutdown of the handler's
\* instance behind it.
LEMMA QueueKept ==
    ASSUME Known, CarefulInv, UNCHANGED <<apiList, toPhy>>, NEW p \in Phys
    PROVE  Passed(p)' = Passed(p) /\ Single(ApiQueue', ToCarrier(p))
  BY DEF Passed, ApiQueue, CarefulInv, Token, OneEach

LEMMA QueueAsked ==
    ASSUME Known, CarefulInv, p2m.pc = "handle", p2m.msg.type # "SLOT", AskShutdown, NEW p \in Phys
    PROVE  /\ Single(ApiQueue', ToCarrier(p))
           /\ p # Carrier => Passed(p)' = Passed(p)
           /\ p = Carrier => Passed(p)' = {"SHUTDOWN"}
  <1>0. PICK q \in Phys : q = Carrier
    BY Handled1
  <1> DEFINE x == [type |-> "SHUTDOWN", idx |-> q]
  <1>1. x \in ToPhyMsg /\ x.idx = q /\ x.type = "SHUTDOWN"
    BY DEF ToPhyMsg
  <1> HIDE DEF x
  <1>2. toPhy \in Seq(ToPhyMsg) /\ apiList \in Seq(ToPhyMsg)
    BY DEF Known, CoreOK, ChannelsOK
  <1>3. ApiQueue \in Seq(ToPhyMsg) /\ ApiQueue' = Append(ApiQueue, x)
    <2>1. toPhy' = toPhy \o Append(apiList, x) /\ apiList' = <<>>
      BY <1>0 DEF AskShutdown, SendApiList, x
    <2>2. ApiQueue \in Seq(ToPhyMsg)
      BY <1>2, JoinType DEF ApiQueue
    <2>3. toPhy' = Append(ApiQueue, x) /\ Append(ApiQueue, x) \in Seq(ToPhyMsg)
      BY <1>1, <1>2, <2>1, <2>2, AppendJoin, AppendType DEF ApiQueue
    <2>4. ApiQueue' = toPhy' \o apiList'
      BY DEF ApiQueue
    <2> QED BY <2>1, <2>2, <2>3, <2>4, JoinEmpty
  <1>4. ToSet(ApiQueue') = ToSet(ApiQueue) \cup {x}
    BY <1>1, <1>3, SetOfAppend
  <1>5. Passed(q) = {}
    BY <1>0, Handled1
  <1>6. Token(p)
    BY DEF CarefulInv
  <1>7. x \in ToCarrier(p) => ToSet(ApiQueue) \cap ToCarrier(p) = {}
    <2> SUFFICES ASSUME x \in ToCarrier(p), NEW y \in ToSet(ApiQueue), y \in ToCarrier(p) PROVE FALSE
      OBVIOUS
    <2>1. y.idx = q /\ y.type \in Requests
      BY <1>1 DEF ToCarrier, ToPhyMsg, Requests
    <2> QED BY <1>5, <2>1 DEF Passed
  <1>8. Single(ApiQueue', ToCarrier(p))
    BY <1>1, <1>3, <1>6, <1>7, SingleAppend DEF Token, OneEach
  <1>9. ASSUME p # q PROVE Passed(p)' = Passed(p)
    BY <1>1, <1>4, <1>9 DEF Passed
  <1>10. ASSUME p = q PROVE Passed(p)' = {"SHUTDOWN"}
    <2>1. "SHUTDOWN" \in Requests
      BY DEF Requests
    <2> QED BY <1>1, <1>4, <1>5, <1>10, <2>1 DEF Passed
  <1> QED BY <1>0, <1>8, <1>9, <1>10

LEMMA FinalsListed ==
    Finals = {"CONFIG_RESP", "CONFIG_FAIL", "PARAM_RESP", "STOP_IND",
              "ERROR_START", "ERROR_STOP", "ERROR_SHUTDOWN"}
  BY DEF Finals, Answers, Errors

LEMMA TokenRefuse ==
    ASSUME Known, CarefulInv, RefuseAnswer, NEW p \in Phys
    PROVE  Token(p)'
  <1>1. /\ p2m.pc = "handle" /\ p2m.msg.type # "SLOT" /\ phyId[Carrier] # Carrier
        /\ Handler /\ UNCHANGED <<inst, apiList, toPhy, sendList>>
    <2>1. p2m.pc = "handle" /\ p2m.msg.type # "SLOT" /\ phyId[Carrier] # Carrier /\ Handled
          /\ UNCHANGED <<inst, fromMac, m2p, apiList, toPhy, fromPhy, sendList, toMac, mac>>
      BY DEF RefuseAnswer
    <2>2. p2m'.pc = "send" /\ p2m'.msg = p2m.msg
      BY <2>1 DEF Handled, Known, CoreOK, Phy2MacOK
    <2> QED BY <2>1, <2>2 DEF Handler, inst
  <1>2. Passed(p)' = Passed(p) /\ Single(ApiQueue', ToCarrier(p))
    BY <1>1, QueueKept
  <1>3. Queued(p)' = {}
    <2>1. sendList'[p] \in {<<>>, <<"HEADER">>}
      BY <1>1 DEF CarefulInv, HeadersInv, Begun
    <2> QED BY <2>1, QueuedNone
  <1>4. CASE p # Carrier
    BY <1>1, <1>2, <1>3, <1>4, OthersToken DEF inst
  <1>5. CASE p = Carrier
    <2>1. Passed(p)' = {} /\ Goes(p2m.msg.type, p) /\ state[p] = "IDLE"
      BY <1>1, <1>2, <1>5, Handled1
    <2>2. Settled(p)'
      BY <1>1, <2>1 DEF Settled, Goes, Handler, mac, inst
    <2> QED BY <1>1, <1>2, <1>3, <1>5, <2>1, <2>2, CarrierToken
  <1> QED BY <1>4, <1>5

LEMMA TokenConfig ==
    ASSUME Known, CarefulInv, ConfigResponse, NEW p \in Phys
    PROVE  Token(p)'
  <1>0. PICK q \in Phys : q = Carrier
    BY DEF Known, CoreOK, Phy2MacOK, FromPhyMsg, Carrier
  <1>a. PICK idle \in BOOLEAN : idle <=> state[q] = "IDLE"
    OBVIOUS
  <1>b. PICK ok \in BOOLEAN : ok <=> p2m.msg.status = "ok"
    OBVIOUS
  <1>c. PICK resp \in {"CONFIG_RESP", "CONFIG_FAIL"} : resp = IF ok THEN "CONFIG_RESP" ELSE "CONFIG_FAIL"
    OBVIOUS
  <1>1. /\ p2m.pc = "handle" /\ p2m.msg.type = "CONFIG" /\ Handler /\ UNCHANGED <<apiList, toPhy>>
        /\ sendList' = AddToMac(sendList, q, IF idle THEN <<"HEADER", resp>> ELSE <<resp>>)
        /\ state' = IF idle /\ ok THEN [state EXCEPT ![q] = "CONFIGURED"] ELSE state
    <2>1. p2m'.pc = "send" /\ p2m'.msg = p2m.msg
      BY DEF ConfigResponse, Handled, Known, CoreOK, Phy2MacOK
    <2> QED BY <1>0, <1>a, <1>b, <1>c, <2>1 DEF ConfigResponse, Answering, Handler
  <1>2. Passed(p)' = Passed(p) /\ Single(ApiQueue', ToCarrier(p))
    BY <1>1, QueueKept
  <1>3. sendList \in [Phys -> Seq(Message)] /\ state \in [Phys -> {"IDLE", "CONFIGURED", "RUNNING"}]
    BY DEF Known, ListsOK, CoreOK, RecordsOK
  <1>4. ASSUME p # q PROVE Token(p)'
    <2>1. sendList'[p] = sendList[p] /\ state'[p] = state[p]
      BY <1>1, <1>3, <1>4 DEF AddToMac
    <2>2. Queued(p)' = {}
      <3>1. sendList'[p] \in {<<>>, <<"HEADER">>}
        BY <1>1, <2>1 DEF CarefulInv, HeadersInv, Begun
      <3> QED BY <3>1, QueuedNone
    <2> QED BY <1>0, <1>1, <1>2, <1>4, <2>1, <2>2, OthersToken
  <1>5. ASSUME p = q PROVE Token(p)'
    <2>1. /\ Passed(p)' = {} /\ Goes("CONFIG", p) /\ sendList[p] = Begun(p)
      BY <1>0, <1>1, <1>2, <1>5, Handled1
    <2>2. resp \in Finals
      BY <1>c, FinalsListed
    <2>3. sendList'[p] = <<"HEADER", resp>>
      <3>1. sendList'[p] = sendList[p] \o IF idle THEN <<"HEADER", resp>> ELSE <<resp>>
        BY <1>1, <1>3, <1>5 DEF AddToMac
      <3>2. sendList[p] = IF idle THEN <<>> ELSE <<"HEADER">>
        BY <1>a, <1>5, <2>1 DEF Begun
      <3> QED BY <3>1, <3>2, AddBegun
    <2>4. Queued(p)' = {resp}
      BY <2>2, <2>3, QueuedIs
    <2>5. pending'[p] = "CONFIG" /\ macState'[p] = state[p]
      BY <1>1, <2>1 DEF Goes, Handler, mac
    <2>6. EndFits(resp, p)'
      <3>1. state'[p] = IF idle /\ ok THEN "CONFIGURED" ELSE state[p]
        BY <1>1, <1>3, <1>5
      <3>2. resp \in Ends("CONFIG") /\ resp # "ERROR_START"
        BY <1>c DEF Ends
      <3>3. View(state[p], "CONFIG", {"HEADER", resp}) = state'[p]
        BY <1>a, <1>c, <1>5, <3>1 DEF View
      <3> QED BY <2>5, <3>2, <3>3 DEF EndFits
    <2>7. \A a \in Queued(p)' : EndFits(a, p)'
      BY <2>4, <2>6
    <2> QED BY <1>0, <1>1, <1>2, <1>5, <2>1, <2>4, <2>7, CarrierToken
  <1> QED BY <1>4, <1>5

LEMMA TokenStart ==
    ASSUME Known, CarefulInv, StartResponse, NEW p \in Phys
    PROVE  Token(p)'
  <1>0. PICK q \in Phys : q = Carrier
    BY DEF Known, CoreOK, Phy2MacOK, FromPhyMsg, Carrier
  <1>1. /\ p2m.pc = "handle" /\ p2m.msg.type = "START" /\ Handler /\ UNCHANGED <<apiList, toPhy>>
        /\ \/ /\ state' = [state EXCEPT ![q] = IF @ = "CONFIGURED" THEN "RUNNING" ELSE @]
              /\ UNCHANGED sendList
           \/ /\ sendList' = AddToMac(sendList, q, <<"ERROR_START">>)
              /\ UNCHANGED state
    <2>1. p2m'.pc = "send" /\ p2m'.msg = p2m.msg
      BY DEF StartResponse, Handled, Known, CoreOK, Phy2MacOK
    <2>2. p2m.msg.status # "other"
      BY DEF StartResponse, Answering, CarefulInv, StatusInv
    <2> QED BY <1>0, <2>1, <2>2 DEF StartResponse, Answering, Handler
  <1>2. Passed(p)' = Passed(p) /\ Single(ApiQueue', ToCarrier(p))
    BY <1>1, QueueKept
  <1>3. sendList \in [Phys -> Seq(Message)] /\ state \in [Phys -> {"IDLE", "CONFIGURED", "RUNNING"}]
    BY DEF Known, ListsOK, CoreOK, RecordsOK
  <1>4. ASSUME p # q PROVE Token(p)'
    <2>1. sendList'[p] = sendList[p] /\ state'[p] = state[p]
      BY <1>1, <1>3, <1>4 DEF AddToMac
    <2>2. Queued(p)' = {}
      <3>1. sendList'[p] \in {<<>>, <<"HEADER">>}
        BY <1>1, <2>1 DEF CarefulInv, HeadersInv, Begun
      <3> QED BY <3>1, QueuedNone
    <2> QED BY <1>0, <1>1, <1>2, <1>4, <2>1, <2>2, OthersToken
  <1>5. ASSUME p = q PROVE Token(p)'
    <2>1. /\ Passed(p)' = {} /\ Goes("START", p) /\ sendList[p] = Begun(p)
      BY <1>0, <1>1, <1>2, <1>5, Handled1
    <2>2. /\ pending'[p] = "START" /\ macState'[p] = "CONFIGURED" /\ state[p] = "CONFIGURED"
          /\ sendList[p] = <<"HEADER">>
      BY <1>1, <2>1 DEF Goes, Handler, mac, Begun
    <2>3. CASE state' = [state EXCEPT ![q] = IF @ = "CONFIGURED" THEN "RUNNING" ELSE @] /\ UNCHANGED sendList
      <3>1. state'[p] = "RUNNING" /\ Queued(p)' = {}
        BY <1>3, <1>5, <2>2, <2>3, QueuedNone
      <3>2. Settled(p)'
        BY <2>2, <3>1 DEF Settled
      <3> QED BY <1>0, <1>1, <1>2, <1>5, <2>1, <3>1, <3>2, CarrierToken
    <2>4. CASE sendList' = AddToMac(sendList, q, <<"ERROR_START">>) /\ UNCHANGED state
      <3>1. sendList'[p] = <<"HEADER", "ERROR_START">>
        BY <1>3, <1>5, <2>2, <2>4, AddBegun DEF AddToMac
      <3>2. Queued(p)' = {"ERROR_START"}
        BY <3>1, QueuedIs, FinalsListed
      <3>3. EndFits("ERROR_START", p)'
        BY <2>2, <2>4 DEF EndFits, Ends, View
      <3> QED BY <1>0, <1>1, <1>2, <1>5, <2>1, <3>2, <3>3, CarrierToken
    <2> QED BY <1>1, <2>3, <2>4
  <1> QED BY <1>4, <1>5

LEMMA TokenStop ==
    ASSUME Known, CarefulInv, StopResponse, NEW p \in Phys
    PROVE  Token(p)'
  <1>0. PICK q \in Phys : q = Carrier
    BY DEF Known, CoreOK, Phy2MacOK, FromPhyMsg, Carrier
  <1>1. /\ p2m.pc = "handle" /\ p2m.msg.type = "STOP" /\ Handler
        /\ \/ /\ state' = [state EXCEPT ![q] = IF @ = "RUNNING" THEN "CONFIGURED" ELSE @]
              /\ AskShutdown /\ UNCHANGED sendList
           \/ /\ sendList' = AddToMac(sendList, q, <<"ERROR_STOP">>)
              /\ UNCHANGED <<state, apiList, toPhy>>
    <2>1. p2m'.pc = "send" /\ p2m'.msg = p2m.msg
      BY DEF StopResponse, Handled, Known, CoreOK, Phy2MacOK
    <2>2. p2m.msg.status # "other"
      BY DEF StopResponse, Answering, CarefulInv, StatusInv
    <2> QED BY <1>0, <2>1, <2>2 DEF StopResponse, Answering, Handler
  <1>2. Single(ApiQueue', ToCarrier(p)) /\ (p # q => Passed(p)' = Passed(p))
    BY <1>0, <1>1, QueueKept, QueueAsked
  <1>3. sendList \in [Phys -> Seq(Message)] /\ state \in [Phys -> {"IDLE", "CONFIGURED", "RUNNING"}]
    BY DEF Known, ListsOK, CoreOK, RecordsOK
  <1>4. ASSUME p # q PROVE Token(p)'
    <2>1. sendList'[p] = sendList[p] /\ state'[p] = state[p]
      BY <1>1, <1>3, <1>4 DEF AddToMac
    <2>2. Queued(p)' = {}
      <3>1. sendList'[p] \in {<<>>, <<"HEADER">>}
        BY <1>1, <2>1 DEF CarefulInv, HeadersInv, Begun
      <3> QED BY <3>1, QueuedNone
    <2> QED BY <1>0, <1>1, <1>2, <1>4, <2>1, <2>2, OthersToken
  <1>5. ASSUME p = q PROVE Token(p)'
    <2>1. /\ Passed(p) = {} /\ Goes("STOP", p) /\ sendList[p] = Begun(p)
      BY <1>0, <1>1, <1>2, <1>5, Handled1
    <2>2. /\ pending'[p] = "STOP" /\ macState'[p] = "RUNNING" /\ state[p] = "RUNNING"
          /\ sendList[p] = <<"HEADER">>
      BY <1>1, <2>1 DEF Goes, Handler, mac, Begun
    <2>3. CASE /\ state' = [state EXCEPT ![q] = IF @ = "RUNNING" THEN "CONFIGURED" ELSE @]
               /\ AskShutdown /\ UNCHANGED sendList
      <3>1. state'[p] = "CONFIGURED" /\ Queued(p)' = {}
        BY <1>3, <1>5, <2>2, <2>3, QueuedNone
      <3>2. Passed(p)' = {"SHUTDOWN"}
        BY <1>0, <1>1, <1>5, <2>3, QueueAsked
      <3>3. Goes("SHUTDOWN", p)'
        BY <2>2, <3>1 DEF Goes
      <3> QED BY <1>0, <1>1, <1>2, <1>5, <3>1, <3>2, <3>3, CarrierToken
    <2>4. CASE sendList' = AddToMac(sendList, q, <<"ERROR_STOP">>) /\ UNCHANGED <<state, apiList, toPhy>>
      <3>1. sendList'[p] = <<"HEADER", "ERROR_STOP">>
        BY <1>3, <1>5, <2>2, <2>4, AddBegun DEF AddToMac
      <3>2. Queued(p)' = {"ERROR_STOP"} /\ Passed(p)' = {}
        BY <2>1, <2>4, <3>1, QueuedIs, FinalsListed, QueueKept
      <3>3. EndFits("ERROR_STOP", p)'
        BY <2>2, <2>4 DEF EndFits, Ends, View, Errors
      <3> QED BY <1>0, <1>1, <1>2, <1>5, <3>2, <3>3, CarrierToken
    <2> QED BY <1>1, <2>3, <2>4
  <1> QED BY <1>4, <1>5
LEMMA TokenShutdownDone ==
    ASSUME Known, CarefulInv, ShutdownDone, NEW p \in Phys
    PROVE  Token(p)'
  <1>0. PICK q \in Phys : q = Carrier
    BY DEF Known, CoreOK, Phy2MacOK, FromPhyMsg, Carrier
  <1>1. /\ p2m.pc = "handle" /\ p2m.msg.type = "SHUTDOWN" /\ Handler /\ UNCHANGED <<apiList, toPhy, state>>
        /\ sendList' = AddToMac(sendList, q, <<"STOP_IND">>) /\ p2m'.pc = "cleanId"
    <2>1. p2m'.pc = "cleanId" /\ p2m'.msg = p2m.msg
      BY DEF ShutdownDone, Known, CoreOK, Phy2MacOK
    <2> QED BY <1>0, <2>1 DEF ShutdownDone, Answering, Handler
  <1>2. Passed(p)' = Passed(p) /\ Single(ApiQueue', ToCarrier(p))
    BY <1>1, QueueKept
  <1>3. sendList \in [Phys -> Seq(Message)]
    BY DEF Known, ListsOK
  <1>4. ASSUME p # q PROVE Token(p)'
    <2>1. sendList'[p] = sendList[p] /\ state'[p] = state[p]
      BY <1>1, <1>3, <1>4 DEF AddToMac
    <2>2. Queued(p)' = {}
      <3>1. sendList'[p] \in {<<>>, <<"HEADER">>}
        BY <1>1, <2>1 DEF CarefulInv, HeadersInv, Begun
      <3> QED BY <3>1, QueuedNone
    <2> QED BY <1>0, <1>1, <1>2, <1>4, <2>1, <2>2, OthersToken
  <1>5. ASSUME p = q PROVE Token(p)'
    <2>1. /\ Passed(p)' = {} /\ Goes("SHUTDOWN", p) /\ sendList[p] = Begun(p)
      BY <1>0, <1>1, <1>2, <1>5, Handled1
    <2>2. sendList[p] = <<"HEADER">>
      BY <2>1 DEF Goes, Begun
    <2>3. sendList'[p] = <<"HEADER", "STOP_IND">>
      BY <1>1, <1>3, <1>5, <2>2, AddBegun DEF AddToMac
    <2>4. Queued(p)' = {"STOP_IND"}
      BY <2>3, QueuedIs, FinalsListed
    <2>5. Goes("SHUTDOWN", p)' /\ Cleaning(p)' /\ pending'[p] \in {"STOP", "SHUTDOWN"}
      BY <1>0, <1>1, <1>5, <2>1 DEF Goes, Handler, mac, Cleaning, Carrier
    <2>6. EndFits("STOP_IND", p)'
      BY <2>5 DEF EndFits, Ends
    <2> QED BY <1>0, <1>1, <1>2, <1>5, <2>1, <2>4, <2>6, CarrierToken
  <1> QED BY <1>4, <1>5

LEMMA TokenShutdownRetry ==
    ASSUME Known, CarefulInv, ShutdownRetry, NEW p \in Phys
    PROVE  Token(p)'
  <1>0. PICK q \in Phys : q = Carrier
    BY DEF Known, CoreOK, Phy2MacOK, FromPhyMsg, Carrier
  <1>1. /\ p2m.pc = "handle" /\ p2m.msg.type = "SHUTDOWN" /\ Handler /\ UNCHANGED <<state, sendList>>
        /\ AskShutdown
    <2>1. p2m'.pc = "send" /\ p2m'.msg = p2m.msg
      BY DEF ShutdownRetry, Handled, Known, CoreOK, Phy2MacOK
    <2> QED BY <1>0, <2>1 DEF ShutdownRetry, Answering, Handler
  <1>2. /\ Single(ApiQueue', ToCarrier(p)) /\ (p # q => Passed(p)' = Passed(p))
        /\ (p = q => Passed(p)' = {"SHUTDOWN"})
    BY <1>0, <1>1, QueueAsked
  <1>3. Queued(p)' = {}
    <2>1. sendList'[p] \in {<<>>, <<"HEADER">>}
      BY <1>1 DEF CarefulInv, HeadersInv, Begun
    <2> QED BY <2>1, QueuedNone
  <1>4. ASSUME p # q PROVE Token(p)'
    BY <1>0, <1>1, <1>2, <1>3, <1>4, OthersToken
  <1>5. ASSUME p = q PROVE Token(p)'
    <2>1. Goes("SHUTDOWN", p)
      BY <1>0, <1>1, <1>5, Handled1
    <2>2. Goes("SHUTDOWN", p)'
      BY <1>1, <2>1 DEF Goes, Handler, mac
    <2> QED BY <1>0, <1>1, <1>2, <1>3, <1>5, <2>2, CarrierToken
  <1> QED BY <1>4, <1>5

LEMMA TokenShutdownGiveUp ==
    ASSUME Known, CarefulInv, ShutdownGiveUp, NEW p \in Phys
    PROVE  Token(p)'
  <1>0. PICK q \in Phys : q = Carrier
    BY DEF Known, CoreOK, Phy2MacOK, FromPhyMsg, Carrier
  <1>1. /\ p2m.pc = "handle" /\ p2m.msg.type = "SHUTDOWN" /\ Handler /\ UNCHANGED <<apiList, toPhy, state>>
        /\ sendList' = AddToMac(sendList, q, <<"ERROR_SHUTDOWN">>)
    <2>1. p2m'.pc = "send" /\ p2m'.msg = p2m.msg
      BY DEF ShutdownGiveUp, Handled, Known, CoreOK, Phy2MacOK
    <2> QED BY <1>0, <2>1 DEF ShutdownGiveUp, Answering, Handler
  <1>2. Passed(p)' = Passed(p) /\ Single(ApiQueue', ToCarrier(p))
    BY <1>1, QueueKept
  <1>3. sendList \in [Phys -> Seq(Message)]
    BY DEF Known, ListsOK
  <1>4. ASSUME p # q PROVE Token(p)'
    <2>1. sendList'[p] = sendList[p] /\ state'[p] = state[p]
      BY <1>1, <1>3, <1>4 DEF AddToMac
    <2>2. Queued(p)' = {}
      <3>1. sendList'[p] \in {<<>>, <<"HEADER">>}
        BY <1>1, <2>1 DEF CarefulInv, HeadersInv, Begun
      <3> QED BY <3>1, QueuedNone
    <2> QED BY <1>0, <1>1, <1>2, <1>4, <2>1, <2>2, OthersToken
  <1>5. ASSUME p = q PROVE Token(p)'
    <2>1. /\ Passed(p)' = {} /\ Goes("SHUTDOWN", p) /\ sendList[p] = Begun(p)
      BY <1>0, <1>1, <1>2, <1>5, Handled1
    <2>2. sendList[p] = <<"HEADER">>
      BY <2>1 DEF Goes, Begun
    <2>3. sendList'[p] = <<"HEADER", "ERROR_SHUTDOWN">>
      BY <1>1, <1>3, <1>5, <2>2, AddBegun DEF AddToMac
    <2>4. Queued(p)' = {"ERROR_SHUTDOWN"}
      BY <2>3, QueuedIs, FinalsListed
    <2>5. /\ macState'[p] = macState[p] /\ pending'[p] = pending[p] /\ state'[p] = state[p]
      BY <1>1 DEF Handler, mac
    <2>6. "ERROR_SHUTDOWN" \in Ends(pending[p]) /\ View(macState[p], pending[p], {"HEADER", "ERROR_SHUTDOWN"}) = state[p]
      BY <2>1 DEF Goes, Ends, View
    <2>7. EndFits("ERROR_SHUTDOWN", p)'
      BY <2>5, <2>6 DEF EndFits
    <2> QED BY <1>0, <1>1, <1>2, <1>5, <2>1, <2>4, <2>7, CarrierToken
  <1> QED BY <1>4, <1>5

LEMMA TokenClean ==
    ASSUME Known, CarefulInv, CleanId \/ CleanState, NEW p \in Phys
    PROVE  Token(p)'
  <1>0. PICK q \in Phys : q = Carrier
    BY DEF Known, CoreOK, Phy2MacOK, FromPhyMsg, Carrier
  <1>1. /\ p2m.pc \in {"cleanId", "cleanState"} /\ p2m'.msg = p2m.msg /\ p2m'.pc # "handle"
        /\ UNCHANGED <<fromMac, m2p, apiList, toPhy, fromPhy, sendList, toMac, mac>>
        /\ \/ /\ p2m'.pc = "cleanState" /\ phyId' = [phyId EXCEPT ![q] = 0] /\ state' = state
           \/ /\ p2m'.pc = "send" /\ state' = [state EXCEPT ![q] = "IDLE"] /\ phyId' = phyId
    BY <1>0 DEF CleanId, CleanState, Handled, Known, CoreOK, Phy2MacOK
  <1>2. /\ Asked(p)' = Asked(p) /\ InHand(p)' = InHand(p) /\ Passed(p)' = Passed(p)
        /\ Returned(p)' = Returned(p) /\ AtHandler(p)' = AtHandler(p)
        /\ Queued(p)' = Queued(p) /\ Told(p)' = Told(p)
        /\ macState'[p] = macState[p] /\ pending'[p] = pending[p]
    BY <1>1 DEF Asked, InHand, Passed, Returned, AtHandler, Queued, Told, ApiQueue, mac
  <1>3. Token(p)
    BY DEF CarefulInv
  <1>4. OneEach(p)'
    BY <1>1, <1>3 DEF Token, OneEach, ApiQueue
  <1>5. phyId \in [Phys -> Phys] /\ state \in [Phys -> {"IDLE", "CONFIGURED", "RUNNING"}]
    BY DEF Known, CoreOK, RecordsOK
  <1>6. ASSUME p # q PROVE Token(p)'
    <2>1. phyId'[p] = phyId[p] /\ state'[p] = state[p]
      BY <1>1, <1>5, <1>6
    <2>2. ~Cleaning(p)
      BY <1>0, <1>6 DEF Cleaning
    <2> QED BY <1>2, <1>3, <1>4, <2>1, <2>2, SameToken
  <1>7. ASSUME p = q PROVE Token(p)'
    <2>1. Queued(p) = {"STOP_IND"}
      <3>1. sendList[p] = <<"HEADER", "STOP_IND">>
        BY <1>0, <1>1, <1>7 DEF CarefulInv, HeadersInv
      <3>2. \A b : <<"HEADER", b>> = <<"HEADER", "STOP_IND">> <=> b = "STOP_IND"
        OBVIOUS
      <3>3. \A b : b \in Queued(p) <=> b = "STOP_IND"
        BY <3>1, <3>2, FinalsListed DEF Queued
      <3> QED BY <3>3
    <2>2. Underway(p) = {} /\ Told(p) = {} /\ EndFits("STOP_IND", p) /\ InHand(p) = {}
      BY <1>3, <2>1 DEF Token, OnePlace, Decided, Underway
    <2>3. CASE p2m'.pc = "cleanState" /\ state' = state
      <3>1. Cleaning(p)'
        BY <1>0, <1>1, <1>7, <2>3 DEF Cleaning, Carrier
      <3> QED BY <1>2, <1>3, <1>4, <2>2, <2>3, <3>1, SameToken
    <2>4. CASE state' = [state EXCEPT ![q] = "IDLE"]
      <3>1. state'[p] = "IDLE"
        BY <1>5, <1>7, <2>4
      <3>2. EndFits("STOP_IND", p)'
        BY <1>2, <2>2, <3>1 DEF EndFits, View
      <3>3. Underway(p)' = {} /\ Decided(p)' = {"STOP_IND"} /\ OnePlace(p)' /\ InHand(p)' = {}
        BY <1>2, <2>1, <2>2 DEF Underway, Decided, OnePlace
      <3> QED BY <1>4, <3>2, <3>3 DEF Token
    <2> QED BY <1>1, <2>3, <2>4
  <1> QED BY <1>6, <1>7

LEMMA TokenSlot ==
    ASSUME Known, CarefulInv, SlotIndication, NEW p \in Phys
    PROVE  Token(p)' /\ (sendList'[p] = Begun(p) \/
                         (sendList'[p] = <<"HEADER", "SLOT_IND">> /\ state[p] = "RUNNING"))
  <1>1. /\ p2m.pc = "handle" /\ p2m.msg.type = "SLOT" /\ Handler /\ UNCHANGED <<inst, apiList, toPhy>>
    <2>1. p2m'.pc = "send" /\ p2m'.msg = p2m.msg
      BY DEF SlotIndication, Handled, Known, CoreOK, Phy2MacOK
    <2> QED BY <2>1 DEF SlotIndication, Handler, inst
  <1>2. sendList'[p] = sendList[p] \/ (state[p] = "RUNNING" /\ sendList'[p] = Append(sendList[p], "SLOT_IND"))
    BY DEF SlotIndication
  <1>3. sendList[p] = Begun(p)
    BY <1>1 DEF CarefulInv, HeadersInv
  <1>4. Append(<<"HEADER">>, "SLOT_IND") = <<"HEADER", "SLOT_IND">>
    <2> DEFINE s == <<"HEADER">>
    <2>1. s \in Seq(Message) /\ <<>> \in Seq(Message) /\ "SLOT_IND" \in Message
      BY AnswersListed
    <2>2. Append(<<>>, "SLOT_IND") = <<"SLOT_IND">>
      OBVIOUS
    <2>3. s \o <<"SLOT_IND">> = <<"HEADER", "SLOT_IND">>
      BY AddBegun
    <2> HIDE DEF s
    <2>4. s \o Append(<<>>, "SLOT_IND") = Append(s \o <<>>, "SLOT_IND")
      BY <2>1, AppendJoin
    <2>5. s \o <<>> = s
      BY <2>1, JoinEmpty
    <2> QED BY <2>2, <2>3, <2>4, <2>5 DEF s
  <1>5. sendList'[p] = Begun(p) \/ (sendList'[p] = <<"HEADER", "SLOT_IND">> /\ state[p] = "RUNNING")
    BY <1>2, <1>3, <1>4 DEF Begun
  <1>6. Queued(p)' = {}
    BY <1>5, QueuedNone DEF Begun
  <1>7. Passed(p)' = Passed(p) /\ Single(ApiQueue', ToCarrier(p))
    BY <1>1, QueueKept
  <1> QED BY <1>1, <1>5, <1>6, <1>7, OthersToken DEF inst

(***************************************************************************)
(* The lists to the MAC, all at once: one segment for each instance that   *)
(* has something to say.                                                   *)
(***************************************************************************)
Segments(segs) ==
    /\ segs \in Seq(Segment) /\ toMac' = toMac \o segs
    /\ \A i \in DOMAIN segs : \E q \in Phys, a \in Answers :
          segs[i] = Final(q, a) /\ sendList[q] = <<"HEADER", a>>
    /\ \A q \in Phys, a \in Answers : sendList[q] = <<"HEADER", a>> =>
          \E i \in DOMAIN segs : segs[i] = Final(q, a)
    /\ \A i, j \in DOMAIN segs : segs[i].phy = segs[j].phy => i = j

LEMMA AscendingOnce ==
    ASSUME NEW S, IsFiniteSet(S), S \subseteq Nat, NEW o \in Ascending(S)
    PROVE  /\ Cardinality(S) \in Nat /\ o \in [1..Cardinality(S) -> S]
           /\ \A i, j \in 1..Cardinality(S) : o[i] = o[j] => i = j
           /\ \A x \in S : \E i \in 1..Cardinality(S) : o[i] = x
  <1> DEFINE n == Cardinality(S)
  <1>1. n \in Nat
    BY FS_CardinalityType
  <1>2. o \in [1..n -> S] /\ \A i, j \in 1..n : i < j => o[i] < o[j]
    BY DEF Ascending
  <1>3. IsFiniteSet(1..n) /\ Cardinality(1..n) = n
    <2>1. 1 \in Int /\ n \in Int /\ (IF 1 > n THEN 0 ELSE n - 1 + 1) = n
      BY <1>1
    <2> QED BY <2>1, FS_Interval
  <1> HIDE DEF n
  <1>4. \A i, j \in 1..n : o[i] = o[j] => i = j
    <2> SUFFICES ASSUME NEW i \in 1..n, NEW j \in 1..n, o[i] = o[j], i # j PROVE FALSE
      OBVIOUS
    <2>1. i < j \/ j < i
      BY <1>1
    <2>2. o[i] \in Nat /\ o[i] < o[i]
      BY <1>2, <2>1
    <2> QED BY <2>2
  <1>5. o \in Injection(1..n, S)
    BY <1>2, <1>4 DEF Injection, IsInjective
  <1>6. o \in Surjection(1..n, S)
    BY <1>3, <1>5, FS_Injection DEF n
  <1>7. \A x \in S : \E i \in 1..n : o[i] = x
    BY <1>6 DEF Surjection
  <1> QED BY <1>1, <1>2, <1>4, <1>7 DEF n

LEMMA SendSegments ==
    ASSUME Known, CarefulInv, P2MSend
    PROVE  /\ p2m.pc = "send" /\ p2m'.pc = "recv" /\ sendList' = [p \in Phys |-> <<>>]
           /\ UNCHANGED <<inst, fromMac, m2p, apiList, toPhy, fromPhy, mac>>
           /\ \E segs : Segments(segs)
  <1>1. p2m.pc = "send" /\ p2m'.pc = "recv" /\ sendList' = [p \in Phys |-> <<>>]
        /\ UNCHANGED <<inst, fromMac, m2p, apiList, toPhy, fromPhy, mac>>
    BY DEF P2MSend, SendMacLists, CarefulInv, HeadersInv
  <1>2. \A q \in Phys : Filled(q)
    BY <1>1 DEF CarefulInv, HeadersInv
  <1>3. \A q \in Phys : q \in Committed <=> \E a \in Answers : sendList[q] = <<"HEADER", a>>
    <2>1. \A a : <<"HEADER", a>> # <<>> /\ <<"HEADER", a>> # <<"HEADER">>
      OBVIOUS
    <2> QED BY <1>2, <2>1 DEF Committed, Filled
  <1>4. Committed \subseteq Phys /\ IsFiniteSet(Committed) /\ Committed \subseteq Nat
    <2>1. Committed \subseteq Phys
      BY DEF Committed
    <2> QED BY <2>1, PhysFinite, FS_Subset
  <1>5. ~Dropped
    <2> SUFFICES ASSUME NEW q \in Phys, Committed = {q}, Len(sendList[q]) = 1 PROVE FALSE
      BY DEF Dropped
    <2>1. PICK a \in Answers : sendList[q] = <<"HEADER", a>>
      BY <1>3
    <2> QED BY <2>1
  <1> DEFINE n == Cardinality(Committed)
  <1>6. PICK order \in Ascending(Committed) :
           toMac' = toMac \o [i \in 1..n |-> [phy |-> order[i], msgs |-> sendList[order[i]]]]
    BY <1>5 DEF P2MSend, SendMacLists
  <1>7. /\ n \in Nat /\ order \in [1..n -> Committed]
        /\ \A i, j \in 1..n : order[i] = order[j] => i = j
        /\ \A x \in Committed : \E i \in 1..n : order[i] = x
    BY <1>4, <1>6, AscendingOnce
  <1> HIDE DEF n
  <1> DEFINE segs == [i \in 1..n |-> [phy |-> order[i], msgs |-> sendList[order[i]]]]
  <1>8. \A i \in 1..n : segs[i] = [phy |-> order[i], msgs |-> sendList[order[i]]]
    OBVIOUS
  <1>9. \A i \in 1..n : \E q \in Phys, a \in Answers :
          segs[i] = Final(q, a) /\ sendList[q] = <<"HEADER", a>> /\ order[i] = q
    <2> TAKE i \in 1..n
    <2>1. order[i] \in Committed /\ order[i] \in Phys
      BY <1>4, <1>7
    <2>2. PICK a \in Answers : sendList[order[i]] = <<"HEADER", a>>
      BY <1>3, <2>1
    <2> QED BY <1>8, <2>1, <2>2 DEF Final
  <1>10. segs \in Seq(Segment) /\ DOMAIN segs = 1..n
    <2>1. \A i \in 1..n : [phy |-> order[i], msgs |-> sendList[order[i]]] \in Segment
      <3>1. \A i \in 1..n : order[i] \in Phys
        BY <1>4, <1>7
      <3> QED BY <3>1 DEF Known, ListsOK, Segment, Message
    <2> QED BY <1>7, <2>1
  <1>11. toMac' = toMac \o segs
    BY <1>6
  <1>12. \A i \in 1..n : segs[i].phy = order[i]
    BY <1>8
  <1> HIDE DEF segs
  <1>13. \A q \in Phys, a \in Answers : sendList[q] = <<"HEADER", a>> =>
           \E i \in 1..n : segs[i] = Final(q, a)
    <2> SUFFICES ASSUME NEW q \in Phys, NEW a \in Answers, sendList[q] = <<"HEADER", a>>
                 PROVE  \E i \in 1..n : segs[i] = Final(q, a)
      OBVIOUS
    <2>1. PICK i \in 1..n : order[i] = q
      BY <1>3, <1>7
    <2>2. PICK b \in Answers : segs[i] = Final(q, b) /\ sendList[q] = <<"HEADER", b>>
      BY <1>9, <2>1
    <2>3. a = b
      <3>1. \A c, d : <<"HEADER", c>> = <<"HEADER", d>> => c = d
        OBVIOUS
      <3> QED BY <2>2, <3>1
    <2> QED BY <2>2, <2>3
  <1>14. Segments(segs)
    <2>1. \A i, j \in DOMAIN segs : segs[i].phy = segs[j].phy => i = j
      BY <1>7, <1>10, <1>12
    <2>2. \A i \in DOMAIN segs : \E q \in Phys, a \in Answers :
             segs[i] = Final(q, a) /\ sendList[q] = <<"HEADER", a>>
      <3> SUFFICES ASSUME NEW i \in 1..n
                   PROVE  \E q \in Phys, a \in Answers :
                            segs[i] = Final(q, a) /\ sendList[q] = <<"HEADER", a>>
        BY <1>10
      <3>1. PICK q \in Phys, a \in Answers :
               segs[i] = Final(q, a) /\ sendList[q] = <<"HEADER", a>>
        BY <1>9
      <3> QED BY <3>1
    <2>3. \A q \in Phys, a \in Answers : sendList[q] = <<"HEADER", a>> =>
             \E i \in DOMAIN segs : segs[i] = Final(q, a)
      BY <1>10, <1>13
    <2> QED BY <1>10, <1>11, <2>1, <2>2, <2>3 DEF Segments
  <1> QED BY <1>1, <1>14

\* What the lists that go out say of one instance.
LEMMA SegmentOf ==
    ASSUME NEW segs, Segments(segs), NEW p \in Phys, NEW a \in Answers
    PROVE  Final(p, a) \in ToSet(segs) <=> sendList[p] = <<"HEADER", a>>
  <1>1. ASSUME sendList[p] = <<"HEADER", a>> PROVE Final(p, a) \in ToSet(segs)
    BY <1>1 DEF Segments, ToSet
  <1>2. ASSUME Final(p, a) \in ToSet(segs) PROVE sendList[p] = <<"HEADER", a>>
    <2>1. PICK i \in DOMAIN segs : segs[i] = Final(p, a)
      BY <1>2 DEF ToSet
    <2>2. PICK q \in Phys, b \in Answers : segs[i] = Final(q, b) /\ sendList[q] = <<"HEADER", b>>
      BY DEF Segments
    <2>3. p = q /\ a = b
      <3>1. Final(p, a).phy = Final(q, b).phy /\ Final(p, a).msgs = Final(q, b).msgs
        BY <2>1, <2>2
      <3>2. \A c, d : <<"HEADER", c>> = <<"HEADER", d>> => c = d
        OBVIOUS
      <3> QED BY <3>1, <3>2 DEF Final
    <2> QED BY <2>2, <2>3
  <1> QED BY <1>1, <1>2

LEMMA ToldAfterSend ==
    ASSUME Known, CarefulInv, P2MSend, NEW p \in Phys
    PROVE  Told(p)' = Told(p) \cup Queued(p) /\ Queued(p)' = {}
  <1>1. PICK segs : Segments(segs)
    BY SendSegments
  <1>2. ToSet(toMac') = ToSet(toMac) \cup ToSet(segs)
    BY <1>1, SetOfJoin DEF Known, ListsOK, Segments
  <1>3. \A a \in Finals : Final(p, a) \in ToSet(toMac') <=> a \in Told(p) \/ a \in Queued(p)
    <2>1. Finals \subseteq Answers
      BY DEF Finals
    <2>2. \A a \in Finals : Final(p, a) \in ToSet(segs) <=> sendList[p] = <<"HEADER", a>>
      BY <1>1, <2>1, SegmentOf
    <2> QED BY <1>2, <2>2 DEF Told, Queued
  <1>4. Told(p)' = {a \in Finals : Final(p, a) \in ToSet(toMac')}
    BY DEF Told, Final
  <1>5. Queued(p)' = {}
    BY SendSegments, QueuedNone
  <1> QED BY <1>3, <1>4, <1>5 DEF Told, Queued

LEMMA TokenP2MSend ==
    ASSUME Known, CarefulInv, P2MSend, NEW p \in Phys
    PROVE  Token(p)'
  <1>1. /\ p2m.pc = "send" /\ p2m'.pc = "recv" /\ sendList' = [q \in Phys |-> <<>>]
        /\ UNCHANGED <<inst, fromMac, m2p, apiList, toPhy, fromPhy, mac>>
    BY SendSegments
  <1>2. PICK segs : Segments(segs)
    BY SendSegments
  <1>3. toMac \in Seq(Segment) /\ segs \in Seq(Segment) /\ toMac' = toMac \o segs
    BY <1>2 DEF Known, ListsOK, Segments
  <1>5. \A a \in Answers : Final(p, a) \in ToSet(segs) <=> sendList[p] = <<"HEADER", a>>
    BY <1>2, SegmentOf
  <1>6. Finals \subseteq Answers
    BY DEF Finals
  <1>7. Told(p)' = Told(p) \cup Queued(p) /\ Queued(p)' = {}
    BY ToldAfterSend
  <1>8. Token(p)
    BY DEF CarefulInv
  <1>9. Single(toMac', Ending(p))
    <2>1. Single(segs, Ending(p))
      <3> SUFFICES ASSUME NEW i \in DOMAIN segs, NEW j \in DOMAIN segs,
                          segs[i] \in Ending(p), segs[j] \in Ending(p)
                   PROVE  i = j
        BY DEF Single
      <3>1. segs[i].phy = p /\ segs[j].phy = p
        BY DEF Ending, Final
      <3> QED BY <1>2, <3>1 DEF Segments
    <2>2. Queued(p) = {} => ToSet(segs) \cap Ending(p) = {}
      BY <1>5, <1>6 DEF Queued, Ending
    <2>3. Queued(p) # {} => ToSet(toMac) \cap Ending(p) = {}
      <3>1. Queued(p) # {} => Told(p) = {}
        BY <1>8 DEF Token, OnePlace
      <3> QED BY <3>1 DEF Told, Ending
    <2> QED BY <1>3, <1>8, <2>1, <2>2, <2>3, SingleJoin DEF Token, OneEach
  <1>10. OneEach(p)'
    <2>1. Single(toMac', Ending(p)')
      BY <1>9 DEF Ending, Final
    <2> QED BY <1>1, <1>8, <2>1 DEF Token, OneEach, ApiQueue
  <1>11. /\ Asked(p)' = Asked(p) /\ InHand(p)' = InHand(p) /\ Passed(p)' = Passed(p)
         /\ Returned(p)' = Returned(p) /\ AtHandler(p) = {} /\ AtHandler(p)' = {}
         /\ macState'[p] = macState[p] /\ pending'[p] = pending[p] /\ state'[p] = state[p]
         /\ phyId'[p] = phyId[p] /\ ~Cleaning(p)
    BY <1>1 DEF Asked, InHand, Passed, Returned, AtHandler, ApiQueue, mac, inst, Cleaning
  <1>12. Underway(p)' = Underway(p) /\ Decided(p)' = Decided(p)
    BY <1>7, <1>11 DEF Underway, Decided
  <1>13. OnePlace(p)'
    BY <1>7, <1>8, <1>11, <1>12 DEF Token, OnePlace
  <1>14. \A r : Goes(r, p) => Goes(r, p)'
    BY <1>11 DEF Goes
  <1>15. \A a : EndFits(a, p) => EndFits(a, p)'
    BY <1>11 DEF EndFits
  <1>16. Settled(p) => Settled(p)'
    BY <1>11 DEF Settled
  <1> QED BY <1>8, <1>10, <1>11, <1>12, <1>13, <1>14, <1>15, <1>16 DEF Token

\* A careful MAC sends no PARAM.request, which the mac2phy thread answers itself.
LEMMA NoParam ==
    ASSUME Known, CarefulInv
    PROVE  ~ParamHeader /\ ~ParamAnswer /\ ~ParamSend
  <1>1. ASSUME ParamHeader PROVE FALSE
    <2>1. m2p.pc = "handle" /\ m2p.list.msgs # <<>> /\ m2p.list.msgs[1] = "PARAM"
          /\ m2p.list.msgs \in Seq(Requests \cup P7)
      BY <1>1 DEF ParamHeader, Handling, Known, CoreOK, Mac2PhyOK, MacList
    <2>2. 1 \in DOMAIN m2p.list.msgs
      BY <2>1
    <2>3. "PARAM" \in ToSet(m2p.list.msgs)
      BY <2>1, <2>2 DEF ToSet
    <2> QED BY <2>1, <2>3 DEF CarefulInv, ShapeInv, Shape
  <1> QED BY <1>1 DEF ParamAnswer, ParamSend, CarefulInv, ShapeInv

\* No step of a careful MAC's run loses or doubles a request under way.
LEMMA TokenStep ==
    ASSUME Known, CarefulInv, OneRequestEach, [Next]_vars, careless = 0, careless' = 0, NEW p \in Phys
    PROVE  Token(p)'
  <1>1. CASE \E q \in Phys : MacSend(q)
    BY <1>1, TokenMacSend
  <1>2. CASE MacReceive
    BY <1>2, TokenMacReceive
  <1>3. CASE Mac2Phy
    <2>1. ~ParamHeader /\ ~ParamAnswer /\ ~ParamSend
      BY NoParam
    <2>2. CASE M2PRecv
      BY <2>2, TokenM2PRecv
    <2>3. CASE M2POrder
      BY <2>3, TokenM2POrder
    <2>4. CASE ConfigRequest
      <3>1. PICK guard \in BOOLEAN : guard = (m2p.list.vendor /\ state[m2p.list.phy] # "RUNNING")
        OBVIOUS
      <3> QED BY <2>4, <3>1, TokenForward DEF ConfigRequest
    <2>5. CASE StartRequest
      <3>1. PICK guard \in BOOLEAN : guard = (m2p.list.vendor /\ state[m2p.list.phy] = "CONFIGURED")
        OBVIOUS
      <3> QED BY <2>5, <3>1, TokenForward DEF StartRequest
    <2>6. CASE StopRequest
      <3>1. m2p.list.vendor \in BOOLEAN
        BY DEF Known, CoreOK, Mac2PhyOK, MacList
      <3> QED BY <2>6, <3>1, TokenForward DEF StopRequest
    <2>7. CASE ShutdownRequest
      BY <2>7, TokenForward DEF ShutdownRequest
    <2>8. CASE TtiRequest
      BY <2>8, TokenTti
    <2>9. CASE M2PSend
      BY <2>9, TokenM2PSend
    <2> QED BY <1>3, <2>1, <2>2, <2>3, <2>4, <2>5, <2>6, <2>7, <2>8, <2>9 DEF Mac2Phy
  <1>4. CASE PhyAnswer \/ PhyTick
    BY <1>4, TokenPhyAnswer, TokenPhyTick
  <1>5. CASE Phy2Mac
    BY <1>5, TokenP2MRecv, TokenRefuse, TokenConfig, TokenStart, TokenStop, TokenShutdownDone,
       TokenShutdownRetry, TokenShutdownGiveUp, TokenClean, TokenSlot, TokenP2MSend DEF Phy2Mac
  <1>6. CASE UNCHANGED vars
    <2>1. Token(p)
      BY DEF CarefulInv
    <2>2. UNCHANGED <<state, phyId, fromMac, m2p, apiList, toPhy, fromPhy, p2m, sendList, toMac, macState, pending>>
      BY <1>6 DEF vars, inst, mac
    <2>3. /\ Asked(p)' = Asked(p) /\ InHand(p)' = InHand(p) /\ Passed(p)' = Passed(p)
          /\ Returned(p)' = Returned(p) /\ AtHandler(p)' = AtHandler(p)
          /\ Queued(p)' = Queued(p) /\ Told(p)' = Told(p) /\ Cleaning(p)' = Cleaning(p)
      BY <2>2 DEF Asked, InHand, Passed, Returned, AtHandler, Queued, Told, ApiQueue, Cleaning, Carrier
    <2>4. OneEach(p)'
      BY <2>1, <2>2 DEF Token, OneEach, ApiQueue
    <2> QED BY <2>1, <2>2, <2>3, <2>4, SameToken
  <1> QED BY <1>1, <1>2, <1>3, <1>4, <1>5, <1>6 DEF Next

LEMMA ShapeStep ==
    ASSUME Known, CarefulInv, OneRequestEach, [Next]_vars, careless = 0, careless' = 0
    PROVE  ShapeInv'
  <1>1. ShapeInv /\ fromMac \in Seq(SentList) /\ m2p.pc \in {"recv", "order", "handle", "param", "paramSend", "send"}
    BY DEF CarefulInv, Known, CoreOK, Mac2PhyOK
  <1>2. ASSUME NEW q \in Phys, MacSend(q) PROVE ShapeInv'
    <2>1. PICK l \in Lists, v \in BOOLEAN :
           /\ careless' = IF Careful(q, l, v) THEN careless ELSE careless + 1
           /\ fromMac' = Append(fromMac, [phy |-> q, msgs |-> l, vendor |-> v])
      BY <1>2 DEF MacSend
    <2>2. Careful(q, l, v) /\ m2p' = m2p
      BY <1>2, <2>1 DEF MacSend
    <2>3. Shape(l)
      BY <2>2, CarefulList DEF Careful, Known, MacOK
    <2>4. [phy |-> q, msgs |-> l, vendor |-> v] \in SentList
      BY ControlAssumption DEF SentList, MacList
    <2>5. ToSet(fromMac') = ToSet(fromMac) \cup {[phy |-> q, msgs |-> l, vendor |-> v]}
      BY <1>1, <2>1, <2>4, SetOfAppend
    <2> QED BY <1>1, <2>2, <2>3, <2>5 DEF ShapeInv, Shape
  <1>3. CASE M2PRecv
    <2>1. /\ fromMac # <<>> /\ fromMac' = Tail(fromMac)
          /\ \/ m2p'.pc = "send"
             \/ m2p'.pc = "order" /\ m2p'.list = Head(fromMac)
      BY <1>3 DEF M2PRecv
    <2>2. ToSet(fromMac) = {Head(fromMac)} \cup ToSet(fromMac')
      BY <1>1, <2>1, SetOfTail
    <2> QED BY <1>1, <2>1, <2>2 DEF ShapeInv, Shape
  <1>4. CASE M2POrder
    <2>1. fromMac' = fromMac /\ (m2p'.pc = "send" \/ (m2p'.pc = "handle" /\ m2p'.list = m2p.list)) /\ m2p.pc = "order"
      BY <1>4 DEF M2POrder, Known, CoreOK, Mac2PhyOK
    <2> QED BY <1>1, <2>1 DEF ShapeInv, Shape
  <1>5. ASSUME m2p.pc = "handle", NextMessage, fromMac' = fromMac PROVE ShapeInv'
    <2>1. /\ m2p'.list.msgs = Tail(m2p.list.msgs) /\ m2p.list.msgs # <<>> /\ m2p'.pc \in {"handle", "send"}
          /\ m2p.list.msgs \in Seq(Requests \cup P7)
      BY <1>5, HandAfter, ControlAssumption
    <2>2. Shape(m2p.list.msgs)
      BY <1>1, <1>5 DEF ShapeInv
    <2>3. Shape(m2p'.list.msgs)
      BY <2>1, <2>2, SetOfTail, SingleTail DEF Shape
    <2> QED BY <1>1, <1>5, <2>1, <2>3 DEF ShapeInv, Shape
  <1>6. ASSUME ConfigRequest \/ StartRequest \/ StopRequest \/ ShutdownRequest \/ TtiRequest PROVE ShapeInv'
    BY <1>5, <1>6 DEF ConfigRequest, StartRequest, StopRequest, ShutdownRequest, TtiRequest, Forward, Handling
  <1>7. CASE M2PSend
    BY <1>1, <1>7 DEF M2PSend, ShapeInv, Shape
  <1>8. ~ParamHeader /\ ~ParamAnswer /\ ~ParamSend
    BY NoParam
  <1>9. CASE UNCHANGED <<fromMac, m2p>>
    BY <1>1, <1>9 DEF ShapeInv, Shape
  <1>10. MacReceive \/ PhyAnswer \/ PhyTick \/ Phy2Mac \/ UNCHANGED vars => UNCHANGED <<fromMac, m2p>>
    BY DEF MacReceive, PhyAnswer, PhyTick, vars, Phy2Mac, P2MRecv, RefuseAnswer, ConfigResponse,
           StartResponse, StopResponse, ShutdownDone, ShutdownRetry, ShutdownGiveUp, CleanId,
           CleanState, SlotIndication, P2MSend
  <1> QED BY <1>2, <1>3, <1>4, <1>6, <1>7, <1>8, <1>9, <1>10 DEF Next, Mac2Phy
\* What the response handlers do to the lists and to the state of the instances.
LEMMA HandlerAdds ==
    ASSUME Known, CarefulInv,
           \/ RefuseAnswer \/ ConfigResponse \/ StartResponse \/ StopResponse
           \/ ShutdownDone \/ ShutdownRetry \/ ShutdownGiveUp
    PROVE  /\ p2m.pc = "handle" /\ p2m.msg.type # "SLOT" /\ p2m'.msg = p2m.msg
           /\ p2m'.pc = "send" \/ (p2m'.pc = "cleanId" /\ ShutdownDone)
           /\ UNCHANGED <<fromMac, m2p, fromPhy, toMac, mac>>
           /\ \A p \in Phys \ {Carrier} : state'[p] = state[p] /\ sendList'[p] = sendList[p]
           /\ \/ sendList'[Carrier] = Begun(Carrier)
              \/ \E a \in Finals : sendList'[Carrier] = <<"HEADER", a>>
           /\ \/ state'[Carrier] = state[Carrier]
              \/ state'[Carrier] # "IDLE" /\ state[Carrier] # "RUNNING"
              \/ StopResponse /\ p2m.msg.type = "STOP"
  <1>0. PICK q \in Phys : q = Carrier
    BY DEF Known, CoreOK, Phy2MacOK, FromPhyMsg, Carrier
  <1>1. /\ p2m.pc = "handle" /\ p2m.msg.type # "SLOT" /\ p2m'.msg = p2m.msg
        /\ p2m'.pc = "send" \/ (p2m'.pc = "cleanId" /\ ShutdownDone)
        /\ UNCHANGED <<fromMac, m2p, fromPhy, toMac, mac>>
    BY DEF RefuseAnswer, ConfigResponse, StartResponse, StopResponse, ShutdownDone, ShutdownRetry,
           ShutdownGiveUp, Answering, Handled, Known, CoreOK, Phy2MacOK
  <1>2. /\ sendList \in [Phys -> Seq(Message)] /\ state \in [Phys -> {"IDLE", "CONFIGURED", "RUNNING"}]
        /\ sendList[q] = Begun(q) /\ Goes(p2m.msg.type, q)
    BY <1>0, <1>1, Handled1 DEF Known, ListsOK, CoreOK, RecordsOK
  <1>3. \/ sendList' = sendList
        \/ \E ms : sendList' = AddToMac(sendList, q, ms)
    BY <1>0 DEF RefuseAnswer, ConfigResponse, StartResponse, StopResponse, ShutdownDone, ShutdownRetry,
           ShutdownGiveUp
  <1>4. \/ state' = state
        \/ \E t \in {"IDLE", "CONFIGURED", "RUNNING"} : state' = [state EXCEPT ![q] = t]
    <2>1. /\ (IF state[q] = "CONFIGURED" THEN "RUNNING" ELSE state[q]) \in {"IDLE", "CONFIGURED", "RUNNING"}
          /\ (IF state[q] = "RUNNING" THEN "CONFIGURED" ELSE state[q]) \in {"IDLE", "CONFIGURED", "RUNNING"}
      BY <1>2
    <2>2. CASE ConfigResponse
      BY <1>0, <2>2 DEF ConfigResponse
    <2>3. CASE StartResponse
      <3>1. state' = state \/ state' = [state EXCEPT ![q] = IF state[q] = "CONFIGURED" THEN "RUNNING" ELSE state[q]]
        BY <1>0, <2>3 DEF StartResponse
      <3> QED BY <2>1, <3>1
    <2>4. CASE StopResponse
      <3>1. state' = state \/ state' = [state EXCEPT ![q] = IF state[q] = "RUNNING" THEN "CONFIGURED" ELSE state[q]]
        BY <1>0, <2>4 DEF StopResponse
      <3> QED BY <2>1, <3>1
    <2>5. CASE RefuseAnswer \/ ShutdownDone \/ ShutdownRetry \/ ShutdownGiveUp
      BY <2>5 DEF RefuseAnswer, ShutdownDone, ShutdownRetry, ShutdownGiveUp, inst
    <2> QED BY <2>2, <2>3, <2>4, <2>5
  <1>5. \A p \in Phys \ {q} : state'[p] = state[p] /\ sendList'[p] = sendList[p]
    BY <1>2, <1>3, <1>4 DEF AddToMac
  <1>6. \/ sendList'[q] = Begun(q)
        \/ \E a \in Finals : sendList'[q] = <<"HEADER", a>>
    <2>1. CASE sendList' = sendList
      BY <1>2, <2>1
    <2>2. ASSUME NEW a \in Finals, sendList' = AddToMac(sendList, q, <<a>>), state[q] # "IDLE"
          PROVE  sendList'[q] = <<"HEADER", a>>
      BY <1>2, <2>2, AddBegun DEF AddToMac, Begun
    <2>3. ASSUME NEW a \in Finals, sendList' = AddToMac(sendList, q, <<"HEADER", a>>), state[q] = "IDLE"
          PROVE  sendList'[q] = <<"HEADER", a>>
      BY <1>2, <2>3, AddBegun DEF AddToMac, Begun
    <2>4. CASE ConfigResponse
      <3>1. PICK a \in Finals : sendList' = AddToMac(sendList, q,
                                   IF state[q] = "IDLE" THEN <<"HEADER", a>> ELSE <<a>>)
        BY <1>0, <2>4, FinalsListed DEF ConfigResponse
      <3> QED BY <2>2, <2>3, <3>1
    <2>5. CASE ShutdownDone \/ ShutdownGiveUp
      <3>1. state[q] # "IDLE"
        BY <1>2, <2>5 DEF ShutdownDone, ShutdownGiveUp, Answering, Goes
      <3>2. \E a \in Finals : sendList' = AddToMac(sendList, q, <<a>>)
        BY <1>0, <2>5, FinalsListed DEF ShutdownDone, ShutdownGiveUp
      <3> QED BY <2>2, <3>1, <3>2
    <2>6. CASE StartResponse
      <3>1. state[q] # "IDLE"
        BY <1>2, <2>6 DEF StartResponse, Answering, Goes
      <3>2. sendList' = sendList \/ \E a \in Finals : sendList' = AddToMac(sendList, q, <<a>>)
        BY <1>0, <2>6, FinalsListed DEF StartResponse
      <3> QED BY <2>1, <2>2, <3>1, <3>2
    <2>7. CASE StopResponse
      <3>1. state[q] # "IDLE"
        BY <1>2, <2>7 DEF StopResponse, Answering, Goes
      <3>2. sendList' = sendList \/ \E a \in Finals : sendList' = AddToMac(sendList, q, <<a>>)
        BY <1>0, <2>7, FinalsListed DEF StopResponse
      <3> QED BY <2>1, <2>2, <3>1, <3>2
    <2>8. CASE RefuseAnswer \/ ShutdownRetry
      BY <2>1, <2>8 DEF RefuseAnswer, ShutdownRetry
    <2> QED BY <2>4, <2>5, <2>6, <2>7, <2>8
  <1>7. \/ state'[q] = state[q]
        \/ state'[q] # "IDLE" /\ state[q] # "RUNNING"
        \/ StopResponse /\ p2m.msg.type = "STOP"
    <2>1. CASE ConfigResponse
      BY <1>0, <1>2, <2>1 DEF ConfigResponse
    <2>2. CASE StartResponse
      <3>1. state' = [state EXCEPT ![q] = IF @ = "CONFIGURED" THEN "RUNNING" ELSE @] \/ state' = state
        BY <1>0, <2>2 DEF StartResponse
      <3>2. state[q] = "CONFIGURED"
        BY <1>2, <2>2 DEF StartResponse, Answering, Goes
      <3> QED BY <1>2, <3>1, <3>2
    <2>3. CASE StopResponse
      BY <2>3 DEF StopResponse, Answering
    <2>4. CASE RefuseAnswer \/ ShutdownDone \/ ShutdownRetry \/ ShutdownGiveUp
      BY <2>4 DEF RefuseAnswer, ShutdownDone, ShutdownRetry, ShutdownGiveUp, inst
    <2> QED BY <2>1, <2>2, <2>3, <2>4
  <1> QED BY <1>0, <1>1, <1>5, <1>6, <1>7

\* The steps that touch none of the lists, nor the phy2mac thread, nor the states.
LEMMA ListsQuiet ==
    [Next]_vars => \/ UNCHANGED <<state, p2m, sendList, toMac>>
                   \/ MacReceive \/ ParamHeader \/ ParamAnswer \/ ParamSend \/ P2MRecv
                   \/ RefuseAnswer \/ ConfigResponse \/ StartResponse \/ StopResponse
                   \/ ShutdownDone \/ ShutdownRetry \/ ShutdownGiveUp \/ CleanId \/ CleanState
                   \/ SlotIndication \/ P2MSend
  BY DEF Next, vars, Mac2Phy, Phy2Mac, MacSend, M2PRecv, M2POrder, ConfigRequest, StartRequest,
         StopRequest, ShutdownRequest, Forward, TtiRequest, M2PSend, PhyAnswer, PhyTick, inst

\* Every list on its way to the MAC is a header and one message.
Told2Mac == \A i \in DOMAIN toMac : \E a \in Answers : toMac[i].msgs = <<"HEADER", a>>

LEMMA HeadersStep ==
    ASSUME Known, CarefulInv, [Next]_vars
    PROVE  HeadersInv'
  <1>1. HeadersInv /\ Told2Mac
    BY DEF CarefulInv, HeadersInv, Told2Mac
  <1>2. toMac' = toMac => Told2Mac'
    BY <1>1 DEF Told2Mac
  <1>3. Finals \subseteq Answers /\ "SLOT_IND" \notin Finals /\ "SLOT_IND" \in Answers
    BY DEF Finals, Answers
  <1>4. \A b : <<"HEADER", b>> # <<>> /\ <<"HEADER", b>> # <<"HEADER">>
    OBVIOUS
  <1>5. \A b, c : <<"HEADER", b>> = <<"HEADER", c>> => b = c
    OBVIOUS
  <1>6. CASE UNCHANGED <<state, p2m, sendList, toMac>>
    BY <1>1, <1>6 DEF HeadersInv, Begun, Filled, Carrier
  <1>7. CASE MacReceive
    <2>1. UNCHANGED <<state, p2m, sendList>> /\ toMac' = Tail(toMac) /\ toMac # <<>> /\ toMac \in Seq(Segment)
      BY <1>7 DEF MacReceive, inst, Known, ListsOK
    <2>2. \A i \in DOMAIN toMac' : i + 1 \in DOMAIN toMac /\ toMac'[i] = toMac[i + 1]
      BY <2>1
    <2>3. Told2Mac'
      BY <1>1, <2>2 DEF Told2Mac
    <2> QED BY <1>1, <2>1, <2>3 DEF HeadersInv, Begun, Filled, Carrier, Told2Mac
  <1>8. CASE P2MRecv
    <2>1. /\ p2m.pc = "recv" /\ p2m'.pc = "handle" /\ state' = state /\ toMac' = toMac
          /\ \A p \in Phys : sendList'[p] = IF state[p] = "IDLE" THEN sendList[p] ELSE Append(sendList[p], "HEADER")
      BY <1>8 DEF P2MRecv, inst
    <2>2. Append(<<>>, "HEADER") = <<"HEADER">>
      OBVIOUS
    <2>3. \A p \in Phys : sendList[p] = <<>>
      BY <1>1, <2>1 DEF HeadersInv
    <2>4. \A p \in Phys : sendList'[p] = Begun(p)'
      BY <2>1, <2>2, <2>3 DEF Begun
    <2> QED BY <1>2, <2>1, <2>4 DEF HeadersInv, Told2Mac
  <1>9. CASE \/ RefuseAnswer \/ ConfigResponse \/ StartResponse \/ StopResponse
             \/ ShutdownDone \/ ShutdownRetry \/ ShutdownGiveUp
    <2>1. PICK q \in Phys : q = Carrier
      BY DEF Known, CoreOK, Phy2MacOK, FromPhyMsg, Carrier
    <2>2. /\ p2m.pc = "handle" /\ toMac' = toMac /\ Carrier' = q
          /\ \A p \in Phys \ {q} : state'[p] = state[p] /\ sendList'[p] = sendList[p]
          /\ sendList'[q] = Begun(q) \/ \E a \in Finals : sendList'[q] = <<"HEADER", a>>
          /\ p2m'.pc = "send" \/ (p2m'.pc = "cleanId" /\ ShutdownDone)
      BY <1>9, <2>1, HandlerAdds DEF Carrier
    <2>3. \A p \in Phys : sendList[p] = Begun(p)
      BY <1>1, <2>2 DEF HeadersInv
    <2>4. CASE p2m'.pc = "send"
      <3>1. \A p \in Phys : Filled(p)' /\ sendList'[p] # <<"HEADER", "SLOT_IND">>
        BY <1>3, <1>4, <1>5, <2>2, <2>3 DEF Filled, Begun
      <3> QED BY <1>2, <2>2, <2>4, <3>1 DEF HeadersInv, Told2Mac
    <2>5. CASE p2m'.pc = "cleanId" /\ ShutdownDone
      <3>1. /\ state' = state /\ sendList' = AddToMac(sendList, q, <<"STOP_IND">>)
            /\ sendList \in [Phys -> Seq(Message)]
        BY <2>1, <2>5 DEF ShutdownDone, Known, ListsOK
      <3>2. state[q] # "IDLE"
        BY <2>1, <2>5, Handled1 DEF ShutdownDone, Answering, Goes
      <3>3. sendList'[q] = <<"HEADER", "STOP_IND">>
        BY <2>3, <3>1, <3>2, AddBegun DEF AddToMac, Begun
      <3>4. \A p \in Phys \ {q} : sendList'[p] = Begun(p)'
        BY <2>2, <2>3, <3>1 DEF Begun
      <3> QED BY <1>2, <2>2, <2>5, <3>1, <3>2, <3>3, <3>4 DEF HeadersInv, Told2Mac
    <2> QED BY <2>2, <2>4, <2>5
  <1>10. CASE CleanId
    <2>1. p2m.pc = "cleanId" /\ p2m'.pc = "cleanState" /\ Carrier' = Carrier /\ UNCHANGED <<state, sendList, toMac>>
      BY <1>10 DEF CleanId, Carrier, Known, CoreOK, Phy2MacOK
    <2> QED BY <1>1, <1>2, <2>1 DEF HeadersInv, Begun, Told2Mac
  <1>11. CASE CleanState
    <2>1. /\ p2m.pc = "cleanState" /\ p2m'.pc = "send" /\ UNCHANGED <<sendList, toMac>>
      BY <1>11 DEF CleanState, Handled, Known, CoreOK, Phy2MacOK
    <2>2. "STOP_IND" \in Finals
      BY FinalsListed
    <2>3. /\ sendList[Carrier] = <<"HEADER", "STOP_IND">>
          /\ \A p \in Phys \ {Carrier} : sendList[p] = Begun(p)
      BY <1>1, <2>1 DEF HeadersInv
    <2>4. \A p \in Phys : Filled(p)' /\ sendList'[p] # <<"HEADER", "SLOT_IND">>
      <3> TAKE p \in Phys
      <3>1. CASE p = Carrier
        BY <1>3, <1>5, <2>1, <2>2, <2>3, <3>1 DEF Filled
      <3>2. CASE p # Carrier
        BY <1>4, <2>1, <2>3, <3>2 DEF Filled, Begun
      <3> QED BY <3>1, <3>2
    <2> QED BY <1>2, <2>1, <2>4 DEF HeadersInv, Told2Mac
  <1>12. CASE SlotIndication
    <2>1. p2m'.pc = "send" /\ UNCHANGED <<state, toMac>>
      BY <1>12 DEF SlotIndication, Handled, inst, Known, CoreOK, Phy2MacOK
    <2>2. \A p \in Phys : sendList'[p] = Begun(p) \/
                         (sendList'[p] = <<"HEADER", "SLOT_IND">> /\ state[p] = "RUNNING")
      BY <1>12, TokenSlot
    <2>3. \A p \in Phys : Filled(p)' /\ (sendList'[p] = <<"HEADER", "SLOT_IND">> => state'[p] = "RUNNING")
      BY <1>3, <1>4, <2>1, <2>2 DEF Filled, Begun
    <2> QED BY <1>2, <2>1, <2>3 DEF HeadersInv, Told2Mac
  <1>13. CASE P2MSend
    <2>1. p2m'.pc = "recv" /\ sendList' = [p \in Phys |-> <<>>]
      BY <1>13, SendSegments
    <2>2. PICK segs : Segments(segs)
      BY <1>13, SendSegments
    <2>3. toMac \in Seq(Segment) /\ segs \in Seq(Segment) /\ toMac' = toMac \o segs
      BY <2>2 DEF Segments, Known, ListsOK
    <2>4. \A i \in DOMAIN toMac' : \/ i \in DOMAIN toMac /\ toMac'[i] = toMac[i]
                                   \/ i - Len(toMac) \in DOMAIN segs /\ toMac'[i] = segs[i - Len(toMac)]
      BY <2>3
    <2>5. \A i \in DOMAIN segs : \E a \in Answers : segs[i].msgs = <<"HEADER", a>>
      BY <2>2 DEF Segments, Final
    <2>6. Told2Mac'
      BY <1>1, <2>4, <2>5 DEF Told2Mac
    <2> QED BY <2>1, <2>6 DEF HeadersInv, Told2Mac
  <1> QED BY <1>6, <1>7, <1>8, <1>9, <1>10, <1>11, <1>12, <1>13, ListsQuiet, NoParam
LEMMA TicksStep ==
    ASSUME Known, CarefulInv, [Next]_vars, careless = 0, careless' = 0, NEW p \in Phys
    PROVE  Ticks(p)'
  <1>1. Ticks(p) /\ Token(p) /\ HeadersInv /\ toMac \in Seq(Segment)
    BY DEF CarefulInv, Known, ListsOK
  <1> DEFINE Late(i) == /\ macState[p] = "RUNNING" /\ pending[p] \in {"STOP", "SHUTDOWN"}
                        /\ \A j \in DOMAIN toMac : toMac[j] \in Ending(p) => i < j
  <1>2. \A i \in DOMAIN toMac : toMac[i] = Final(p, "SLOT_IND") => state[p] = "RUNNING" \/ Late(i)
    BY <1>1 DEF Ticks
  <1>3. ASSUME toMac' = toMac, macState'[p] = macState[p], pending'[p] = pending[p],
               state[p] = "RUNNING" => state'[p] = "RUNNING"
        PROVE  Ticks(p)'
    BY <1>1, <1>3 DEF Ticks, Ending, Final
  \* the state leaves RUNNING while the MAC waits for the end of a stop
  <1>4. ASSUME toMac' = toMac, macState'[p] = macState[p], pending'[p] = pending[p],
               Told(p) = {},
               state[p] = "RUNNING" => macState[p] = "RUNNING" /\ pending[p] \in {"STOP", "SHUTDOWN"}
        PROVE  Ticks(p)'
    <2>1. \A j \in DOMAIN toMac : toMac[j] \notin Ending(p)
      BY <1>4 DEF Told, Ending, ToSet
    <2> QED BY <1>1, <1>4, <2>1 DEF Ticks, Ending, Final
  <1>5. CASE UNCHANGED <<state, p2m, sendList, toMac>>
    <2>1. CASE UNCHANGED mac
      BY <1>3, <1>5, <2>1 DEF mac
    <2>2. ASSUME NEW q \in Phys, MacSend(q) PROVE Ticks(p)'
      <3>1. PICK l \in Lists, v \in BOOLEAN :
               /\ careless' = IF Careful(q, l, v) THEN careless ELSE careless + 1
               /\ pending' = [pending EXCEPT ![q] = RequestIn(l)]
        BY <2>2 DEF MacSend
      <3>2. pending[q] = "none" /\ macState' = macState /\ toMac' = toMac /\ state' = state
        BY <2>2, <3>1 DEF Careful, MacSend, inst
      <3>3. CASE p # q
        BY <1>3, <3>1, <3>2, <3>3 DEF Known, MacOK
      <3>4. CASE p = q
        BY <1>1, <3>2, <3>4 DEF Ticks, Final
      <3> QED BY <3>3, <3>4
    <2>3. MacReceive => toMac' # toMac
      <3>1. ASSUME toMac # <<>> PROVE Tail(toMac) # toMac
        <4>1. Len(Tail(toMac)) = Len(toMac) - 1 /\ Len(toMac) \in Nat
          BY <1>1, <3>1
        <4> QED BY <4>1
      <3> QED BY <3>1 DEF MacReceive
    <2>4. CASE PhyAnswer
      BY <1>3, <1>5, <2>4 DEF PhyAnswer
    <2> QED BY <1>5, <2>1, <2>2, <2>3, <2>4, MacFrame
  <1>6. CASE MacReceive
    <2> DEFINE g == Head(toMac)
               q == g.phy
               ms == ToSet(g.msgs)
    <2>1. /\ toMac # <<>> /\ toMac' = Tail(toMac) /\ state' = state
          /\ macState' = [macState EXCEPT ![q] = View(@, pending[q], ms)]
          /\ pending'  = [pending EXCEPT ![q] = IF Ends(@) \cap ms # {} THEN "none" ELSE @]
      BY <1>6 DEF MacReceive, inst
    <2>2. /\ \A i \in DOMAIN toMac' : i \in Nat /\ i + 1 \in DOMAIN toMac /\ toMac'[i] = toMac[i + 1]
          /\ 1 \in DOMAIN toMac /\ g = toMac[1] /\ DOMAIN toMac \subseteq Nat \ {0}
      BY <1>1, <2>1
    <2>3. macState \in [Phys -> {"IDLE", "CONFIGURED", "RUNNING"}] /\ pending \in [Phys -> Requests \cup {"none"}]
          /\ g \in Segment
      BY <1>1, <2>1, TakeType DEF Known, MacOK
    <2>4. PICK a \in Answers : g.msgs = <<"HEADER", a>>
      BY <1>1, <2>2 DEF HeadersInv
    <2>5. ms = {"HEADER", a} /\ g = Final(q, a) /\ q \in Phys
      <3>1. ms = {"HEADER", a}
        BY <2>4 DEF ToSet
      <3>2. q \in Phys /\ g = [phy |-> q, msgs |-> <<"HEADER", a>>]
        BY <2>3, <2>4 DEF Segment
      <3> QED BY <3>1, <3>2 DEF Final
    <2> HIDE DEF g, q, ms
    <2> SUFFICES ASSUME NEW i \in DOMAIN toMac', toMac'[i] = Final(p, "SLOT_IND"), state[p] # "RUNNING"
                 PROVE  /\ macState'[p] = "RUNNING" /\ pending'[p] \in {"STOP", "SHUTDOWN"}
                        /\ \A j \in DOMAIN toMac' : toMac'[j] \in Ending(p) => i < j
      BY <2>1 DEF Ticks, Ending, Final
    <2>6. Late(i + 1)
      BY <1>2, <2>2
    <2>7. \A j \in DOMAIN toMac' : toMac'[j] \in Ending(p) => i < j
      <3> SUFFICES ASSUME NEW j \in DOMAIN toMac', toMac'[j] \in Ending(p) PROVE i < j
        OBVIOUS
      <3>1. i + 1 < j + 1 /\ i \in Nat /\ j \in Nat
        BY <2>2, <2>6
      <3> QED BY <3>1
    <2>8. p = q => a = "SLOT_IND"
      <3> SUFFICES ASSUME p = q, a # "SLOT_IND" PROVE FALSE
        OBVIOUS
      <3>1. toMac[1] \in Ending(p)
        BY <2>2, <2>5 DEF Ending, Finals
      <3>2. i + 1 < 1 /\ i \in Nat
        BY <2>2, <2>6, <3>1
      <3> QED BY <3>2
    <2>9. CASE p # q
      BY <2>1, <2>3, <2>5, <2>6, <2>7, <2>9
    <2>10. CASE p = q
      <3>1. macState'[p] = View(macState[p], pending[p], {"HEADER", "SLOT_IND"})
        BY <2>1, <2>3, <2>5, <2>8, <2>10
      <3>2. pending'[p] = IF Ends(pending[p]) \cap {"HEADER", "SLOT_IND"} # {} THEN "none" ELSE pending[p]
        BY <2>1, <2>3, <2>5, <2>8, <2>10
      <3>3. macState'[p] = "RUNNING"
        BY <2>6, <3>1 DEF View
      <3>4. pending'[p] = pending[p]
        BY <2>6, <3>2 DEF Ends
      <3> QED BY <2>6, <2>7, <3>3, <3>4
    <2> QED BY <2>9, <2>10
  <1>7. CASE P2MRecv \/ CleanId \/ SlotIndication
    BY <1>3, <1>7 DEF P2MRecv, CleanId, SlotIndication, inst, mac
  <1>8. CASE \/ RefuseAnswer \/ ConfigResponse \/ StartResponse \/ StopResponse
             \/ ShutdownDone \/ ShutdownRetry \/ ShutdownGiveUp
    <2>1. /\ p2m.pc = "handle" /\ p2m.msg.type # "SLOT" /\ UNCHANGED <<toMac, mac>>
          /\ p # Carrier => state'[p] = state[p]
          /\ p = Carrier => \/ state'[p] = state[p]
                            \/ state[p] # "RUNNING"
                            \/ StopResponse /\ p2m.msg.type = "STOP"
      BY <1>8, HandlerAdds
    <2>2. CASE state[p] = "RUNNING" => state'[p] = "RUNNING"
      BY <1>3, <2>1, <2>2 DEF mac
    <2>3. CASE p = Carrier /\ p2m.msg.type = "STOP"
      <3>1. Goes("STOP", p) /\ Told(p) = {}
        BY <2>1, <2>3, Handled1
      <3> QED BY <1>4, <2>1, <3>1 DEF Goes, mac
    <2> QED BY <2>1, <2>2, <2>3
  <1>9. CASE CleanState
    <2>1. /\ p2m.pc = "cleanState" /\ UNCHANGED <<toMac, mac>>
          /\ state' = [state EXCEPT ![Carrier] = "IDLE"]
      BY <1>9 DEF CleanState
    <2>2. CASE p # Carrier
      <3>1. state'[p] = state[p]
        BY <2>1, <2>2 DEF Known, CoreOK, RecordsOK
      <3> QED BY <1>3, <2>1, <3>1 DEF mac
    <2>3. CASE p = Carrier
      <3>1. "STOP_IND" \in Queued(p)
        BY <1>1, <2>1, <2>3, FinalsListed DEF Queued, HeadersInv
      <3>2. Told(p) = {} /\ EndFits("STOP_IND", p)
        BY <1>1, <3>1 DEF Token, OnePlace, Decided
      <3>3. pending[p] \in {"STOP", "SHUTDOWN"}
        BY <3>2 DEF EndFits, Ends
      <3>4. state[p] = "RUNNING" => macState[p] = "RUNNING"
        BY <3>2 DEF EndFits, Goes, View
      <3> QED BY <1>4, <2>1, <3>2, <3>3, <3>4 DEF mac
    <2> QED BY <2>2, <2>3
  <1>10. CASE P2MSend
    <2>1. p2m.pc = "send" /\ state' = state /\ macState' = macState /\ pending' = pending
      BY <1>10, SendSegments DEF inst, mac
    <2>2. PICK segs : Segments(segs)
      BY <1>10, SendSegments
    <2>3. segs \in Seq(Segment) /\ toMac' = toMac \o segs
      BY <2>2 DEF Segments
    <2>4. \A i \in DOMAIN toMac' : \/ i \in DOMAIN toMac /\ toMac'[i] = toMac[i]
                                   \/ /\ i - Len(toMac) \in DOMAIN segs /\ toMac'[i] = segs[i - Len(toMac)]
                                      /\ \A j \in DOMAIN toMac : j < i
      BY <1>1, <2>3
    <2>5. \A i \in DOMAIN segs : segs[i] = Final(p, "SLOT_IND") => state[p] = "RUNNING"
      <3> SUFFICES ASSUME NEW i \in DOMAIN segs, segs[i] = Final(p, "SLOT_IND") PROVE state[p] = "RUNNING"
        OBVIOUS
      <3>1. PICK q \in Phys, b \in Answers : segs[i] = Final(q, b) /\ sendList[q] = <<"HEADER", b>>
        BY <2>2 DEF Segments
      <3>2. p = q /\ <<"HEADER", b>> = <<"HEADER", "SLOT_IND">>
        <4>1. Final(p, "SLOT_IND").phy = Final(q, b).phy /\ Final(p, "SLOT_IND").msgs = Final(q, b).msgs
          BY <3>1
        <4> QED BY <4>1 DEF Final
      <3> QED BY <1>1, <2>1, <3>1, <3>2 DEF HeadersInv
    <2> SUFFICES ASSUME NEW i \in DOMAIN toMac', toMac'[i] = Final(p, "SLOT_IND"), state[p] # "RUNNING"
                 PROVE  /\ macState[p] = "RUNNING" /\ pending[p] \in {"STOP", "SHUTDOWN"}
                        /\ \A j \in DOMAIN toMac' : toMac'[j] \in Ending(p) => i < j
      BY <2>1 DEF Ticks, Ending, Final
    <2>6. i \in DOMAIN toMac /\ toMac[i] = Final(p, "SLOT_IND")
      BY <2>4, <2>5
    <2>7. Late(i)
      BY <1>2, <2>6
    <2>8. \A j \in DOMAIN toMac' : toMac'[j] \in Ending(p) => i < j
      BY <2>4, <2>6, <2>7
    <2> QED BY <2>7, <2>8
  <1> QED BY <1>5, <1>6, <1>7, <1>8, <1>9, <1>10, ListsQuiet, NoParam

(***************************************************************************)
(* The statuses of the PHY, and the tries of a shutdown.                   *)
(***************************************************************************)
\* What an answer of the PHY adds to its channel.
LEMMA AnswerSays ==
    ASSUME Known, PhyAnswer
    PROVE  \E m \in ToPhyMsg, status \in {"ok", "error", "other"}, told \in Seq(FromPhyMsg) :
             /\ ToSet(ApiQueue) = {m} \cup ToSet(ApiQueue')
             /\ ToSet(fromPhy') = ToSet(fromPhy) \cup ToSet(told)
             /\ \E x \in ToSet(told) : x.type = m.type /\ x.idx = m.idx /\ x.status = status
             /\ \A x \in ToSet(told) : /\ x.idx = m.idx
                                       /\ \/ x.type = m.type /\ x.status = status
                                          \/ x.type = "SLOT" /\ x.status = "ok"
             /\ careless' = IF status = "other" THEN careless + 1 ELSE careless
             /\ refusals' = IF m.type = "SHUTDOWN" /\ status # "ok" /\ refusals[m.idx] <= MaxTries + 1
                            THEN [refusals EXCEPT ![m.idx] = @ + 1] ELSE refusals
  <1>1. /\ toPhy # <<>> /\ toPhy \in Seq(ToPhyMsg) /\ apiList \in Seq(ToPhyMsg)
        /\ toPhy' = Tail(toPhy) /\ apiList' = apiList /\ fromPhy \in Seq(FromPhyMsg)
    BY DEF PhyAnswer, Known, CoreOK, ChannelsOK
  <1>2. PICK m \in ToPhyMsg : m = Head(toPhy)
    BY <1>1, TakeType
  <1>3. PICK status \in {"ok", "error", "other"} :
          /\ LET x == [type |-> m.type, idx |-> m.idx, status |-> status]
                 slot == [type |-> "SLOT", idx |-> m.idx, status |-> "ok"]
             IN  fromPhy' = fromPhy \o IF m.type = "START" /\ status = "ok"
                                      THEN <<x, slot>> ELSE <<x>>
          /\ careless' = IF status = "other" THEN careless + 1 ELSE careless
          /\ refusals' = IF m.type = "SHUTDOWN" /\ status # "ok" /\ refusals[m.idx] <= MaxTries + 1
                         THEN [refusals EXCEPT ![m.idx] = @ + 1] ELSE refusals
    BY <1>2 DEF PhyAnswer, Statuses
  <1> DEFINE x == [type |-> m.type, idx |-> m.idx, status |-> status]
             slot == [type |-> "SLOT", idx |-> m.idx, status |-> "ok"]
             told == IF m.type = "START" /\ status = "ok" THEN <<x, slot>> ELSE <<x>>
  <1>4. /\ x \in FromPhyMsg /\ slot \in FromPhyMsg /\ slot.type = "SLOT" /\ slot.status = "ok"
        /\ slot.idx = m.idx /\ x.type = m.type /\ x.idx = m.idx /\ x.status = status
    BY DEF ToPhyMsg, FromPhyMsg
  <1>5. fromPhy' = fromPhy \o told
    BY <1>3
  <1> HIDE DEF x, slot
  <1>6. told \in Seq(FromPhyMsg) /\ x \in ToSet(told) /\ \A y \in ToSet(told) : y = x \/ y = slot
    <2>1. CASE told = <<x>>
      BY <1>4, <2>1 DEF ToSet
    <2>2. CASE told = <<x, slot>>
      BY <1>4, <2>2 DEF ToSet
    <2> QED BY <2>1, <2>2
  <1> HIDE DEF told
  <1>7. ToSet(fromPhy') = ToSet(fromPhy) \cup ToSet(told)
    BY <1>1, <1>5, <1>6, SetOfJoin
  <1>8. ToSet(ApiQueue) = {m} \cup ToSet(ApiQueue')
    <2>1. /\ ApiQueue \in Seq(ToPhyMsg) /\ ApiQueue # <<>> /\ ApiQueue' = Tail(ApiQueue)
          /\ Head(ApiQueue) = m
      BY <1>1, <1>2, TailJoin, JoinType DEF ApiQueue
    <2> QED BY <2>1, SetOfTail
  <1>9. /\ \E y \in ToSet(told) : y.type = m.type /\ y.idx = m.idx /\ y.status = status
        /\ \A y \in ToSet(told) : /\ y.idx = m.idx
                                  /\ \/ y.type = m.type /\ y.status = status
                                     \/ y.type = "SLOT" /\ y.status = "ok"
    BY <1>4, <1>6
  <1>10. /\ careless' = IF status = "other" THEN careless + 1 ELSE careless
         /\ refusals' = IF m.type = "SHUTDOWN" /\ status # "ok" /\ refusals[m.idx] <= MaxTries + 1
                        THEN [refusals EXCEPT ![m.idx] = @ + 1] ELSE refusals
    BY <1>3
  <1> QED BY <1>6, <1>7, <1>8, <1>9, <1>10

LEMMA StatusStep ==
    ASSUME Known, CarefulInv, [Next]_vars, careless = 0, careless' = 0
    PROVE  StatusInv'
  <1>1. StatusInv
    BY DEF CarefulInv
  <1>2. CASE PhyAnswer
    <2>1. ASSUME NEW y \in ToSet(fromPhy') PROVE y.status # "other"
      BY <1>1, <1>2, AnswerSays DEF StatusInv
    <2> QED BY <1>1, <1>2, <2>1 DEF StatusInv, PhyAnswer
  <1>3. CASE PhyTick
    <2>1. PICK q \in Phys : fromPhy' = <<[type |-> "SLOT", idx |-> q, status |-> "ok"]>> /\ p2m' = p2m
      BY <1>3 DEF PhyTick
    <2>2. \A y \in ToSet(fromPhy') : y.status = "ok"
      BY <2>1 DEF ToSet
    <2> QED BY <1>1, <2>1, <2>2 DEF StatusInv
  <1>4. CASE P2MRecv
    <2>1. /\ fromPhy \in Seq(FromPhyMsg) /\ fromPhy # <<>> /\ fromPhy' = Tail(fromPhy)
          /\ p2m'.msg = Head(fromPhy)
      BY <1>4 DEF P2MRecv, Known, CoreOK, ChannelsOK
    <2>2. ToSet(fromPhy) = {Head(fromPhy)} \cup ToSet(Tail(fromPhy))
      BY <2>1, SetOfTail
    <2> QED BY <1>1, <2>1, <2>2 DEF StatusInv
  <1>5. CASE fromPhy' = fromPhy /\ (p2m' = p2m \/ p2m'.pc # "handle")
    BY <1>1, <1>5 DEF StatusInv
  <1>6. CASE Phy2Mac /\ ~P2MRecv
    <2>1. p2m \in [pc : {"recv", "handle", "cleanId", "cleanState", "send"}, msg : FromPhyMsg]
      BY DEF Known, CoreOK, Phy2MacOK
    <2>2. fromPhy' = fromPhy /\ p2m'.pc # "handle"
      BY <1>6, <2>1 DEF Phy2Mac, RefuseAnswer, ConfigResponse, StartResponse, StopResponse,
         ShutdownDone, ShutdownRetry, ShutdownGiveUp, CleanId, CleanState, SlotIndication, P2MSend,
         Handled
    <2> QED BY <1>5, <2>2
  <1>7. CASE MacReceive \/ UNCHANGED vars \/ \E q \in Phys : MacSend(q)
    BY <1>5, <1>7 DEF MacReceive, MacSend, vars
  <1>8. CASE Mac2Phy
    BY <1>5, <1>8 DEF Mac2Phy, M2PRecv, M2POrder, ConfigRequest, StartRequest, StopRequest,
       ShutdownRequest, Forward, TtiRequest, ParamHeader, ParamAnswer, ParamSend, M2PSend
  <1> QED BY <1>2, <1>3, <1>4, <1>6, <1>7, <1>8 DEF Next

\* The count of one instance where nothing of its shutdown moves.
LEMMA SameTries ==
    ASSUME NEW p \in Phys, Tries(p), retries'[p] = retries[p], refusals'[p] = refusals[p],
           Refused(p)' <=> Refused(p), ShuttingDown(p) => ShuttingDown(p)',
           \A a \in {"ERROR_SHUTDOWN", "STOP_IND"} : a \in Decided(p)' <=> a \in Decided(p)
    PROVE  Tries(p)'
  BY DEF Tries, MaxTries

LEMMA TriesMacReceive ==
    ASSUME Known, CarefulInv, MacReceive, NEW p \in Phys, Token(p)'
    PROVE  Tries(p)'
  <1> DEFINE g == Head(toMac)
             q == g.phy
             ms == ToSet(g.msgs)
  <1>1. /\ toMac \in Seq(Segment) /\ toMac # <<>> /\ toMac' = Tail(toMac)
        /\ UNCHANGED <<inst, m2p, apiList, toPhy, fromPhy, p2m, sendList>>
    BY DEF MacReceive, Known, ListsOK
  <1>2. /\ pending'  = [pending EXCEPT ![q] = IF Ends(@) \cap ms # {} THEN "none" ELSE @]
        /\ refusals' = [refusals EXCEPT ![q] = IF Ends(pending[q]) \cap ms # {} THEN 0 ELSE @]
    BY DEF MacReceive
  <1>3. ToSet(toMac) = {g} \cup ToSet(toMac')
    BY <1>1, SetOfTail
  <1>4. Tries(p) /\ Token(p)
    BY DEF CarefulInv
  <1>5. /\ retries'[p] = retries[p] /\ (Refused(p)' <=> Refused(p)) /\ (ShuttingDown(p)' <=> ShuttingDown(p))
        /\ Queued(p)' = Queued(p)
    BY <1>1 DEF inst, Refused, Refusal, ShuttingDown, Passed, Returned, AtHandler, ApiQueue, Queued
  <1>6. pending \in [Phys -> Requests \cup {"none"}] /\ refusals \in [Phys -> 0..MaxTries + 2]
    BY DEF Known, MacOK
  <1>7. \A a \in Finals : g = Final(p, a) => q = p /\ a \in ms
    <2> SUFFICES ASSUME NEW a \in Finals, g = Final(p, a) PROVE q = p /\ a \in ms
      OBVIOUS
    <2>1. g.phy = p /\ g.msgs = <<"HEADER", a>>
      BY DEF Final
    <2> QED BY <2>1 DEF ToSet
  <1> HIDE DEF g, q, ms
  <1>8. CASE p = q /\ Ends(pending[p]) \cap ms # {}
    <2>1. pending'[p] = "none" /\ refusals'[p] = 0
      BY <1>2, <1>6, <1>8
    <2>2. Decided(p)' = {}
      BY <2>1 DEF Token, EndFits, Ends
    <2>3. \A r \in Underway(p)' : FALSE
      <3>1. \A r \in Underway(p)' : r \in Requests
        BY DEF Underway, Asked, InHand, Passed, Returned, AtHandler
      <3> QED BY <2>1, <3>1 DEF Token, Goes, Requests
    <2>4. ~ShuttingDown(p)'
      BY <2>3 DEF ShuttingDown, Underway
    <2>5. ~Refused(p)'
      <3>1. "SHUTDOWN" \in Requests
        BY DEF Requests
      <3>2. ~ShuttingDown(p)
        BY <1>5, <2>4
      <3> QED BY <1>5, <3>1, <3>2 DEF Refused, Refusal, ShuttingDown, Returned, AtHandler
    <2>6. retries'[p] = 0
      BY <1>4, <1>5, <2>4 DEF Tries
    <2> QED BY <2>1, <2>2, <2>5, <2>6 DEF Tries
  <1>9. CASE ~(p = q /\ Ends(pending[p]) \cap ms # {})
    <2>1. refusals'[p] = refusals[p]
      BY <1>2, <1>6, <1>9
    <2>2. ASSUME NEW a \in {"ERROR_SHUTDOWN", "STOP_IND"} PROVE a \in Decided(p)' <=> a \in Decided(p)
      <3>1. a \in Finals
        BY FinalsListed
      <3>2. g # Final(p, a)
        <4> SUFFICES ASSUME g = Final(p, a) PROVE FALSE
          OBVIOUS
        <4>1. q = p /\ a \in ms
          BY <1>7, <3>1
        <4>2. a \in Decided(p)
          BY <1>3, <3>1 DEF Decided, Told
        <4>3. a \in Ends(pending[p])
          BY <1>4, <4>2 DEF Token, EndFits
        <4> QED BY <1>9, <4>1, <4>3
      <3>3. Final(p, a)' = Final(p, a)
        BY DEF Final
      <3>4. a \in Told(p)' <=> a \in Told(p)
        BY <1>3, <3>1, <3>2, <3>3 DEF Told
      <3> QED BY <1>5, <3>4 DEF Decided
    <2> QED BY <1>4, <1>5, <2>1, <2>2, SameTries
  <1> QED BY <1>8, <1>9

\* The mac2phy thread only adds to the messages for the PHY.
LEMMA QueueGrows ==
    ASSUME Known, Mac2Phy, NEW p \in Phys
    PROVE  Passed(p) \subseteq Passed(p)'
  <1>1. toPhy \in Seq(ToPhyMsg) /\ apiList \in Seq(ToPhyMsg)
    BY DEF Known, CoreOK, ChannelsOK
  <1>2. CASE UNCHANGED <<toPhy, apiList>>
    BY <1>2 DEF Passed, ApiQueue
  <1>3. CASE M2PSend
    <2>1. toPhy' = toPhy \o apiList /\ apiList' = <<>> /\ toPhy \o apiList \in Seq(ToPhyMsg)
      BY <1>1, <1>3, JoinType DEF M2PSend, SendApiList
    <2> QED BY <2>1, JoinEmpty DEF Passed, ApiQueue
  <1>4. ASSUME NEW id \in {"CONFIG", "START", "STOP", "SHUTDOWN"}, NEW guard, Forward(id, guard)
        PROVE  Passed(p) \subseteq Passed(p)'
    <2>1. phyId[m2p.list.phy] \in Phys
      BY DEF Known, CoreOK, RecordsOK, Mac2PhyOK, MacList
    <2> DEFINE x == [type |-> id, idx |-> phyId[m2p.list.phy]]
    <2>2. x \in ToPhyMsg
      BY <2>1 DEF ToPhyMsg
    <2>3. toPhy' = toPhy /\ (apiList' = Append(apiList, x) \/ apiList' = apiList)
      BY <1>4 DEF Forward
    <2> HIDE DEF x
    <2>4. CASE apiList' = Append(apiList, x)
      <3>1. ApiQueue' = Append(ApiQueue, x) /\ ApiQueue \in Seq(ToPhyMsg)
        BY <1>1, <2>2, <2>3, <2>4, AppendJoin, JoinType DEF ApiQueue
      <3>2. ToSet(ApiQueue') = ToSet(ApiQueue) \cup {x}
        BY <2>2, <3>1, SetOfAppend
      <3> QED BY <3>2 DEF Passed
    <2> QED BY <1>2, <2>3, <2>4
  <1>5. CASE ConfigRequest \/ StartRequest \/ StopRequest \/ ShutdownRequest
    BY <1>4, <1>5 DEF ConfigRequest, StartRequest, StopRequest, ShutdownRequest
  <1> QED BY <1>2, <1>3, <1>5 DEF Mac2Phy, M2PRecv, M2POrder, TtiRequest, ParamHeader, ParamAnswer,
             ParamSend

LEMMA TriesPhyAnswer ==
    ASSUME Known, CarefulInv, PhyAnswer, NEW p \in Phys
    PROVE  Tries(p)'
  <1>1. PICK m \in ToPhyMsg, status \in {"ok", "error", "other"}, told \in Seq(FromPhyMsg) :
          /\ ToSet(ApiQueue) = {m} \cup ToSet(ApiQueue')
          /\ ToSet(fromPhy') = ToSet(fromPhy) \cup ToSet(told)
          /\ \E x \in ToSet(told) : x.type = m.type /\ x.idx = m.idx /\ x.status = status
          /\ \A x \in ToSet(told) : /\ x.idx = m.idx
                                    /\ \/ x.type = m.type /\ x.status = status
                                       \/ x.type = "SLOT" /\ x.status = "ok"
          /\ refusals' = IF m.type = "SHUTDOWN" /\ status # "ok" /\ refusals[m.idx] <= MaxTries + 1
                         THEN [refusals EXCEPT ![m.idx] = @ + 1] ELSE refusals
    BY AnswerSays
  <1>2. UNCHANGED <<inst, p2m, sendList, toMac>>
    BY DEF PhyAnswer
  <1>3. Tries(p) /\ Token(p) /\ m.idx \in Phys /\ m.type \in Requests /\ "SHUTDOWN" \in Requests
    BY DEF CarefulInv, ToPhyMsg, Requests
  <1>4. refusals \in [Phys -> 0..MaxTries + 2] /\ retries \in [Phys -> 0..MaxTries]
    BY DEF Known, MacOK, CoreOK, RecordsOK
  <1>5. /\ retries'[p] = retries[p] /\ Decided(p)' = Decided(p) /\ AtHandler(p)' = AtHandler(p)
        /\ Returned(p) \subseteq Returned(p)'
    BY <1>1, <1>2 DEF inst, Decided, Queued, Told, AtHandler, Returned
  <1>6. CASE p # m.idx
    <2>1. Passed(p) \subseteq Passed(p)'
      BY <1>1, <1>6 DEF Passed
    <2>2. ShuttingDown(p) => ShuttingDown(p)'
      BY <1>5, <2>1 DEF ShuttingDown
    <2>3. Refused(p)' <=> Refused(p)
      BY <1>1, <1>2, <1>6 DEF Refused, Refusal
    <2>4. refusals'[p] = refusals[p]
      BY <1>1, <1>3, <1>4, <1>6
    <2> QED BY <1>3, <1>5, <2>2, <2>3, <2>4, SameTries
  <1>7. CASE p = m.idx
    <2>1. m.type \in Passed(p)
      BY <1>1, <1>3, <1>7 DEF Passed
    <2>2. Returned(p) = {} /\ AtHandler(p) = {} /\ Decided(p) = {}
      BY <1>3, <2>1 DEF Token, OnePlace, Underway
    <2>3. /\ \A x \in ToSet(fromPhy) : ~Refusal(x, p)
          /\ ~(p2m.pc = "handle" /\ Refusal(p2m.msg, p))
      BY <1>3, <2>2 DEF Refusal, Returned, AtHandler
    <2>4. refusals[p] = retries[p]
      BY <1>3, <2>2, <2>3 DEF Tries, Refused
    <2>5. Refused(p)' <=> m.type = "SHUTDOWN" /\ status # "ok"
      BY <1>1, <1>2, <1>7, <2>3 DEF Refused, Refusal
    <2>6. refusals'[p] = IF m.type = "SHUTDOWN" /\ status # "ok" THEN retries[p] + 1 ELSE retries[p]
      BY <1>1, <1>4, <1>7, <2>4 DEF MaxTries
    <2>7. retries[p] # 0 => ShuttingDown(p)'
      <3>1. CASE m.type = "SHUTDOWN"
        BY <1>1, <1>3, <1>7, <3>1 DEF ShuttingDown, Returned
      <3>2. CASE m.type # "SHUTDOWN"
        BY <1>1, <1>3, <2>2, <3>2 DEF Tries, ShuttingDown, Passed
      <3> QED BY <3>1, <3>2
    <2> QED BY <1>4, <1>5, <2>2, <2>5, <2>6, <2>7 DEF Tries
  <1> QED BY <1>6, <1>7

LEMMA TriesP2MRecv ==
    ASSUME Known, CarefulInv, P2MRecv, NEW p \in Phys
    PROVE  Tries(p)'
  <1>1. /\ p2m.pc = "recv" /\ fromPhy # <<>> /\ p2m'.pc = "handle" /\ p2m'.msg = Head(fromPhy)
        /\ fromPhy' = Tail(fromPhy) /\ fromPhy \in Seq(FromPhyMsg)
        /\ sendList'[p] = IF state[p] = "IDLE" THEN sendList[p] ELSE Append(sendList[p], "HEADER")
        /\ UNCHANGED <<inst, apiList, toPhy, toMac, refusals>>
    BY DEF P2MRecv, Known, CoreOK, ChannelsOK, mac
  <1>2. ToSet(fromPhy) = {Head(fromPhy)} \cup ToSet(fromPhy')
    BY <1>1, SetOfTail
  <1>3. Queued(p) = {} /\ Queued(p)' = {}
    <2>1. sendList[p] = <<>> /\ Append(<<>>, "HEADER") = <<"HEADER">>
      BY <1>1 DEF CarefulInv, HeadersInv
    <2>2. \A b : <<"HEADER", b>> # <<>>
      OBVIOUS
    <2> QED BY <1>1, <2>1, <2>2, QueuedNone DEF Queued
  <1>4. Told(p)' = Told(p)
    BY <1>1 DEF Told, Final
  <1>5. Refused(p)' <=> Refused(p)
    BY <1>1, <1>2 DEF Refused, Refusal
  <1>6. ShuttingDown(p) => ShuttingDown(p)'
    BY <1>1, <1>2 DEF ShuttingDown, Passed, ApiQueue, Returned, AtHandler
  <1>7. Decided(p)' = Decided(p)
    BY <1>3, <1>4 DEF Decided
  <1>8. Tries(p) /\ retries'[p] = retries[p] /\ refusals'[p] = refusals[p]
    BY <1>1 DEF CarefulInv, inst
  <1> QED BY <1>5, <1>6, <1>7, <1>8, SameTries

\* A handler leaves the counts of the other instances alone.
LEMMA OthersTries ==
    ASSUME Known, CarefulInv, NEW p \in Phys, p # Carrier, p2m.pc = "handle", p2m'.pc # "handle",
           UNCHANGED <<fromPhy, toMac, refusals>>, retries'[p] = retries[p],
           sendList'[p] = sendList[p], Passed(p)' = Passed(p)
    PROVE  Tries(p)'
  <1>1. Refused(p)' <=> Refused(p)
    BY DEF Refused, Refusal, Carrier
  <1>2. Decided(p)' = Decided(p)
    BY DEF Decided, Queued, Told, Final
  <1>3. ShuttingDown(p) => ShuttingDown(p)'
    BY DEF ShuttingDown, Returned, AtHandler, Carrier
  <1>4. Tries(p)
    BY DEF CarefulInv
  <1> QED BY <1>1, <1>2, <1>3, <1>4, SameTries

\* What it finds for its own.
LEMMA CarrierTries ==
    ASSUME Known, CarefulInv, NEW p \in Phys, p = Carrier, p2m.pc = "handle", p2m.msg.type # "SLOT",
           p2m'.pc # "handle", UNCHANGED <<fromPhy, toMac>>
    PROVE  /\ ~Refused(p)' /\ Decided(p)' = Queued(p)' /\ Goes(p2m.msg.type, p) /\ Queued(p) = {}
           /\ p2m.msg.type = "SHUTDOWN" /\ p2m.msg.status # "ok" => refusals[p] = retries[p] + 1
           /\ ~(p2m.msg.type = "SHUTDOWN" /\ p2m.msg.status # "ok") => refusals[p] = retries[p]
           /\ p2m.msg.type # "SHUTDOWN" => retries[p] = 0
  <1>1. /\ AtHandler(p) = {p2m.msg.type} /\ Passed(p) = {} /\ Returned(p) = {} /\ Queued(p) = {} /\ Told(p) = {}
        /\ Goes(p2m.msg.type, p) /\ p2m.msg.idx = p
    BY Handled1 DEF Carrier
  <1>2. Tries(p) /\ "SHUTDOWN" \in Requests
    BY DEF CarefulInv, Requests
  <1>3. \A x \in ToSet(fromPhy) : ~Refusal(x, p)
    BY <1>1, <1>2 DEF Refusal, Returned
  <1>4. Told(p)' = {}
    BY <1>1 DEF Told, Final
  <1>5. ~Refused(p)' /\ Decided(p)' = Queued(p)'
    BY <1>3, <1>4 DEF Refused, Refusal, Decided
  <1>6. Decided(p) = {}
    BY <1>1 DEF Decided
  <1>7. Refused(p) <=> p2m.msg.type = "SHUTDOWN" /\ p2m.msg.status # "ok"
    BY <1>1, <1>3 DEF Refused, Refusal
  <1>8. p2m.msg.type # "SHUTDOWN" => retries[p] = 0
    BY <1>1, <1>2 DEF Tries, ShuttingDown
  <1> QED BY <1>1, <1>2, <1>5, <1>6, <1>7, <1>8 DEF Tries

\* A handler that is not of the shutdown, and tells the MAC nothing of it.
LEMMA TriesOther ==
    ASSUME Known, CarefulInv, NEW p \in Phys, p2m.pc = "handle", p2m.msg.type \notin {"SLOT", "SHUTDOWN"},
           p2m'.pc # "handle", UNCHANGED <<fromPhy, toMac, refusals, retries>>,
           p # Carrier => sendList'[p] = sendList[p] /\ Passed(p)' = Passed(p),
           p = Carrier => "ERROR_SHUTDOWN" \notin Queued(p)' /\ "STOP_IND" \notin Queued(p)'
    PROVE  Tries(p)'
  <1>1. CASE p # Carrier
    BY <1>1, OthersTries
  <1>2. CASE p = Carrier
    <2>1. ~Refused(p)' /\ Decided(p)' = Queued(p)' /\ refusals[p] = retries[p] /\ retries[p] = 0
      BY <1>2, CarrierTries
    <2> QED BY <1>2, <2>1 DEF Tries
  <1> QED BY <1>1, <1>2

LEMMA TriesAnswers ==
    ASSUME Known, CarefulInv, NEW p \in Phys, Token(p)', RefuseAnswer \/ ConfigResponse \/ StartResponse
    PROVE  Tries(p)'
  <1>0. PICK q \in Phys : q = Carrier
    BY DEF Known, CoreOK, Phy2MacOK, FromPhyMsg, Carrier
  <1>1. /\ p2m.pc = "handle" /\ p2m.msg.type # "SLOT" /\ p2m'.pc # "handle" /\ p2m'.msg = p2m.msg
        /\ UNCHANGED <<fromPhy, toMac, refusals, retries, apiList, toPhy, mac>>
    <2>1. p2m' = [p2m EXCEPT !.pc = "send"] /\ p2m \in [pc : {"recv", "handle", "cleanId", "cleanState", "send"}, msg : FromPhyMsg]
      BY DEF RefuseAnswer, ConfigResponse, StartResponse, Handled, Known, CoreOK, Phy2MacOK
    <2> QED BY <2>1 DEF RefuseAnswer, ConfigResponse, StartResponse, Answering, inst, mac
  <1>2. Passed(p)' = Passed(p)
    BY <1>1 DEF Passed, ApiQueue
  <1>3. p2m.msg.type # "SHUTDOWN"
    <2>1. CASE RefuseAnswer
      <3>1. Goes(p2m.msg.type, q) /\ state[q] = "IDLE"
        BY <1>0, <1>1, <2>1, Handled1 DEF RefuseAnswer
      <3> QED BY <3>1 DEF Goes
    <2>2. CASE ConfigResponse \/ StartResponse
      BY <2>2 DEF ConfigResponse, StartResponse, Answering
    <2> QED BY <2>1, <2>2
  <1>4. ASSUME p # q PROVE sendList'[p] = sendList[p]
    BY <1>0, <1>4 DEF RefuseAnswer, ConfigResponse, StartResponse, AddToMac, Known, ListsOK
  <1>5. ASSUME p = q PROVE "ERROR_SHUTDOWN" \notin Queued(p)' /\ "STOP_IND" \notin Queued(p)'
    <2>1. Goes(p2m.msg.type, p) /\ Queued(p) = {}
      BY <1>0, <1>1, <1>5, CarrierTries
    <2>2. CASE RefuseAnswer
      BY <2>1, <2>2 DEF RefuseAnswer, Queued
    <2>3. CASE ConfigResponse \/ StartResponse
      <3>1. pending'[p] \in {"CONFIG", "START"}
        BY <1>1, <2>1, <2>3 DEF Goes, ConfigResponse, StartResponse, Answering, mac
      <3>2. \A a \in Queued(p)' : a \in Ends(pending'[p])
        BY DEF Token, Decided, EndFits
      <3> QED BY <3>1, <3>2 DEF Ends
    <2> QED BY <2>2, <2>3
  <1> QED BY <1>0, <1>1, <1>2, <1>3, <1>4, <1>5, TriesOther

LEMMA TriesStop ==
    ASSUME Known, CarefulInv, NEW p \in Phys, StopResponse
    PROVE  Tries(p)'
  <1>0. PICK q \in Phys : q = Carrier
    BY DEF Known, CoreOK, Phy2MacOK, FromPhyMsg, Carrier
  <1>1. /\ p2m.pc = "handle" /\ p2m.msg.type = "STOP" /\ p2m'.pc = "send"
        /\ UNCHANGED <<fromPhy, toMac, refusals, retries>>
        /\ (AskShutdown \/ UNCHANGED <<apiList, toPhy>>)
        /\ sendList' \in {sendList, AddToMac(sendList, q, <<"ERROR_STOP">>)}
    <2>1. p2m'.pc = "send"
      BY DEF StopResponse, Handled, Known, CoreOK, Phy2MacOK
    <2> QED BY <1>0, <2>1 DEF StopResponse, Answering, mac
  <1>2. p # q => Passed(p)' = Passed(p)
    BY <1>0, <1>1, QueueKept, QueueAsked
  <1>3. p # q => sendList'[p] = sendList[p]
    BY <1>1 DEF AddToMac, Known, ListsOK
  <1>4. ASSUME p = q PROVE "ERROR_SHUTDOWN" \notin Queued(p)' /\ "STOP_IND" \notin Queued(p)'
    <2>1. Queued(p) = {} /\ sendList[p] = Begun(p)
      BY <1>0, <1>1, <1>4, Handled1
    <2>2. CASE sendList' = sendList
      BY <2>1, <2>2 DEF Queued
    <2>3. CASE sendList' = AddToMac(sendList, q, <<"ERROR_STOP">>)
      <3>1. Goes("STOP", p)
        BY <1>0, <1>1, <1>4, Handled1
      <3>2. sendList[p] = <<"HEADER">>
        BY <2>1, <3>1 DEF Goes, Begun
      <3>3. sendList'[p] = <<"HEADER", "ERROR_STOP">>
        BY <1>4, <2>3, <3>2, AddBegun DEF AddToMac, Known, ListsOK
      <3> QED BY <3>3, QueuedIs, FinalsListed
    <2> QED BY <1>1, <2>2, <2>3
  <1> QED BY <1>0, <1>1, <1>2, <1>3, <1>4, TriesOther

LEMMA TriesShutdown ==
    ASSUME Known, CarefulInv, NEW p \in Phys, ShutdownDone \/ ShutdownRetry \/ ShutdownGiveUp
    PROVE  Tries(p)'
  <1>0. PICK q \in Phys : q = Carrier
    BY DEF Known, CoreOK, Phy2MacOK, FromPhyMsg, Carrier
  <1>1. /\ p2m.pc = "handle" /\ p2m.msg.type = "SHUTDOWN" /\ p2m'.pc # "handle"
        /\ UNCHANGED <<fromPhy, toMac, refusals>> /\ (AskShutdown \/ UNCHANGED <<apiList, toPhy>>)
    <2>1. p2m'.pc # "handle"
      BY DEF ShutdownDone, ShutdownRetry, ShutdownGiveUp, Handled, Known, CoreOK, Phy2MacOK
    <2> QED BY <2>1 DEF ShutdownDone, ShutdownRetry, ShutdownGiveUp, Answering, mac
  <1>2. retries \in [Phys -> 0..MaxTries] /\ sendList \in [Phys -> Seq(Message)]
    BY DEF Known, CoreOK, RecordsOK, ListsOK
  <1>3. CASE p # q
    <2>1. Passed(p)' = Passed(p)
      BY <1>0, <1>1, <1>3, QueueKept, QueueAsked
    <2>2. retries'[p] = retries[p] /\ sendList'[p] = sendList[p]
      BY <1>0, <1>2, <1>3 DEF ShutdownDone, ShutdownRetry, ShutdownGiveUp, AddToMac
    <2> QED BY <1>0, <1>1, <1>3, <2>1, <2>2, OthersTries
  <1>4. CASE p = q
    <2>1. /\ ~Refused(p)' /\ Decided(p)' = Queued(p)' /\ Goes("SHUTDOWN", p) /\ Queued(p) = {}
          /\ p2m.msg.status # "ok" => refusals[p] = retries[p] + 1
          /\ p2m.msg.status = "ok" => refusals[p] = retries[p]
      BY <1>0, <1>1, <1>4, CarrierTries
    <2>2. sendList[p] = <<"HEADER">>
      <3>1. sendList[p] = Begun(p)
        BY <1>0, <1>1, <1>4, Handled1
      <3> QED BY <2>1, <3>1 DEF Goes, Begun
    <2>3. CASE ShutdownDone
      <3>1. sendList'[p] = <<"HEADER", "STOP_IND">>
        BY <1>0, <1>2, <1>4, <2>2, <2>3, AddBegun DEF ShutdownDone, AddToMac
      <3>2. Queued(p)' = {"STOP_IND"}
        BY <3>1, QueuedIs, FinalsListed
      <3>3. retries'[p] = 0 /\ refusals'[p] <= MaxTries
        <4>1. retries' = [retries EXCEPT ![q] = 0] /\ p2m.msg.status = "ok"
          BY <1>0, <2>3 DEF ShutdownDone
        <4>2. refusals'[p] = retries[p]
          BY <1>1, <2>1, <4>1
        <4> QED BY <1>2, <1>4, <4>1, <4>2 DEF MaxTries
      <3> QED BY <2>1, <3>2, <3>3 DEF Tries
    <2>4. CASE ShutdownRetry
      <3>1. Queued(p)' = {}
        BY <2>1, <2>4 DEF ShutdownRetry, Queued
      <3>2. "SHUTDOWN" \in Passed(p)'
        BY <1>0, <1>1, <1>4, <2>4, QueueAsked DEF ShutdownRetry
      <3>3. refusals'[p] = retries'[p]
        BY <1>0, <1>1, <1>2, <1>4, <2>1, <2>4 DEF ShutdownRetry
      <3> QED BY <2>1, <3>1, <3>2, <3>3 DEF Tries, ShuttingDown
    <2>5. CASE ShutdownGiveUp
      <3>1. sendList'[p] = <<"HEADER", "ERROR_SHUTDOWN">>
        BY <1>0, <1>2, <1>4, <2>2, <2>5, AddBegun DEF ShutdownGiveUp, AddToMac
      <3>2. Queued(p)' = {"ERROR_SHUTDOWN"}
        BY <3>1, QueuedIs, FinalsListed
      <3>3. retries'[p] = 0 /\ refusals'[p] = MaxTries + 1
        <4>1. /\ retries' = [retries EXCEPT ![q] = 0] /\ p2m.msg.status # "ok"
              /\ retries[p] + 1 > MaxTries
          BY <1>0, <1>4, <2>5 DEF ShutdownGiveUp
        <4>2. refusals'[p] = retries[p] + 1
          BY <1>1, <2>1, <4>1
        <4> QED BY <1>2, <1>4, <4>1, <4>2 DEF MaxTries
      <3> QED BY <2>1, <3>2, <3>3 DEF Tries
    <2> QED BY <2>3, <2>4, <2>5
  <1> QED BY <1>3, <1>4

\* A step that leaves alone what the phy2mac thread and the MAC know and drops nothing on its way to the PHY.
LEMMA TriesQuiet ==
    ASSUME NEW p \in Phys, Tries(p), retries' = retries, refusals' = refusals, fromPhy' = fromPhy,
           sendList' = sendList, toMac' = toMac, Passed(p) \subseteq Passed(p)',
           p2m' = p2m \/ (p2m.pc \notin {"recv", "handle"} /\ p2m'.pc # "handle")
    PROVE  Tries(p)'
  BY SameTries DEF Refused, Refusal, ShuttingDown, Returned, AtHandler, Decided, Queued, Told, Final

LEMMA TriesStep ==
    ASSUME Known, CarefulInv, [Next]_vars, NEW p \in Phys, Token(p)'
    PROVE  Tries(p)'
  <1>1. Tries(p)
    BY DEF CarefulInv
  <1>3. CASE \E q \in Phys : MacSend(q)
    <2>1. UNCHANGED <<retries, refusals, fromPhy, sendList, toMac, p2m, apiList, toPhy>>
      BY <1>3 DEF MacSend, inst
    <2>2. Passed(p)' = Passed(p)
      BY <2>1 DEF Passed, ApiQueue
    <2> QED BY <1>1, <2>1, <2>2, TriesQuiet
  <1>4. CASE Mac2Phy
    <2>1. ~ParamHeader /\ ~ParamAnswer /\ ~ParamSend
      BY NoParam
    <2>2. UNCHANGED <<retries, refusals, fromPhy, sendList, toMac, p2m>>
      BY <1>4, <2>1 DEF Mac2Phy, M2PRecv, M2POrder, ConfigRequest, StartRequest, StopRequest,
         ShutdownRequest, Forward, TtiRequest, M2PSend, inst, mac
    <2>3. Passed(p) \subseteq Passed(p)'
      BY <1>4, QueueGrows
    <2> QED BY <1>1, <2>2, <2>3, TriesQuiet
  <1>5. CASE PhyTick
    <2>1. PICK q \in Phys : /\ fromPhy = <<>> /\ fromPhy' = <<[type |-> "SLOT", idx |-> q, status |-> "ok"]>>
                            /\ UNCHANGED <<inst, apiList, toPhy, p2m, sendList, toMac, mac>>
      BY <1>5 DEF PhyTick
    <2>2. ToSet(fromPhy) = {} /\ \A x \in ToSet(fromPhy') : x.type = "SLOT"
      BY <2>1 DEF ToSet
    <2>3. /\ Refused(p)' <=> Refused(p)
          /\ ShuttingDown(p) => ShuttingDown(p)'
          /\ Decided(p)' = Decided(p)
      BY <2>1, <2>2 DEF Refused, Refusal, ShuttingDown, Passed, Returned, AtHandler, ApiQueue, Decided, Queued,
         Told, Final
    <2> QED BY <1>1, <2>1, <2>3, SameTries DEF inst, mac
  <1>6. CASE CleanId \/ CleanState
    <2>1. /\ p2m.pc \notin {"recv", "handle"} /\ p2m'.pc # "handle"
          /\ UNCHANGED <<retries, refusals, fromPhy, sendList, toMac, apiList, toPhy>>
      BY <1>6 DEF CleanId, CleanState, Handled, mac, Known, CoreOK, Phy2MacOK
    <2>2. Passed(p)' = Passed(p)
      BY <2>1 DEF Passed, ApiQueue
    <2> QED BY <1>1, <2>1, <2>2, TriesQuiet
  <1>7. CASE SlotIndication
    <2>1. /\ p2m.pc = "handle" /\ p2m.msg.type = "SLOT" /\ p2m'.pc = "send"
          /\ UNCHANGED <<inst, apiList, toPhy, fromPhy, toMac, mac>>
      BY <1>7 DEF SlotIndication, Handled, Known, CoreOK, Phy2MacOK
    <2>2. sendList[p] = Begun(p)
      BY <2>1 DEF CarefulInv, HeadersInv
    <2>3. sendList'[p] \in {Begun(p), <<"HEADER", "SLOT_IND">>}
      BY <1>7, TokenSlot
    <2>4. Queued(p) = {}
      <3>1. \A b : <<"HEADER", b>> # <<>> /\ <<"HEADER", b>> # <<"HEADER">>
        OBVIOUS
      <3> QED BY <2>2, <3>1 DEF Begun, Queued
    <2>5. Queued(p)' = {}
      BY <2>3, QueuedNone DEF Begun
    <2>6. /\ Refused(p)' <=> Refused(p)
          /\ ShuttingDown(p) => ShuttingDown(p)'
          /\ Decided(p)' = Decided(p)
      BY <2>1, <2>4, <2>5 DEF Refused, Refusal, ShuttingDown, Passed, Returned, AtHandler, ApiQueue, Decided, Told,
         Final
    <2> QED BY <1>1, <2>1, <2>6, SameTries DEF inst, mac
  <1>8. CASE P2MSend
    <2>1. /\ p2m.pc = "send" /\ p2m'.pc = "recv" /\ UNCHANGED <<inst, apiList, toPhy, fromPhy, mac>>
      BY <1>8, SendSegments
    <2>2. Decided(p)' = Decided(p)
      BY <1>8, ToldAfterSend DEF Decided
    <2>3. /\ Refused(p)' <=> Refused(p)
          /\ ShuttingDown(p) => ShuttingDown(p)'
      BY <2>1 DEF Refused, Refusal, ShuttingDown, Passed, Returned, AtHandler, ApiQueue
    <2> QED BY <1>1, <2>1, <2>2, <2>3, SameTries DEF inst, mac
  <1>9. CASE UNCHANGED vars
    <2>1. UNCHANGED <<retries, refusals, fromPhy, sendList, toMac, p2m, apiList, toPhy>>
      BY <1>9 DEF vars, inst, mac
    <2>2. Passed(p)' = Passed(p)
      BY <2>1 DEF Passed, ApiQueue
    <2> QED BY <1>1, <2>1, <2>2, TriesQuiet
  <1> QED BY <1>3, <1>4, <1>5, <1>6, <1>7, <1>8, <1>9, TriesMacReceive, TriesPhyAnswer, TriesP2MRecv,
             TriesAnswers, TriesStop, TriesShutdown DEF Next, Phy2Mac

\* What a list of the phy2mac thread, or one on its way, says to the MAC.
LEMMA ListSays ==
    ASSUME CarefulInv, NEW p \in Phys, NEW a \in {"ERROR_SHUTDOWN", "STOP_IND"}, a \in ToSet(sendList[p]),
           Known
    PROVE  a \in Queued(p)
  <1>1. /\ \A b : ToSet(<<"HEADER", b>>) = {"HEADER", b}
        /\ ToSet(<<"HEADER">>) = {"HEADER"} /\ ToSet(<<>>) = {}
    BY DEF ToSet
  <1>2. Filled(p)
    <2>1. p2m.pc \in {"recv", "handle", "cleanId", "cleanState", "send"}
      BY DEF Known, CoreOK, Phy2MacOK
    <2>2. "STOP_IND" \in Answers
      BY DEF Answers
    <2> QED BY <2>1, <2>2 DEF CarefulInv, HeadersInv, Begun, Filled
  <1>3. sendList[p] = <<"HEADER", a>>
    <2>1. sendList[p] \notin {<<>>, <<"HEADER">>}
      BY <1>1
    <2>2. PICK b \in Answers : sendList[p] = <<"HEADER", b>>
      BY <1>2, <2>1 DEF Filled
    <2>3. a \in {"HEADER", b}
      BY <1>1, <2>2
    <2> QED BY <2>2, <2>3
  <1> QED BY <1>3, FinalsListed DEF Queued

LEMMA SegmentSays ==
    ASSUME Known, CarefulInv, NEW p \in Phys, NEW a \in {"ERROR_SHUTDOWN", "STOP_IND"},
           NEW x \in ToSet(toMac), x.phy = p, a \in ToSet(x.msgs)
    PROVE  a \in Told(p)
  <1>1. \A b : ToSet(<<"HEADER", b>>) = {"HEADER", b}
    BY DEF ToSet
  <1>2. PICK i \in DOMAIN toMac : x = toMac[i]
    BY DEF ToSet
  <1>3. PICK b \in Answers : x.msgs = <<"HEADER", b>>
    BY <1>2 DEF CarefulInv, HeadersInv
  <1>4. b = a
    BY <1>1, <1>3
  <1>5. x = Final(p, a)
    <2>1. x \in Segment
      BY <1>2 DEF Known, ListsOK
    <2> QED BY <1>3, <1>4, <2>1 DEF Segment, Final
  <1> QED BY <1>5, FinalsListed DEF Told

LEMMA CarefulInit == Init => CarefulInv
  <1> SUFFICES ASSUME Init PROVE CarefulInv
    OBVIOUS
  <1>1. /\ fromMac = <<>> /\ apiList = <<>> /\ toPhy = <<>> /\ fromPhy = <<>> /\ toMac = <<>>
        /\ m2p.pc = "recv" /\ p2m.pc = "recv"
        /\ \A p \in Phys : /\ sendList[p] = <<>> /\ state[p] = "IDLE" /\ macState[p] = "IDLE"
                           /\ retries[p] = 0 /\ refusals[p] = 0
    BY DEF Init
  <1>2. ToSet(<<>>) = {} /\ DOMAIN <<>> = {} /\ <<>> \o <<>> = <<>>
    BY DEF ToSet
  <1>3. ShapeInv /\ HeadersInv /\ StatusInv
    BY <1>1, <1>2 DEF ShapeInv, HeadersInv, StatusInv
  <1>4. ASSUME NEW p \in Phys PROVE Token(p) /\ Ticks(p) /\ Tries(p)
    <2>1. \A b : <<"HEADER", b>> # <<>>
      OBVIOUS
    <2>2. /\ Asked(p) = {} /\ InHand(p) = {} /\ Passed(p) = {} /\ Returned(p) = {} /\ AtHandler(p) = {}
          /\ Queued(p) = {} /\ Told(p) = {}
      BY <1>1, <1>2, <2>1 DEF Asked, InHand, Passed, Returned, AtHandler, Queued, Told, ApiQueue
    <2>3. OneEach(p)
      BY <1>1, <1>2 DEF OneEach, Single, ApiQueue
    <2>4. Token(p)
      BY <1>1, <2>2, <2>3 DEF Token, OnePlace, Underway, Decided, Settled
    <2>5. Tries(p)
      BY <1>1, <1>2, <2>2 DEF Tries, Refused, Decided, MaxTries
    <2> QED BY <1>1, <1>2, <2>4, <2>5 DEF Ticks
  <1> QED BY <1>3, <1>4 DEF CarefulInv
(***************************************************************************)
(* What a careful MAC may rely on.                                         *)
(***************************************************************************)
Kept == careless = 0 => CarefulInv

LEMMA KeptStep ==
    ASSUME OneRequestEach
    PROVE  Known /\ Kept /\ [Next]_vars => Kept'
  <1> SUFFICES ASSUME Known, Kept, [Next]_vars, careless' = 0 PROVE CarefulInv'
    BY DEF Kept
  <1>1. careless = 0
    <2>1. careless \in Nat
      BY ControlAssumption DEF Known, MacOK
    <2>2. CASE \E p \in Phys : MacSend(p)
      BY <2>1, <2>2 DEF MacSend
    <2>3. CASE MacReceive \/ UNCHANGED mac
      BY <2>3 DEF MacReceive, mac
    <2>4. CASE PhyAnswer
      BY <2>1, <2>4 DEF PhyAnswer
    <2> QED BY <2>2, <2>3, <2>4, MacFrame
  <1>2. CarefulInv
    BY <1>1 DEF Kept
  <1>3. ShapeInv' /\ HeadersInv' /\ StatusInv'
    BY <1>1, <1>2, ShapeStep, HeadersStep, StatusStep
  <1>4. \A p \in Phys : Token(p)' /\ Ticks(p)'
    BY <1>1, <1>2, TokenStep, TicksStep
  <1>5. \A p \in Phys : Tries(p)'
    BY <1>1, <1>2, <1>4, TriesStep
  <1> QED BY <1>3, <1>4, <1>5 DEF CarefulInv

LEMMA KnownInvariant == Spec => []Known
  <1>1. TypeOK /\ ActiveNamed => Known
    BY TypeParts DEF Known
  <1> QED BY <1>1, ControlTypeCorrect, ActiveNumbered, PTL

LEMMA KeptInvariant ==
    ASSUME OneRequestEach
    PROVE  Spec => []Kept
  <1>1. Init => Kept
    BY CarefulInit DEF Kept
  <1>2. Known /\ Kept /\ [Next]_vars => Kept'
    BY KeptStep
  <1> QED BY <1>1, <1>2, KnownInvariant, PTL DEF Spec

\* Every list that reaches a careful MAC begins with the message header and
\* holds no other, although three functions add headers and answers to it.
THEOREM ListsWellFormed ==
    ASSUME OneRequestEach
    PROVE  Spec => []HeaderFirst
  <1>1. Kept /\ Known => HeaderFirst
    <2> SUFFICES ASSUME CarefulInv, Known, NEW i \in 1..Len(toMac)
                 PROVE  LET ms == toMac[i].msgs
                        IN  ms[1] = "HEADER" /\ \A k \in 2..Len(ms) : ms[k] # "HEADER"
      BY DEF Kept, HeaderFirst
    <2>1. i \in DOMAIN toMac
      BY DEF Known, ListsOK
    <2>2. PICK a \in Answers : toMac[i].msgs = <<"HEADER", a>>
      BY <2>1 DEF CarefulInv, HeadersInv
    <2>3. a # "HEADER"
      BY DEF Answers, Errors
    <2> QED BY <2>2, <2>3
  <1> QED BY <1>1, KeptInvariant, KnownInvariant, PTL

\* Whenever a careful MAC waits for nothing, it and FAPI agree on the state of
\* the instance, however the answers of the PHY, the chain of shutdowns, the
\* clean-up and the ticks interleave.
THEOREM ViewsAgree ==
    ASSUME OneRequestEach
    PROVE  Spec => []AgreesWithMac
  <1>1. Kept => AgreesWithMac
    BY NothingUnderway DEF Kept, CarefulInv, AgreesWithMac
  <1> QED BY <1>1, KeptInvariant, PTL

\* A careful MAC is told that its stop failed in the shutdown only after the PHY
\* has refused four times for this stop, and that it is done only if it did not:
\* the count starts anew with each stop, whatever ended the one before.
THEOREM TriesBeforeError ==
    ASSUME OneRequestEach
    PROVE  Spec => []ErrorAfterAllTries
  <1>1. Kept /\ Known => ErrorAfterAllTries
    <2> SUFFICES ASSUME Kept, Known, careless = 0, NEW p \in Phys
                 PROVE  LET told == ToSet(sendList[p]) \cup
                                    UNION {ToSet(seg.msgs) : seg \in {x \in ToSet(toMac) : x.phy = p}}
                        IN  /\ "ERROR_SHUTDOWN" \in told => refusals[p] = MaxTries + 1
                            /\ "STOP_IND" \in told => refusals[p] <= MaxTries
      BY DEF ErrorAfterAllTries
    <2>1. CarefulInv
      BY DEF Kept
    <2>2. ASSUME NEW a \in {"ERROR_SHUTDOWN", "STOP_IND"}, a \in ToSet(sendList[p]) PROVE a \in Decided(p)
      BY <2>1, <2>2, ListSays DEF Decided
    <2>3. ASSUME NEW a \in {"ERROR_SHUTDOWN", "STOP_IND"},
                 NEW x \in ToSet(toMac), x.phy = p, a \in ToSet(x.msgs)
          PROVE  a \in Decided(p)
      BY <2>1, <2>3, SegmentSays DEF Decided
    <2>4. /\ "ERROR_SHUTDOWN" \in Decided(p) => refusals[p] = MaxTries + 1
          /\ "STOP_IND" \in Decided(p) => refusals[p] <= MaxTries
      BY <2>1 DEF CarefulInv, Tries
    <2> QED BY <2>2, <2>3, <2>4
  <1> QED BY <1>1, KeptInvariant, KnownInvariant, PTL

\* A request of a careful MAC reaches the PHY under the number of the instance
\* it was made for: the clean-up never runs between the guard and the use.
THEOREM RequestsNamed ==
    ASSUME OneRequestEach
    PROVE  Spec => RequestNamesItsCarrier
  <1> DEFINE Named == careless = 0 /\ Len(apiList') > Len(apiList) =>
                          Last(apiList').idx = m2p.list.phy
  <1>1. Known /\ Kept /\ [Next]_vars => [Named]_vars
    <2> SUFFICES ASSUME Known, CarefulInv, Next, Len(apiList') > Len(apiList)
                 PROVE  Last(apiList').idx = m2p.list.phy
      BY DEF Kept
    <2>1. apiList \in Seq(ToPhyMsg) /\ Len(apiList) \in Nat
      BY DEF Known, CoreOK, ChannelsOK
    <2>2. apiList' # apiList /\ apiList' # <<>>
      BY <2>1
    <2>3. ASSUME NEW id \in {"CONFIG", "START", "STOP", "SHUTDOWN"}, Handling(id),
                 NEW guard \in BOOLEAN, Forward(id, guard), id = "SHUTDOWN" => guard
          PROVE  Last(apiList').idx = m2p.list.phy
      <3>1. PICK q \in Phys : q = m2p.list.phy
        BY DEF Known, CoreOK, Mac2PhyOK, MacList
      <3>2. phyId[q] = q
        BY <2>3, <3>1, TokenForward
      <3> DEFINE x == [type |-> id, idx |-> q]
      <3>3. apiList' = Append(apiList, x) /\ x \in ToPhyMsg /\ x.idx = q
        BY <2>2, <2>3, <3>1, <3>2 DEF Forward, ToPhyMsg
      <3> HIDE DEF x
      <3>4. Len(apiList') = Len(apiList) + 1 /\ Append(apiList, x)[Len(apiList) + 1] = x
        BY <2>1, <3>3
      <3> QED BY <3>1, <3>3, <3>4 DEF Last
    <2>4. CASE ConfigRequest
      <3>1. PICK guard \in BOOLEAN : guard = (m2p.list.vendor /\ state[m2p.list.phy] # "RUNNING")
        OBVIOUS
      <3> QED BY <2>3, <2>4, <3>1 DEF ConfigRequest
    <2>5. CASE StartRequest
      <3>1. PICK guard \in BOOLEAN : guard = (m2p.list.vendor /\ state[m2p.list.phy] = "CONFIGURED")
        OBVIOUS
      <3> QED BY <2>3, <2>5, <3>1 DEF StartRequest
    <2>6. CASE StopRequest
      <3>1. m2p.list.vendor \in BOOLEAN
        BY DEF Known, CoreOK, Mac2PhyOK, MacList
      <3> QED BY <2>3, <2>6, <3>1 DEF StopRequest
    <2>7. CASE ShutdownRequest
      BY <2>3, <2>7 DEF ShutdownRequest
    <2>8. ConfigRequest \/ StartRequest \/ StopRequest \/ ShutdownRequest
      BY <2>2 DEF Next, MacSend, MacReceive, Mac2Phy, Phy2Mac, M2PRecv, M2POrder, TtiRequest, ParamHeader,
             ParamAnswer, ParamSend, M2PSend, SendApiList, PhyAnswer, PhyTick, P2MRecv, RefuseAnswer,
             ConfigResponse, StartResponse, StopResponse, ShutdownDone, ShutdownRetry, ShutdownGiveUp,
             CleanId, CleanState, SlotIndication, P2MSend, AskShutdown
    <2> QED BY <2>4, <2>5, <2>6, <2>7, <2>8
  <1> QED BY <1>1, KeptInvariant, KnownInvariant, PTL DEF Spec, RequestNamesItsCarrier
=============================================================================
