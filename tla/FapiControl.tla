---------------------------- MODULE FapiControl ----------------------------
(***************************************************************************)
(* The control plane (P5) of the 5G FAPI translator, fapi_5g.              *)
(*                                                                         *)
(* Two worker threads share, without a lock, one record per PHY instance   *)
(* (state, phy_id, shutdown_retries): the mac2phy thread runs the requests *)
(* of the MAC and queues IAPI messages for the PHY, the phy2mac thread     *)
(* runs the PHY's answers and queues FAPI messages for the MAC.  A stop is *)
(* a chain: STOP.request, the PHY's STOP.resp, a SHUTDOWN.request made by  *)
(* the phy2mac thread, the PHY's SHUTDOWN.resp, at most three more tries,  *)
(* and only then STOP.indication or ERROR.indication.                      *)
(*                                                                         *)
(* The MAC and the PHY are external: the MAC sends the lists in Lists, the *)
(* PHY answers each message in order with a status of its choice, each of  *)
(* its messages a list of its own; a list of the MAC is for one instance.  *)
(* FAPI knows two statuses, success and failure: a STOP.resp or START.resp *)
(* with another one ends in an early return, and the MAC is told nothing.  *)
(* Built without DEBUG_MODE.  Out of the model: P7 payloads (only their    *)
(* part in the ordering check), statistics, exhaustion of the buffer       *)
(* pools, the URLLC path (FapiUrllc), and the unlocked list both threads   *)
(* append to, whose steps FapiPhyQueue models one load and store at a      *)
(* time.                                                                   *)
(***************************************************************************)
EXTENDS Naturals, Sequences, FiniteSets, SequencesExt

CONSTANTS
    Phys,         \* phy instances the MAC uses, 0 among them
    Lists,        \* the API lists (sequences of FAPI ids) the MAC may send
    MaxLists,     \* bound: lists the MAC sends
    MaxCareless   \* bound: steps of the MAC and the PHY outside their agreement with FAPI

MaxTries == 3    \* shutdown attempts after the first, nr5g_fapi_shutdown_response

Requests == {"CONFIG", "START", "STOP", "PARAM", "SHUTDOWN"}
P7       == {"DL_TTI", "UL_TTI"}

ASSUME ControlAssumption ==
    /\ Phys \subseteq 0..23 /\ 0 \in Phys
    /\ Lists \subseteq Seq(Requests \cup P7) \ {<<>>}
    /\ MaxLists \in Nat /\ MaxCareless \in Nat

\* A list the MAC sends for a running instance is of one slot: at most one
\* request among its messages, and no START.  The agreement with the MAC needs it.
OneRequestEach ==
    \A l \in Lists : Len(l) > 1 /\ l[1] = "DL_TTI" =>
        /\ "START" \notin ToSet(l)
        /\ \A i, j \in DOMAIN l : l[i] \in Requests /\ l[j] \in Requests => i = j

VARIABLES
    state,     \* phy_instance[p].state
    phyId,     \* phy_instance[p].phy_id, 0 until CONFIG.request names it
    retries,   \* phy_instance[p].shutdown_retries
    fromMac,   \* WLS, MAC to FAPI: lists not yet received
    m2p,       \* the mac2phy thread: its place and the list it works on
    apiList,   \* fapi2phy_q: IAPI messages not yet sent
    toPhy,     \* WLS, FAPI to PHY
    fromPhy,   \* WLS, PHY to FAPI
    p2m,       \* the phy2mac thread: its place and its message
    sendList,  \* fapi2mac_q[p]: FAPI messages not yet sent
    toMac,     \* WLS, FAPI to MAC: the committed per-instance lists
    macState,  \* the MAC's view of each instance
    pending,   \* the request the MAC waits an answer to, per instance
    sent,      \* number of lists the MAC has sent
    careless,  \* history: lists and statuses outside the agreement
    refusals   \* history: SHUTDOWNs the PHY refused since the MAC's last answer, by instance

inst == <<state, phyId, retries>>
mac  == <<macState, pending, sent, careless, refusals>>
vars == <<inst, fromMac, m2p, apiList, toPhy, fromPhy, p2m, sendList, toMac, mac>>

Errors   == {"ERROR_START", "ERROR_STOP", "ERROR_SHUTDOWN"}   \* ERROR.indication, by message_id
Answers  == {"CONFIG_RESP", "CONFIG_FAIL", "PARAM_RESP", "SLOT_IND", "STOP_IND"} \cup Errors
MacList  == [phy : Phys, msgs : Seq(Requests \cup P7), vendor : BOOLEAN]
SentList == {l \in MacList : l.msgs # <<>>}
Segment  == [phy : Phys, msgs : Seq(Answers \cup {"HEADER"})]
ToPhyMsg   == [type : {"CONFIG", "START", "STOP", "SHUTDOWN"}, idx : Phys]
FromPhyMsg == [type : {"CONFIG", "START", "STOP", "SHUTDOWN", "SLOT"},
               idx : Phys, status : {"ok", "error", "other"}]

NoList == [phy |-> 0, msgs |-> <<>>, vendor |-> FALSE]
NoMsg  == [type |-> "SLOT", idx |-> 0, status |-> "error"]

(***************************************************************************)
(* The MAC.                                                                *)
(***************************************************************************)
RequestIn(l) == LET r == {m \in ToSet(l) : m \in Requests}
                IN  IF r = {} THEN "none" ELSE CHOOSE m \in r : TRUE

\* the requests a MAC that follows the state machine makes in its view
Fits(view, l) ==
    CASE view = "IDLE"       -> l = <<"CONFIG">>
      [] view = "CONFIGURED" -> l \in {<<"CONFIG">>, <<"START">>, <<"SHUTDOWN">>}
      [] view = "RUNNING"    -> Len(l) > 1 /\ l[1] = "DL_TTI"

\* With a good vendor message, nothing outstanding, and in the right state; and no
\* PARAM.request: the mac2phy thread answers that one itself, and the other
\* thread may clear the list under the answer.
Careful(p, l, v) ==
    v /\ pending[p] = "none" /\ "PARAM" \notin ToSet(l) /\ Fits(macState[p], l)

MacSend(p) ==
    /\ sent < MaxLists
    /\ \E l \in Lists, v \in BOOLEAN :
         /\ careless' = IF Careful(p, l, v) THEN careless ELSE careless + 1
         /\ careless' <= MaxCareless
         /\ fromMac' = Append(fromMac, [phy |-> p, msgs |-> l, vendor |-> v])
         /\ pending' = [pending EXCEPT ![p] = RequestIn(l)]
    /\ sent' = sent + 1
    /\ UNCHANGED <<inst, m2p, apiList, toPhy, fromPhy, p2m, sendList, toMac, macState, refusals>>

\* the messages that end the wait for a request
Ends(r) == CASE r = "CONFIG"   -> {"CONFIG_RESP", "CONFIG_FAIL"}
             [] r = "START"    -> {"SLOT_IND", "ERROR_START"}
             [] r = "PARAM"    -> {"PARAM_RESP"}
             [] r \in {"STOP", "SHUTDOWN"} -> {"STOP_IND", "ERROR_STOP", "ERROR_SHUTDOWN"}
             [] OTHER          -> {}

\* what the MAC concludes of the instance's state from an answer
View(old, r, ms) ==
    CASE "STOP_IND" \in ms                         -> "IDLE"
      [] r = "STOP" /\ "ERROR_SHUTDOWN" \in ms     -> "CONFIGURED"
      [] "SLOT_IND" \in ms                         -> "RUNNING"
      [] "CONFIG_RESP" \in ms /\ old = "IDLE"      -> "CONFIGURED"
      [] OTHER                                     -> old

MacReceive ==
    /\ toMac # <<>>
    /\ LET seg == Head(toMac)
           p   == seg.phy
           ms  == ToSet(seg.msgs)
       IN  /\ macState' = [macState EXCEPT ![p] = View(@, pending[p], ms)]
           /\ pending'  = [pending EXCEPT ![p] = IF Ends(@) \cap ms # {} THEN "none" ELSE @]
           /\ refusals' = [refusals EXCEPT ![p] = IF Ends(pending[p]) \cap ms # {} THEN 0 ELSE @]
    /\ toMac' = Tail(toMac)
    /\ UNCHANGED <<inst, fromMac, m2p, apiList, toPhy, fromPhy, p2m, sendList, sent, careless>>

(***************************************************************************)
(* The lists both threads add to and send.  fapi2phy_q is one list for all *)
(* instances; fapi2mac_q has one list per instance, and its first element  *)
(* is used as the message header whatever it is.                           *)
(***************************************************************************)
SendApiList(list) ==
    /\ toPhy' = toPhy \o list
    /\ apiList' = <<>>

AddToMac(q, p, ms) == [q EXCEPT ![p] = @ \o ms]

\* instances whose list goes out: a lone header has num_msg = 0 and is freed
Committed == {p \in Phys : sendList[p] \notin {<<>>, <<"HEADER">>}}

\* nr5g_fapi_fapi2mac_wls_send puts nothing when the whole list has one element
Dropped == \E p \in Phys : Committed = {p} /\ Len(sendList[p]) = 1

\* the members of a set of instances, lowest first
Ascending(S) ==
    {o \in [1..Cardinality(S) -> S] : \A i, j \in 1..Cardinality(S) : i < j => o[i] < o[j]}

\* the lists of the instances in turn, and all of them emptied
SendMacLists ==
    /\ \E order \in Ascending(Committed) :
          toMac' = IF Dropped THEN toMac
                   ELSE toMac \o [i \in 1..Cardinality(Committed) |->
                                    [phy |-> order[i], msgs |-> sendList[order[i]]]]
    /\ sendList' = [p \in Phys |-> <<>>]

(***************************************************************************)
(* The mac2phy thread.                                                     *)
(***************************************************************************)
\* mutant of M2PRecv: the instance never gets its number
M2PRecvUnnamed ==
    /\ m2p.pc = "recv" /\ fromMac # <<>>
    /\ LET l == Head(fromMac)
           p == l.phy
       IN  IF state[p] = "IDLE" /\ l.msgs[1] # "CONFIG"
           THEN /\ m2p' = [pc |-> "send", list |-> NoList]
                /\ UNCHANGED phyId
           ELSE /\ m2p' = [pc |-> "order", list |-> l]
                /\ UNCHANGED phyId
    /\ fromMac' = Tail(fromMac)
    /\ UNCHANGED <<state, retries, apiList, toPhy, fromPhy, p2m, sendList, toMac, mac>>

\* nr5g_fapi_mac2phy_api_recv_handler: an IDLE instance takes only a list
\* that begins with CONFIG.request, which names the instance
M2PRecv ==
    /\ m2p.pc = "recv" /\ fromMac # <<>>
    /\ LET l == Head(fromMac)
           p == l.phy
       IN  IF state[p] = "IDLE" /\ l.msgs[1] # "CONFIG"
           THEN /\ m2p' = [pc |-> "send", list |-> NoList]
                /\ UNCHANGED phyId
           ELSE /\ m2p' = [pc |-> "order", list |-> l]
                /\ phyId' = IF state[p] = "IDLE" THEN [phyId EXCEPT ![p] = p] ELSE phyId
    /\ fromMac' = Tail(fromMac)
    /\ UNCHANGED <<state, retries, apiList, toPhy, fromPhy, p2m, sendList, toMac, mac>>

\* nr5g_fapi_check_api_ordering: [CONFIG] DL_TTI UL_TTI ... while RUNNING
Ordered(msgs) ==
    LET rest == IF msgs[1] = "CONFIG" THEN Tail(msgs) ELSE msgs
    IN  Len(rest) >= 2 /\ rest[1] = "DL_TTI" /\ rest[2] = "UL_TTI"

M2POrder ==
    /\ m2p.pc = "order"
    /\ m2p' = IF state[m2p.list.phy] = "RUNNING" /\ ~Ordered(m2p.list.msgs)
              THEN [pc |-> "send", list |-> NoList]
              ELSE [m2p EXCEPT !.pc = "handle"]
    /\ UNCHANGED <<inst, fromMac, apiList, toPhy, fromPhy, p2m, sendList, toMac, mac>>

\* a request handler is about to run on message id of the list
Handling(id) == m2p.pc = "handle" /\ m2p.list.msgs[1] = id

\* the loop goes on with the next message, or to the send at its end
NextMessage == m2p' = [pc   |-> IF Len(m2p.list.msgs) > 1 THEN "handle" ELSE "send",
                       list |-> [m2p.list EXCEPT !.msgs = Tail(@)]]

\* the handler's guard lets the request through to the PHY's list, or not; vendor
\* says that the list has a vendor message and, for START, that its mode is valid
Forward(type, guard) ==
    /\ apiList' = IF guard THEN Append(apiList, [type |-> type, idx |-> phyId[m2p.list.phy]])
                  ELSE apiList
    /\ NextMessage
    /\ UNCHANGED <<inst, fromMac, toPhy, fromPhy, p2m, sendList, toMac, mac>>

ConfigRequest == /\ Handling("CONFIG")
                 /\ Forward("CONFIG", m2p.list.vendor /\ state[m2p.list.phy] # "RUNNING")
StartRequest  == /\ Handling("START")
                 /\ Forward("START", m2p.list.vendor /\ state[m2p.list.phy] = "CONFIGURED")
StopRequest   == /\ Handling("STOP")
                 /\ Forward("STOP", m2p.list.vendor)
ShutdownRequest == /\ Handling("SHUTDOWN")
                   /\ Forward("SHUTDOWN", TRUE)

TtiRequest ==
    /\ m2p.pc = "handle" /\ m2p.list.msgs[1] \in P7
    /\ NextMessage
    /\ UNCHANGED <<inst, fromMac, apiList, toPhy, fromPhy, p2m, sendList, toMac, mac>>

\* nr5g_fapi_param_response, run by the mac2phy thread: it adds a header and
\* the answer to the list the phy2mac thread uses, then sends every list
ParamHeader ==
    /\ Handling("PARAM")
    /\ sendList' = AddToMac(sendList, phyId[m2p.list.phy], <<"HEADER">>)
    /\ m2p' = [m2p EXCEPT !.pc = "param"]
    /\ UNCHANGED <<inst, fromMac, apiList, toPhy, fromPhy, p2m, toMac, mac>>

ParamAnswer ==
    /\ m2p.pc = "param"
    /\ sendList' = AddToMac(sendList, phyId[m2p.list.phy], <<"PARAM_RESP">>)
    /\ m2p' = [m2p EXCEPT !.pc = "paramSend"]
    /\ UNCHANGED <<inst, fromMac, apiList, toPhy, fromPhy, p2m, toMac, mac>>

ParamSend ==
    /\ m2p.pc = "paramSend"
    /\ SendMacLists
    /\ NextMessage
    /\ UNCHANGED <<inst, fromMac, apiList, toPhy, fromPhy, p2m, mac>>

M2PSend ==
    /\ m2p.pc = "send"
    /\ SendApiList(apiList)
    /\ m2p' = [pc |-> "recv", list |-> NoList]
    /\ UNCHANGED <<inst, fromMac, fromPhy, p2m, sendList, toMac, mac>>

(***************************************************************************)
(* The PHY: it answers each message in turn, a started carrier first with  *)
(* SLOT.indication, and then ticks.  Any status but success is a failure   *)
(* to CONFIG and SHUTDOWN.  Bounds: a tick only when the channels to the   *)
(* MAC are empty; refusals are counted up to one more than the code takes. *)
(***************************************************************************)
Statuses(type) == {"ok", "error"} \cup (IF type \in {"START", "STOP"} THEN {"other"} ELSE {})

PhyAnswer ==
    /\ toPhy # <<>>
    /\ LET m == Head(toPhy)
       IN  \E status \in Statuses(m.type) :
             LET r == [type |-> m.type, idx |-> m.idx, status |-> status]
                 slot == [type |-> "SLOT", idx |-> m.idx, status |-> "ok"]
             IN  /\ fromPhy' = fromPhy \o IF m.type = "START" /\ status = "ok"
                                          THEN <<r, slot>> ELSE <<r>>
                 /\ careless' = IF status = "other" THEN careless + 1 ELSE careless
                 /\ refusals' = IF m.type = "SHUTDOWN" /\ status # "ok" /\ refusals[m.idx] <= MaxTries + 1
                                THEN [refusals EXCEPT ![m.idx] = @ + 1] ELSE refusals
    /\ careless' <= MaxCareless
    /\ toPhy' = Tail(toPhy)
    /\ UNCHANGED <<inst, fromMac, m2p, apiList, p2m, sendList, toMac, macState, pending, sent>>

PhyTick ==
    /\ fromPhy = <<>> /\ toMac = <<>>
    /\ \E p \in Phys : /\ state[p] = "RUNNING"
                      /\ fromPhy' = <<[type |-> "SLOT", idx |-> p, status |-> "ok"]>>
    /\ UNCHANGED <<inst, fromMac, m2p, apiList, toPhy, p2m, sendList, toMac, mac>>

(***************************************************************************)
(* The phy2mac thread.                                                     *)
(***************************************************************************)
\* nr5g_fapi_phy2mac_api_recv_handler begins every list with a header for
\* each instance that is not IDLE
P2MRecv ==
    /\ p2m.pc = "recv" /\ fromPhy # <<>>
    /\ p2m' = [pc |-> "handle", msg |-> Head(fromPhy)]
    /\ fromPhy' = Tail(fromPhy)
    /\ sendList' = [p \in Phys |-> IF state[p] = "IDLE" THEN sendList[p]
                                   ELSE Append(sendList[p], "HEADER")]
    /\ UNCHANGED <<inst, fromMac, m2p, apiList, toPhy, toMac, mac>>

\* mutant of Answering: the instance's number is not compared
AnsweringAny(type) == /\ p2m.pc = "handle" /\ p2m.msg.type = type

\* a response handler is about to run on a message of this type; it refuses
\* an instance whose phy_id is not the message's carrier
Answering(type) == /\ p2m.pc = "handle" /\ p2m.msg.type = type
                   /\ phyId[p2m.msg.idx] = p2m.msg.idx

Carrier == p2m.msg.idx
Handled == p2m' = [p2m EXCEPT !.pc = "send"]

RefuseAnswer ==
    /\ p2m.pc = "handle" /\ p2m.msg.type # "SLOT"
    /\ phyId[Carrier] # Carrier
    /\ Handled
    /\ UNCHANGED <<inst, fromMac, m2p, apiList, toPhy, fromPhy, sendList, toMac, mac>>

\* mutant of ConfigResponse: the header is added in every state
ConfigResponseHeader ==
    /\ Answering("CONFIG")
    /\ LET idle == state[Carrier] = "IDLE"
           resp == IF p2m.msg.status = "ok" THEN "CONFIG_RESP" ELSE "CONFIG_FAIL"
       IN  /\ sendList' = AddToMac(sendList, Carrier, <<"HEADER", resp>>)
           /\ state' = IF idle /\ p2m.msg.status = "ok" THEN [state EXCEPT ![Carrier] = "CONFIGURED"]
                      ELSE state
    /\ Handled
    /\ UNCHANGED <<phyId, retries, fromMac, m2p, apiList, toPhy, fromPhy, toMac, mac>>

ConfigResponse ==
    /\ Answering("CONFIG")
    /\ LET idle == state[Carrier] = "IDLE"
           resp == IF p2m.msg.status = "ok" THEN "CONFIG_RESP" ELSE "CONFIG_FAIL"
       IN  /\ sendList' = AddToMac(sendList, Carrier, IF idle THEN <<"HEADER", resp>> ELSE <<resp>>)
           /\ state' = IF idle /\ p2m.msg.status = "ok" THEN [state EXCEPT ![Carrier] = "CONFIGURED"]
                      ELSE state
    /\ Handled
    /\ UNCHANGED <<phyId, retries, fromMac, m2p, apiList, toPhy, fromPhy, toMac, mac>>

StartResponse ==
    /\ Answering("START")
    /\ \/ /\ p2m.msg.status = "ok"
          /\ state' = [state EXCEPT ![Carrier] = IF @ = "CONFIGURED" THEN "RUNNING" ELSE @]
          /\ UNCHANGED sendList
       \/ /\ p2m.msg.status = "error"
          /\ sendList' = AddToMac(sendList, Carrier, <<"ERROR_START">>)
          /\ UNCHANGED state
       \/ /\ p2m.msg.status = "other"
          /\ UNCHANGED <<state, sendList>>
    /\ Handled
    /\ UNCHANGED <<phyId, retries, fromMac, m2p, apiList, toPhy, fromPhy, toMac, mac>>

\* nr5g_fapi_shutdown_request and nr5g_fapi_fapi2phy_send_api_list, called by
\* the phy2mac thread: whatever the mac2phy thread has queued goes out as well
AskShutdown == SendApiList(Append(apiList, [type |-> "SHUTDOWN", idx |-> Carrier]))

\* mutant of StopResponse: a failed stop moves the state too
StopResponseMoves ==
    /\ Answering("STOP")
    /\ \/ /\ p2m.msg.status = "ok"
          /\ state' = [state EXCEPT ![Carrier] = IF @ = "RUNNING" THEN "CONFIGURED" ELSE @]
          /\ AskShutdown
          /\ UNCHANGED sendList
       \/ /\ p2m.msg.status = "error"
          /\ sendList' = AddToMac(sendList, Carrier, <<"ERROR_STOP">>)
          /\ state' = [state EXCEPT ![Carrier] = "CONFIGURED"]
          /\ UNCHANGED <<apiList, toPhy>>
       \/ /\ p2m.msg.status = "other"
          /\ UNCHANGED <<state, sendList, apiList, toPhy>>
    /\ Handled
    /\ UNCHANGED <<phyId, retries, fromMac, m2p, fromPhy, toMac, mac>>

\* nr5g_fapi_stop_indication: no STOP.indication yet, a shutdown first
StopResponse ==
    /\ Answering("STOP")
    /\ \/ /\ p2m.msg.status = "ok"
          /\ state' = [state EXCEPT ![Carrier] = IF @ = "RUNNING" THEN "CONFIGURED" ELSE @]
          /\ AskShutdown
          /\ UNCHANGED sendList
       \/ /\ p2m.msg.status = "error"
          /\ sendList' = AddToMac(sendList, Carrier, <<"ERROR_STOP">>)
          /\ UNCHANGED <<state, apiList, toPhy>>
       \/ /\ p2m.msg.status = "other"
          /\ UNCHANGED <<state, sendList, apiList, toPhy>>
    /\ Handled
    /\ UNCHANGED <<phyId, retries, fromMac, m2p, fromPhy, toMac, mac>>

\* mutant of ShutdownDone: the tries of this stop count for the next
ShutdownDoneUncleared ==
    /\ Answering("SHUTDOWN") /\ p2m.msg.status = "ok"
    /\ sendList' = AddToMac(sendList, Carrier, <<"STOP_IND">>)
    /\ UNCHANGED retries
    /\ p2m' = [p2m EXCEPT !.pc = "cleanId"]
    /\ UNCHANGED <<state, phyId, fromMac, m2p, apiList, toPhy, fromPhy, toMac, mac>>

ShutdownDone ==
    /\ Answering("SHUTDOWN") /\ p2m.msg.status = "ok"
    /\ sendList' = AddToMac(sendList, Carrier, <<"STOP_IND">>)
    /\ retries' = [retries EXCEPT ![Carrier] = 0]
    /\ p2m' = [p2m EXCEPT !.pc = "cleanId"]
    /\ UNCHANGED <<state, phyId, fromMac, m2p, apiList, toPhy, fromPhy, toMac, mac>>

\* mutant of ShutdownRetry: one try too many
ShutdownRetryMore ==
    /\ Answering("SHUTDOWN") /\ p2m.msg.status # "ok"
    /\ retries[Carrier] + 1 <= MaxTries + 1
    /\ retries' = [retries EXCEPT ![Carrier] = @ + 1]
    /\ AskShutdown
    /\ Handled
    /\ UNCHANGED <<state, phyId, fromMac, m2p, fromPhy, sendList, toMac, mac>>

\* mutant of ShutdownRetry: the try is not counted
ShutdownRetryUncounted ==
    /\ Answering("SHUTDOWN") /\ p2m.msg.status # "ok"
    /\ retries[Carrier] + 1 <= MaxTries
    /\ UNCHANGED retries
    /\ AskShutdown
    /\ Handled
    /\ UNCHANGED <<state, phyId, fromMac, m2p, fromPhy, sendList, toMac, mac>>

ShutdownRetry ==
    /\ Answering("SHUTDOWN") /\ p2m.msg.status # "ok"
    /\ retries[Carrier] + 1 <= MaxTries
    /\ retries' = [retries EXCEPT ![Carrier] = @ + 1]
    /\ AskShutdown
    /\ Handled
    /\ UNCHANGED <<state, phyId, fromMac, m2p, fromPhy, sendList, toMac, mac>>

ShutdownGiveUp ==
    /\ Answering("SHUTDOWN") /\ p2m.msg.status # "ok"
    /\ retries[Carrier] + 1 > MaxTries
    /\ sendList' = AddToMac(sendList, Carrier, <<"ERROR_SHUTDOWN">>)
    /\ retries' = [retries EXCEPT ![Carrier] = 0]
    /\ Handled
    /\ UNCHANGED <<state, phyId, fromMac, m2p, apiList, toPhy, fromPhy, toMac, mac>>

\* nr5g_fapi_clean writes phy_id, then state, and the other thread may run
\* in between
CleanId ==
    /\ p2m.pc = "cleanId"
    /\ phyId' = [phyId EXCEPT ![Carrier] = 0]
    /\ p2m' = [p2m EXCEPT !.pc = "cleanState"]
    /\ UNCHANGED <<state, retries, fromMac, m2p, apiList, toPhy, fromPhy, sendList, toMac, mac>>

CleanState ==
    /\ p2m.pc = "cleanState"
    /\ state' = [state EXCEPT ![Carrier] = "IDLE"]
    /\ Handled
    /\ UNCHANGED <<phyId, retries, fromMac, m2p, apiList, toPhy, fromPhy, sendList, toMac, mac>>

\* nr5g_fapi_slot_indication: one for each RUNNING instance, up to the first
\* whose phy_id is wrong
SlotIndication ==
    /\ p2m.pc = "handle" /\ p2m.msg.type = "SLOT"
    /\ LET running == {p \in Phys : state[p] = "RUNNING"}
           told == {p \in running : \A q \in running : q <= p => phyId[q] = q}
       IN  sendList' = [p \in Phys |-> IF p \in told THEN Append(sendList[p], "SLOT_IND")
                                      ELSE sendList[p]]
    /\ Handled
    /\ UNCHANGED <<inst, fromMac, m2p, apiList, toPhy, fromPhy, toMac, mac>>

\* after each list, and on every turn of the loop without one
P2MSend ==
    /\ \/ p2m.pc = "send"
       \/ p2m.pc = "recv" /\ \E p \in Phys : sendList[p] # <<>>
    /\ SendMacLists
    /\ p2m' = [pc |-> "recv", msg |-> NoMsg]
    /\ UNCHANGED <<inst, fromMac, m2p, apiList, toPhy, fromPhy, mac>>

-----------------------------------------------------------------------------
Init ==
    /\ state = [p \in Phys |-> "IDLE"] /\ phyId = [p \in Phys |-> 0]
    /\ retries = [p \in Phys |-> 0]
    /\ m2p = [pc |-> "recv", list |-> NoList]
    /\ p2m = [pc |-> "recv", msg |-> NoMsg]
    /\ fromMac = <<>> /\ apiList = <<>> /\ toPhy = <<>> /\ fromPhy = <<>> /\ toMac = <<>>
    /\ sendList = [p \in Phys |-> <<>>]
    /\ macState = [p \in Phys |-> "IDLE"] /\ pending = [p \in Phys |-> "none"]
    /\ sent = 0 /\ careless = 0 /\ refusals = [p \in Phys |-> 0]

Mac2Phy == \/ M2PRecv \/ M2POrder \/ ConfigRequest \/ StartRequest \/ StopRequest
           \/ ShutdownRequest \/ TtiRequest \/ ParamHeader \/ ParamAnswer \/ ParamSend
           \/ M2PSend
Phy2Mac == \/ P2MRecv \/ RefuseAnswer \/ ConfigResponse \/ StartResponse \/ StopResponse
           \/ ShutdownDone \/ ShutdownRetry \/ ShutdownGiveUp \/ CleanId \/ CleanState
           \/ SlotIndication \/ P2MSend

Next == \/ \E p \in Phys : MacSend(p)
        \/ MacReceive
        \/ Mac2Phy
        \/ PhyAnswer \/ PhyTick
        \/ Phy2Mac

Spec == Init /\ [][Next]_vars

\* both threads poll for ever on cores of their own, the MAC reads what it is
\* sent and the PHY answers; the MAC need not send and the PHY need not tick
FairSpec == /\ Spec
            /\ WF_vars(Mac2Phy) /\ WF_vars(Phy2Mac)
            /\ WF_vars(PhyAnswer) /\ WF_vars(MacReceive)

-----------------------------------------------------------------------------
RecordsOK ==
    /\ state \in [Phys -> {"IDLE", "CONFIGURED", "RUNNING"}]
    /\ phyId \in [Phys -> Phys] /\ \A p \in Phys : phyId[p] \in {0, p}
    /\ retries \in [Phys -> 0..MaxTries]

Mac2PhyOK ==
    /\ fromMac \in Seq(SentList)
    /\ m2p \in [pc : {"recv", "order", "handle", "param", "paramSend", "send"}, list : MacList]
    /\ m2p.pc \in {"order", "handle", "param", "paramSend"} => m2p.list.msgs # <<>>

ChannelsOK ==
    /\ apiList \in Seq(ToPhyMsg) /\ toPhy \in Seq(ToPhyMsg) /\ fromPhy \in Seq(FromPhyMsg)

Phy2MacOK == p2m \in [pc : {"recv", "handle", "cleanId", "cleanState", "send"}, msg : FromPhyMsg]

\* The records of the instances, the two threads and the channels towards and
\* from the PHY; retries never passes the limit of the code.
CoreOK == RecordsOK /\ Mac2PhyOK /\ ChannelsOK /\ Phy2MacOK

\* CoreOK, and the lists towards the MAC and the MAC itself.
TypeOK ==
    /\ CoreOK
    /\ sendList \in [Phys -> Seq(Answers \cup {"HEADER"})]
    /\ toMac \in Seq(Segment)
    /\ macState \in [Phys -> {"IDLE", "CONFIGURED", "RUNNING"}]
    /\ pending \in [Phys -> Requests \cup {"none"}]
    /\ sent \in 0..MaxLists /\ careless \in 0..MaxCareless
    /\ refusals \in [Phys -> 0..MaxTries + 2]

\* While the MAC and the PHY keep to their agreement, every list that reaches
\* the MAC for an instance begins with the message header and holds no other,
\* although headers and answers are added in three functions, each by its own
\* test of the instance's state.
HeaderFirst ==
    careless = 0 =>
        \A i \in 1..Len(toMac) :
            LET ms == toMac[i].msgs
            IN  ms[1] = "HEADER" /\ \A k \in 2..Len(ms) : ms[k] # "HEADER"

\* Whenever such a MAC has its answer, FAPI and the MAC agree on the state of
\* the instance: no STOP.indication before the clean-up it announces, no
\* SLOT.indication before RUNNING, no failure that leaves the state moved.
AgreesWithMac ==
    careless = 0 => \A p \in Phys : pending[p] = "none" => macState[p] = state[p]

\* Whatever the MAC sends, an instance that is not IDLE carries its own number,
\* except between the two writes of nr5g_fapi_clean: otherwise every answer to
\* it would be refused.
ActiveNamed ==
    \A p \in Phys : state[p] # "IDLE" =>
        phyId[p] = p \/ (p2m.pc = "cleanState" /\ Carrier = p)

\* The inductive form: the answers need the types of the two threads' places.
NamedInv == CoreOK /\ ActiveNamed

\* A request a careful MAC makes for one instance goes to the PHY under that
\* instance's number: the record is not cleaned between the guard of the
\* handler and its use of phy_id.
RequestNamesItsCarrier ==
    [][careless = 0 /\ Len(apiList') > Len(apiList) =>
           Last(apiList').idx = m2p.list.phy]_vars

\* A stop or shutdown such a MAC asked for ends with ERROR.indication only after
\* the PHY has refused it at first and at each of the three further tries, and
\* with STOP.indication only if it did not: whatever became of the stops before.
ErrorAfterAllTries ==
    careless = 0 => \A p \in Phys :
        LET told == ToSet(sendList[p]) \cup
                    UNION {ToSet(seg.msgs) : seg \in {s \in ToSet(toMac) : s.phy = p}}
        IN  /\ "ERROR_SHUTDOWN" \in told => refusals[p] = MaxTries + 1
            /\ "STOP_IND" \in told => refusals[p] <= MaxTries

\* Every request of such a MAC is answered in the end, a stop by
\* STOP.indication or ERROR.indication however often the PHY fails to shut down.
Answered ==
    \A p \in Phys : pending[p] # "none" ~> pending[p] = "none" \/ careless > 0
=============================================================================
