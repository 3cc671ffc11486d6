---------------------------- MODULE FapiPhyQueue ----------------------------
(***************************************************************************)
(* fapi2phy_q, the linked list of IAPI messages on their way to the PHY    *)
(* (nr5g_fapi_fapi2phy_add_to_api_list, nr5g_fapi_fapi2phy_send_api_list). *)
(*                                                                         *)
(* No lock protects it.  The mac2phy thread adds the messages of a TTI and *)
(* sends the list; the phy2mac thread adds a SHUTDOWN.request and sends    *)
(* the list when the PHY has stopped or a shutdown has failed.  The loads  *)
(* and stores of head, tail and pNext are the steps here, in the order of  *)
(* the C expressions; walking and putting the list is one step, which      *)
(* leaves each element's pNext as it is.                                   *)
(***************************************************************************)
EXTENDS Naturals, Sequences, FiniteSets, SequencesExt

CONSTANTS
    Threads,   \* the threads that use the list
    Elems,     \* the messages of a run, each added once
    MaxBatch,  \* bound: messages a thread adds before it sends
    Null

VARIABLES
    head, tail,  \* p_send_list_head, p_send_list_tail
    next,        \* pNext of each message
    made,        \* messages created and given to the list, in order
    pc,          \* where each thread is
    elem,        \* the message a thread is adding
    batch,       \* messages the thread has added since its last send
    sent         \* messages handed to WLS, in order

vars == <<head, tail, next, made, pc, elem, batch, sent>>

Init ==
    /\ head = Null /\ tail = Null
    /\ next = [e \in Elems |-> Null]
    /\ made = <<>>
    /\ pc = [t \in Threads |-> "run"] /\ elem = [t \in Threads |-> Null]
    /\ batch = [t \in Threads |-> 0]
    /\ sent = <<>>

Goto(t, l) == pc' = [pc EXCEPT ![t] = l]

\* create_api_list_elem has cleared pNext; the test of head and tail
AddTest(t) ==
    /\ pc[t] = "run" /\ batch[t] < MaxBatch
    /\ \E e \in Elems \ ToSet(made) : /\ made' = Append(made, e)
                                      /\ elem' = [elem EXCEPT ![t] = e]
    /\ batch' = [batch EXCEPT ![t] = @ + 1]
    /\ Goto(t, IF head # Null /\ tail # Null THEN "link" ELSE "first")
    /\ UNCHANGED <<head, tail, next, sent>>

\* p_send_list_tail->pNext = p_list_elem; the thread faults if the tail has
\* been cleared since it was tested
AddLink(t) ==
    /\ pc[t] = "link"
    /\ next' = IF tail = Null THEN next ELSE [next EXCEPT ![tail] = elem[t]]
    /\ Goto(t, IF tail = Null THEN "dead" ELSE "tail")
    /\ UNCHANGED <<head, tail, made, elem, batch, sent>>

\* p_send_list_tail = p_list_elem
AddTail(t) ==
    /\ pc[t] = "tail"
    /\ tail' = elem[t]
    /\ Goto(t, "run")
    /\ UNCHANGED <<head, next, made, elem, batch, sent>>

\* p_send_list_head = p_send_list_tail = p_list_elem, tail first
AddFirst(t) ==
    /\ pc[t] = "first"
    /\ tail' = elem[t]
    /\ Goto(t, "head")
    /\ UNCHANGED <<head, next, made, elem, batch, sent>>

AddHead(t) ==
    /\ pc[t] = "head"
    /\ head' = elem[t]
    /\ Goto(t, "run")
    /\ UNCHANGED <<tail, next, made, elem, batch, sent>>

\* the elements from e on, along pNext; at most the length of Elems, so that a
\* list bent into a cycle is cut
Chain(e) ==
    LET walk[n \in 0..Cardinality(Elems)] ==
            IF n = 0 THEN <<e>>
            ELSE LET w == walk[n - 1]
                 IN  IF Last(w) = Null THEN w ELSE Append(w, next[Last(w)])
    IN  SelectSeq(walk[Cardinality(Elems)], LAMBDA x : x # Null)

\* the head is put to WLS with everything linked behind it
SendPut(t) ==
    /\ pc[t] = "run" /\ batch[t] > 0
    /\ IF head = Null
       THEN /\ Goto(t, "run")
            /\ batch' = [batch EXCEPT ![t] = 0]
            /\ UNCHANGED sent
       ELSE /\ sent' = sent \o Chain(head)
            /\ Goto(t, "clearHead")
            /\ UNCHANGED batch
    /\ UNCHANGED <<head, tail, next, made, elem>>

\* p_send_list_tail = p_send_list_head = NULL, head first
ClearHead(t) ==
    /\ pc[t] = "clearHead"
    /\ head' = Null
    /\ Goto(t, "clearTail")
    /\ UNCHANGED <<tail, next, made, elem, batch, sent>>

ClearTail(t) ==
    /\ pc[t] = "clearTail"
    /\ tail' = Null
    /\ batch' = [batch EXCEPT ![t] = 0]
    /\ Goto(t, "run")
    /\ UNCHANGED <<head, next, made, elem, sent>>

Next == \E t \in Threads :
    \/ AddTest(t) \/ AddLink(t) \/ AddTail(t) \/ AddFirst(t) \/ AddHead(t)
    \/ SendPut(t) \/ ClearHead(t) \/ ClearTail(t)

Spec == Init /\ [][Next]_vars

-----------------------------------------------------------------------------
\* The comment on nr5g_fapi_fapi2phy_add_to_api_list: it "adds a ListElement API
\* to a Linked list which will be sent to L1 once all APIs for a TTI are added".
\* So what has been added is in the list until it has been sent.
Adding(t) == pc[t] \in {"link", "tail", "first", "head"}

ListedUntilSent ==
    \A e \in ToSet(made) :
        \/ e \in ToSet(sent) \/ e \in ToSet(Chain(head))
        \/ \E t \in Threads : Adding(t) /\ elem[t] = e
=============================================================================
