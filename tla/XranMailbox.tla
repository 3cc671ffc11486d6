------------------------------ MODULE XranMailbox ------------------------------
(* What the reception of U-plane packets promises the PHY and the pool of     *)
(* packet buffers, without rings, counts or clocks: each slot has a mailbox.  *)
(* The slots are given to the PHY one after the other; the mailbox of a slot  *)
(* is open until the slot has been given and is emptied only while the next   *)
(* one is with the PHY.  The records of fhi_lib, shared by the receiving      *)
(* worker and the callback's, implement it (module XranRx).                   *)
EXTENDS Integers

CONSTANTS
    Mbufs,      \* the packet buffers
    SfnSlots,   \* slots before a slot's number comes again
    Reach       \* slots after the one with the PHY whose mailboxes are open

VARIABLES
    place,      \* of each mbuf: the pool, on its way, in a mailbox, spent
    slot,       \* the slot that an mbuf in use belongs to, else 0
    given       \* the slot that the PHY has been given

boxVars == <<place, slot, given>>

Slots == 0..(SfnSlots - 1)

\* How many slots s comes after the one with the PHY.
Ahead(s) == (s - given) % SfnSlots
\* The slot that the PHY was given before the present one.
Before == (given + SfnSlots - 1) % SfnSlots
InBox(s) == {m \in Mbufs : place[m] = "mail" /\ slot[m] = s}

Init ==
    /\ place = [m \in Mbufs |-> "pool"] /\ slot = [m \in Mbufs |-> 0]
    /\ given \in Slots

\* To the pool again.
Return(m) ==
    /\ place' = [place EXCEPT ![m] = "pool"] /\ slot' = [slot EXCEPT ![m] = 0]
    /\ UNCHANGED given

\* A packet of slot s is received, one at a time ...
Arrive(m, s) ==
    /\ place[m] = "pool" /\ \A other \in Mbufs : place[other] # "carried"
    /\ place' = [place EXCEPT ![m] = "carried"] /\ slot' = [slot EXCEPT ![m] = s]
    /\ UNCHANGED given

\* ... and dropped or delivered, never to a slot that the PHY is done with.
Refuse(m) == place[m] = "carried" /\ Return(m)
Deliver(m) ==
    /\ place[m] = "carried" /\ Ahead(slot[m]) <= Reach
    /\ place' = [place EXCEPT ![m] = "mail"]
    /\ UNCHANGED <<slot, given>>

\* The PHY is given the next slot; nothing is left of the one before the present one.
Give ==
    /\ InBox(Before) = {}
    /\ given' = (given + 1) % SfnSlots
    /\ UNCHANGED <<place, slot>>

\* The mailbox of the slot before is emptied, packet by packet or all at once.
TakeBack(m) == m \in InBox(Before) /\ Return(m)
CloseBox ==
    /\ place' = [m \in Mbufs |-> IF m \in InBox(Before) THEN "spent" ELSE place[m]]
    /\ slot' = [m \in Mbufs |-> IF m \in InBox(Before) THEN 0 ELSE slot[m]]
    /\ UNCHANGED given

\* A spent mbuf is freed.
Recycle(m) == place[m] = "spent" /\ Return(m)

Next ==
    \/ \E m \in Mbufs, s \in Slots : Arrive(m, s)
    \/ \E m \in Mbufs : Refuse(m) \/ Deliver(m) \/ TakeBack(m) \/ Recycle(m)
    \/ Give \/ CloseBox

Spec == Init /\ [][Next]_boxVars

\* Whatever is in a mailbox is of the slot with the PHY, of one of the next, or of the
\* slot before while its mailbox is being emptied.
Recent ==
    \A m \in Mbufs : place[m] = "mail" => Ahead(slot[m]) <= Reach \/ slot[m] = Before
================================================================================
