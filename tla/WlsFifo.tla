------------------------------- MODULE WlsFifo -------------------------------
(***************************************************************************)
(* What a WLS queue promises its two ends: a bounded first-in first-out    *)
(* queue of Cap entries whose operations never wait.  The writer is told   *)
(* whether its entry was accepted, the reader is handed an entry or told   *)
(* that there is none.  The rings of wls_lib/syslib.c implement it (module *)
(* WlsMsgQueue).                                                           *)
(***************************************************************************)
EXTENDS Naturals, Sequences

CONSTANTS
    Msgs,   \* the entries that can be queued
    Cap,    \* how many entries the queue holds
    NoMsg   \* what the reader is handed when the queue is empty

VARIABLES
    queue,  \* the entries accepted and not yet taken, oldest first
    rc,     \* result of the writer's last operation
    got     \* result of the reader's last operation

fifoVars == <<queue, rc, got>>

Init ==
    /\ queue = <<>>
    /\ rc = TRUE
    /\ got = NoMsg

Accept ==
    \E m \in Msgs :
        /\ Len(queue) < Cap
        /\ queue' = Append(queue, m)
        /\ rc' = TRUE
        /\ UNCHANGED got

Refuse ==
    /\ Len(queue) = Cap
    /\ rc' = FALSE
    /\ UNCHANGED <<queue, got>>

Take ==
    /\ queue # <<>>
    /\ got' = Head(queue)
    /\ queue' = Tail(queue)
    /\ UNCHANGED rc

Nothing ==
    /\ queue = <<>>
    /\ got' = NoMsg
    /\ UNCHANGED <<queue, rc>>

Next == Accept \/ Refuse \/ Take \/ Nothing

Spec == Init /\ [][Next]_fifoVars
==============================================================================
