------------------------------ MODULE WlsSession ------------------------------
(***************************************************************************)
(* Opening and closing a WLS interface (wls_lib/wls_lib_dpdk.c): the       *)
(* management zone every process maps, its table of client contexts, and   *)
(* the links between contexts i and i ^ 1.  A slave creates the zone, a    *)
(* master finds it; contexts are handed out by the number of clients and   *)
(* the last client to leave frees the zone.                                *)
(*                                                                         *)
(* Only the table is under mng_mutex.  Looking the zone up, formatting it, *)
(* storing the mode and freeing the zone are steps of their own, which     *)
(* other processes can come between.                                       *)
(***************************************************************************)
EXTENDS Integers, FiniteSets

CONSTANTS
    Procs,          \* the processes, each opening one handle at a time
    Slaves,         \* those that open as WLS_SLAVE_CLIENT
    MaxClients,     \* WLS_US_CLIENTS_MAX, even
    None,           \* a pid, link or handle of zero
    Crash,          \* what reading through a null peer comes to
    OpensOverlap,   \* environment: processes open and close concurrently
    MaxOpens        \* bound: calls of WLS_Open per process

ASSUME ProcsAssumption ==
    /\ Slaves \subseteq Procs /\ None \notin Procs \cup Nat /\ Crash # None
    /\ OpensOverlap \in BOOLEAN
ASSUME SlotsAssumption ==
    MaxClients \in Nat \ {0} /\ MaxClients % 2 = 0 /\ MaxOpens \in Nat

VARIABLES
    zone,     \* the memzone: absent, reserved, or formatted
    pid,      \* p_wls_us_ctx[i].wls_us_private.pid
    dst,      \* p_wls_us_ctx[i].dst_user_va, as a slot
    master,   \* p_wls_us_ctx[i].mode = WLS_MASTER_CLIENT
    clients,  \* nWlsClients
    pc,       \* where a process is
    handle,   \* the slot its WLS_Open returned
    rem,      \* pWls_usRem, the peer WLS_Alloc waits for
    answer,   \* what its last WLS_Ready returned
    opens,    \* history: how often it opened
    orderly   \* history: only the newest context was ever closed

tableVars == <<pid, dst, master, clients>>
vars == <<zone, tableVars, pc, handle, rem, answer, opens, orderly>>

Slots == 0 .. MaxClients - 1
Twin(i) == IF i % 2 = 0 THEN i + 1 ELSE i - 1       \* i ^ 1
Opening == {"reserve", "format", "create", "mode"}
Closing == {"release"}

Init ==
    /\ zone = "none"
    /\ pid = [i \in Slots |-> None]
    /\ dst = [i \in Slots |-> None]
    /\ master = [i \in Slots |-> FALSE]
    /\ clients = 0
    /\ pc = [p \in Procs |-> "idle"]
    /\ handle = [p \in Procs |-> None]
    /\ rem = [p \in Procs |-> None]
    /\ answer = [p \in Procs |-> None]
    /\ opens = [p \in Procs |-> 0]
    /\ orderly = TRUE

Goto(p, where) == pc' = [pc EXCEPT ![p] = where]

MayEnter(p) == OpensOverlap \/ \A q \in Procs \ {p} : pc[q] \notin Opening \cup Closing

------------------------------------------------------------------------------
(* WLS_Open_Adv. *)

\* rte_memzone_lookup: a master without a zone gives up, a slave makes one.
OpenLookup(p) ==
    /\ pc[p] = "idle" /\ opens[p] < MaxOpens
    /\ MayEnter(p)
    /\ opens' = [opens EXCEPT ![p] = @ + 1]
    /\ Goto(p, IF zone # "none" THEN "create" ELSE IF p \in Slaves THEN "reserve" ELSE "idle")
    /\ UNCHANGED <<zone, tableVars, handle, rem, answer, orderly>>

\* rte_memzone_reserve_aligned in wls_initialize; when another process was
\* faster it fails, and the lookup that follows finds the other's zone.
OpenReserve(p) ==
    /\ pc[p] = "reserve"
    /\ zone' = IF zone = "none" THEN "reserved" ELSE zone
    /\ Goto(p, IF zone = "none" THEN "format" ELSE "create")
    /\ UNCHANGED <<tableVars, handle, rem, answer, opens, orderly>>

\* The rest of wls_initialize: the table is zeroed, the mutex initialised.
OpenFormat(p) ==
    /\ pc[p] = "format"
    /\ zone' = "ready"
    /\ pid' = [i \in Slots |-> None]
    /\ dst' = [i \in Slots |-> None]
    /\ master' = [i \in Slots |-> FALSE]
    /\ clients' = 0
    /\ Goto(p, "create")
    /\ UNCHANGED <<handle, rem, answer, opens, orderly>>

CreateFull(p) ==
    /\ pc[p] = "create"
    /\ clients >= MaxClients
    /\ Goto(p, "idle")
    /\ UNCHANGED <<zone, tableVars, handle, rem, answer, opens, orderly>>

\* MUTANT of Create: one client too many is let in
CreateOverfull(p) ==
    /\ pc[p] = "create"
    /\ clients <= MaxClients
    /\ pid' = [pid EXCEPT ![clients] = p]
    /\ dst' = [dst EXCEPT ![clients] = Twin(clients)]
    /\ master' = [master EXCEPT ![clients] = FALSE]
    /\ clients' = clients + 1
    /\ handle' = [handle EXCEPT ![p] = clients]
    /\ Goto(p, "mode")
    /\ UNCHANGED <<zone, rem, answer, opens, orderly>>

\* MUTANT of Create: the client is not counted
CreateUncounted(p) ==
    /\ pc[p] = "create"
    /\ clients < MaxClients
    /\ pid' = [pid EXCEPT ![clients] = p]
    /\ dst' = [dst EXCEPT ![clients] = Twin(clients)]
    /\ master' = [master EXCEPT ![clients] = FALSE]
    /\ clients' = clients
    /\ handle' = [handle EXCEPT ![p] = clients]
    /\ Goto(p, "mode")
    /\ UNCHANGED <<zone, rem, answer, opens, orderly>>

\* wls_create_us_ctx, under mng_mutex: the context at nWlsClients is zeroed,
\* whoever owns it, and linked to its twin.
Create(p) ==
    /\ pc[p] = "create"
    /\ clients < MaxClients
    /\ pid' = [pid EXCEPT ![clients] = p]
    /\ dst' = [dst EXCEPT ![clients] = Twin(clients)]
    /\ master' = [master EXCEPT ![clients] = FALSE]
    /\ clients' = clients + 1
    /\ handle' = [handle EXCEPT ![p] = clients]
    /\ Goto(p, "mode")
    /\ UNCHANGED <<zone, rem, answer, opens, orderly>>

\* pWls_us->mode = mode, and the handle is the caller's.
SetMode(p) ==
    /\ pc[p] = "mode"
    /\ master' = [master EXCEPT ![handle[p]] = (p \notin Slaves)]
    /\ Goto(p, "open")
    /\ UNCHANGED <<zone, pid, dst, clients, handle, rem, answer, opens, orderly>>

------------------------------------------------------------------------------
(* An open handle. *)

\* WLS_Alloc: a master takes its peer and spins until that has a pid.
Alloc(p) ==
    /\ pc[p] = "open"
    /\ IF master[handle[p]]
       THEN /\ rem' = [rem EXCEPT ![p] = dst[handle[p]]]
            /\ Goto(p, "connect")
       ELSE /\ Goto(p, "run")
            /\ UNCHANGED rem
    /\ UNCHANGED <<zone, tableVars, handle, answer, opens, orderly>>

\* The spin ends: the peer is linked again, whatever has happened since.
AllocConnected(p) ==
    /\ pc[p] = "connect"
    /\ rem[p] # None
    /\ pid[rem[p]] # None
    /\ dst' = [dst EXCEPT ![handle[p]] = rem[p]]
    /\ Goto(p, "run")
    /\ UNCHANGED <<zone, pid, master, clients, handle, rem, answer, opens, orderly>>

\* WLS_Ready: dst_user_va is dereferenced without a look.
Ready(p) ==
    /\ pc[p] \in {"open", "run"}
    /\ dst[handle[p]] # None
    /\ answer' = [answer EXCEPT ![p] = IF pid[dst[handle[p]]] # None THEN 0 ELSE -1]
    /\ UNCHANGED <<zone, tableVars, pc, handle, rem, opens, orderly>>

ReadyNull(p) ==
    /\ pc[p] \in {"open", "run"}
    /\ dst[handle[p]] = None
    /\ answer' = [answer EXCEPT ![p] = Crash]
    /\ Goto(p, "dead")
    /\ UNCHANGED <<zone, tableVars, handle, rem, opens, orderly>>

\* WLS_Free: a master drops its link.
Free(p) ==
    /\ pc[p] = "run"
    /\ master[handle[p]] /\ dst[handle[p]] # None
    /\ dst' = [dst EXCEPT ![handle[p]] = None]
    /\ UNCHANGED <<zone, pid, master, clients, pc, handle, rem, answer, opens, orderly>>

(* WLS_Close_Adv. *)

MayClose(p) ==
    /\ pc[p] \in {"open", "run"}
    /\ MayEnter(p)

\* wls_destroy_us_ctx, under mng_mutex: contexts 0 and 1 are unlinked if both
\* are in use, whichever context closes, and the closing one is zeroed.
UnlinkFirstPair ==
    IF pid[0] # None /\ pid[1] # None THEN [dst EXCEPT ![0] = None, ![1] = None] ELSE dst

CloseDestroy(p) ==
    /\ MayClose(p)
    /\ pid' = [pid EXCEPT ![handle[p]] = None]
    /\ dst' = [UnlinkFirstPair EXCEPT ![handle[p]] = None]
    /\ master' = [master EXCEPT ![handle[p]] = FALSE]
    /\ clients' = clients - 1
    /\ Goto(p, "release")
    /\ orderly' = (orderly /\ handle[p] = clients - 1)
    /\ UNCHANGED <<zone, handle, rem, answer, opens>>

\* MUTANT of CloseRelease: the zone is freed by every client that leaves
CloseReleaseAlways(p) ==
    /\ pc[p] = "release"
    /\ zone' = "none"
    /\ handle' = [handle EXCEPT ![p] = None]
    /\ rem' = [rem EXCEPT ![p] = None]
    /\ Goto(p, "idle")
    /\ UNCHANGED <<tableVars, answer, opens, orderly>>

\* The rest of WLS_Close_Adv, outside the mutex: the last client, as it sees
\* the count now, frees the zone.
CloseRelease(p) ==
    /\ pc[p] = "release"
    /\ zone' = IF clients = 0 THEN "none" ELSE zone
    /\ handle' = [handle EXCEPT ![p] = None]
    /\ rem' = [rem EXCEPT ![p] = None]
    /\ Goto(p, "idle")
    /\ UNCHANGED <<tableVars, answer, opens, orderly>>

Next ==
    \E p \in Procs :
        \/ OpenLookup(p) \/ OpenReserve(p) \/ OpenFormat(p) \/ CreateFull(p)
        \/ Create(p) \/ SetMode(p)
        \/ Alloc(p) \/ AllocConnected(p) \/ Ready(p) \/ ReadyNull(p) \/ Free(p)
        \/ CloseDestroy(p) \/ CloseRelease(p)

Spec == Init /\ [][Next]_vars

------------------------------------------------------------------------------
(* Properties. *)

\* Types; a client count above the table or below zero would index contexts
\* that do not exist.
TypeOK ==
    /\ zone \in {"none", "reserved", "ready"}
    /\ pid \in [Slots -> Procs \cup {None}]
    /\ dst \in [Slots -> Slots \cup {None}]
    /\ master \in [Slots -> BOOLEAN]
    /\ clients \in 0 .. MaxClients
    /\ pc \in [Procs -> {"idle", "open", "connect", "run", "dead"} \cup Opening \cup Closing]
    /\ handle \in [Procs -> Slots \cup {None}]
    /\ rem \in [Procs -> Slots \cup {None}]
    /\ answer \in [Procs -> {None, 0, -1, Crash}]
    /\ opens \in [Procs -> 0 .. MaxOpens] /\ orderly \in BOOLEAN

HasContext(p) == pc[p] \in {"mode", "open", "connect", "run"}

\* The zone a client works in is not freed under it: however clients come and
\* go, one at a time, the count reaches zero only with the last of them.
ZoneOutlivesClients == \A p \in Procs : HasContext(p) => zone = "ready"

\* As long as the newest context is always the one that closes, a context
\* stays its opener's until that closes it: no two clients share one, although
\* wls_create_us_ctx does not look who owns the one it takes.
RegisteredInOrder == orderly => \A p \in Procs : HasContext(p) => pid[handle[p]] = p

(* What the header says and the code does not do. *)

\* wls_lib.h on WLS_Open: it "registers as instance".  The registration lasts
\* until the instance closes, in whatever order others do.
Registered == \A p \in Procs : HasContext(p) => pid[handle[p]] = p
==============================================================================
