--------------------------- MODULE WlsSessionProofs ---------------------------
(* Proofs about WlsSession, for processes that open and close one at a time. *)
EXTENDS WlsSession, FiniteSetTheorems, TLAPS

-----------------------------------------------------------------------------
(* The inductive invariant. *)

Moving(p) == pc[p] \in Opening \cup Closing

\* The processes that nWlsClients counts; a dead one never closes.
Holders == {p \in Procs : HasContext(p) \/ pc[p] = "dead"}

OneMoves == \A p, q \in Procs : Moving(p) /\ Moving(q) => p = q

\* The client count is the number of processes with a context.
Counted == IsFiniteSet(Holders) /\ clients = Cardinality(Holders)

ZoneInv ==
    /\ Holders # {} => zone = "ready"
    /\ zone = "reserved" => \E p \in Procs : pc[p] = "format"
    /\ \A p \in Procs : /\ pc[p] = "reserve" => zone = "none"
                        /\ pc[p] = "format" => zone = "reserved"
                        /\ pc[p] = "create" => zone = "ready"

HandleInv == \A p \in Holders : handle[p] \in Slots

\* In order of opening, the contexts in use are those below the count.
OrderInv ==
    orderly => \A p \in Holders : handle[p] < clients /\ pid[handle[p]] = p

IInv ==
    /\ TypeOK /\ OneMoves /\ Counted /\ ZoneInv
    /\ HandleInv /\ OrderInv

-----------------------------------------------------------------------------
(* Lemmas. *)

\* Every context has a twin of its own in the table, as MaxClients is even.
LEMMA Twins ==
    ASSUME NEW i \in Slots
    PROVE  Twin(i) \in Slots /\ Twin(i) # None /\ Twin(i) # i /\ Twin(Twin(i)) = i
  BY ProcsAssumption, SlotsAssumption DEF Slots, Twin

\* What a step of p that only moves p along means for the holders.
LEMMA HoldersNext ==
    ASSUME TypeOK, NEW p \in Procs, NEW w, pc' = [pc EXCEPT ![p] = w]
    PROVE  Holders' = IF w \in {"mode", "open", "connect", "run", "dead"}
                      THEN Holders \cup {p} ELSE Holders \ {p}
  BY DEF TypeOK, Holders, HasContext

\* Where no one but p moves in the zone, p's entry and exit leave one mover.
LEMMA OneMovesNext ==
    ASSUME TypeOK, OneMoves, NEW p \in Procs, NEW w, pc' = [pc EXCEPT ![p] = w],
           \/ \A q \in Procs \ {p} : ~Moving(q)
           \/ w \notin Opening \cup Closing
    PROVE  OneMoves'
  BY DEF TypeOK, OneMoves, Moving

\* A process that moves in the zone is alone there.
LEMMA Alone ==
    ASSUME OneMoves, NEW p \in Procs, Moving(p)
    PROVE  \A q \in Procs \ {p} : ~Moving(q)
  BY DEF OneMoves

LEMMA EntersAlone ==
    ASSUME ~OpensOverlap, NEW p \in Procs, MayEnter(p)
    PROVE  \A q \in Procs \ {p} : ~Moving(q)
  BY DEF MayEnter, Moving

LEMMA InitInv == Init => IInv
  <1> SUFFICES ASSUME Init PROVE IInv
    OBVIOUS
  <1>1. Holders = {}
    BY DEF Init, Holders, HasContext
  <1>2. TypeOK
    BY SlotsAssumption DEF Init, TypeOK, Slots
  <1>3. OneMoves /\ ZoneInv
    BY <1>1, ProcsAssumption DEF Init, OneMoves, Moving, Opening, Closing, ZoneInv
  <1>4. Counted
    BY <1>1, FS_EmptySet DEF Init, Counted
  <1> QED BY <1>1, <1>2, <1>3, <1>4 DEF IInv, HandleInv, OrderInv

-----------------------------------------------------------------------------
(* WLS_Open. *)

Places == {"idle", "open", "connect", "run", "dead"} \cup Opening \cup Closing
Holding == {"mode", "open", "connect", "run", "dead"}

LEMMA OpenLookupInv ==
    ASSUME IInv, ~OpensOverlap, NEW p \in Procs, OpenLookup(p)
    PROVE  IInv'
  <1> USE DEF IInv
  <1> DEFINE w == IF zone # "none" THEN "create" ELSE IF p \in Slaves THEN "reserve" ELSE "idle"
  <1>1. pc' = [pc EXCEPT ![p] = w] /\ pc[p] = "idle"
    BY DEF OpenLookup, Goto
  <1>2. \A q \in Procs \ {p} : ~Moving(q)
    BY EntersAlone DEF OpenLookup
  <1>3. w \in Places \ Holding
    BY DEF Places, Holding, Opening
  <1>4. w = "create" => zone = "ready"
    BY <1>1, <1>2 DEF ZoneInv, TypeOK, Moving, Opening
  <1>5. w = "reserve" => zone = "none"
    OBVIOUS
  <1>6. w # "format" /\ w # "connect"
    OBVIOUS
  <1> HIDE DEF w
  <1>7. Holders' = Holders
    BY <1>1, <1>3, HoldersNext DEF Holding, Holders, HasContext
  <1>8. UNCHANGED <<zone, pid, dst, master, clients, handle, rem, answer, orderly>>
    BY DEF OpenLookup, tableVars
  <1>9. TypeOK'
    <2>1. opens' \in [Procs -> 0 .. MaxOpens]
      BY SlotsAssumption DEF OpenLookup, TypeOK
    <2> QED BY <1>1, <1>3, <1>8, <2>1 DEF TypeOK, Places
  <1>10. OneMoves'
    BY <1>1, <1>2, OneMovesNext
  <1>11. ZoneInv'
    BY <1>1, <1>2, <1>4, <1>5, <1>6, <1>7, <1>8 DEF ZoneInv, TypeOK, Moving, Opening
  <1> QED BY <1>7, <1>8, <1>9, <1>10, <1>11 DEF Counted, HandleInv, OrderInv

LEMMA OpenReserveInv ==
    ASSUME IInv, NEW p \in Procs, OpenReserve(p)
    PROVE  IInv'
  <1> USE DEF IInv
  <1>1. pc' = [pc EXCEPT ![p] = "format"] /\ zone = "none" /\ zone' = "reserved"
    BY DEF OpenReserve, Goto, ZoneInv
  <1>2. pc[p] = "reserve" /\ \A q \in Procs \ {p} : ~Moving(q)
    BY Alone DEF OpenReserve, Moving, Opening
  <1>3. Holders' = Holders /\ Holders = {}
    BY <1>1, <1>2, HoldersNext DEF ZoneInv, Holders, HasContext
  <1>4. UNCHANGED <<pid, dst, master, clients, handle, rem, answer, opens, orderly>>
    BY DEF OpenReserve, tableVars
  <1>5. TypeOK'
    BY <1>1, <1>4 DEF TypeOK, Opening
  <1>6. OneMoves'
    BY <1>1, <1>2, OneMovesNext
  <1>7. ZoneInv'
    BY <1>1, <1>2, <1>3 DEF ZoneInv, TypeOK, Moving, Opening
  <1> QED BY <1>3, <1>4, <1>5, <1>6, <1>7 DEF Counted, HandleInv, OrderInv

LEMMA OpenFormatInv ==
    ASSUME IInv, NEW p \in Procs, OpenFormat(p)
    PROVE  IInv'
  <1> USE DEF IInv
  <1>1. pc' = [pc EXCEPT ![p] = "create"] /\ zone' = "ready" /\ zone = "reserved"
    BY DEF OpenFormat, Goto, ZoneInv
  <1>2. pc[p] = "format" /\ \A q \in Procs \ {p} : ~Moving(q)
    BY Alone DEF OpenFormat, Moving, Opening
  <1>3. Holders' = Holders /\ Holders = {}
    BY <1>1, <1>2, HoldersNext DEF ZoneInv, Holders, HasContext
  <1>4. /\ pid' = [i \in Slots |-> None] /\ dst' = [i \in Slots |-> None]
        /\ master' = [i \in Slots |-> FALSE] /\ clients' = 0
        /\ UNCHANGED <<handle, rem, answer, opens, orderly>>
    BY DEF OpenFormat
  <1>5. TypeOK'
    BY <1>1, <1>4, SlotsAssumption DEF TypeOK, Opening
  <1>6. OneMoves'
    BY <1>1, <1>2, OneMovesNext
  <1>7. ZoneInv'
    BY <1>1, <1>2, <1>3 DEF ZoneInv, TypeOK, Moving, Opening
  <1>8. Counted' /\ HandleInv' /\ OrderInv'
    BY <1>3, <1>4, FS_EmptySet DEF Counted, HandleInv, OrderInv
  <1> QED BY <1>5, <1>6, <1>7, <1>8

LEMMA CreateFullInv ==
    ASSUME IInv, NEW p \in Procs, CreateFull(p)
    PROVE  IInv'
  <1> USE DEF IInv
  <1>1. pc' = [pc EXCEPT ![p] = "idle"] /\ pc[p] = "create"
    BY DEF CreateFull, Goto
  <1>2. UNCHANGED <<zone, pid, dst, master, clients, handle, rem, answer, opens, orderly>>
    BY DEF CreateFull, tableVars
  <1>3. Holders' = Holders
    BY <1>1, HoldersNext DEF Holders, HasContext
  <1>4. TypeOK'
    BY <1>1, <1>2 DEF TypeOK
  <1>5. OneMoves'
    BY <1>1, OneMovesNext DEF Opening, Closing
  <1>6. ZoneInv'
    BY <1>1, <1>2, <1>3 DEF ZoneInv, TypeOK
  <1> QED BY <1>2, <1>3, <1>4, <1>5, <1>6 DEF Counted, HandleInv, OrderInv

LEMMA CreateInv ==
    ASSUME IInv, NEW p \in Procs, Create(p)
    PROVE  IInv'
  <1> USE DEF IInv
  <1>1. pc' = [pc EXCEPT ![p] = "mode"] /\ pc[p] = "create" /\ zone = "ready"
    BY DEF Create, Goto, ZoneInv
  <1>2. clients \in Slots /\ clients + 1 \in 0 .. MaxClients
    BY SlotsAssumption DEF Create, TypeOK, Slots
  <1>3. /\ pid' = [pid EXCEPT ![clients] = p] /\ dst' = [dst EXCEPT ![clients] = Twin(clients)]
        /\ master' = [master EXCEPT ![clients] = FALSE] /\ clients' = clients + 1
        /\ handle' = [handle EXCEPT ![p] = clients]
        /\ UNCHANGED <<zone, rem, answer, opens, orderly>>
    BY DEF Create
  <1>4. \A q \in Procs \ {p} : ~Moving(q)
    BY <1>1, Alone DEF Moving, Opening
  <1>5. Holders' = Holders \cup {p} /\ p \notin Holders
    BY <1>1, HoldersNext DEF Holders, HasContext
  <1>6. TypeOK'
    BY <1>1, <1>2, <1>3, Twins DEF TypeOK, Opening
  <1>7. OneMoves'
    BY <1>1, <1>4, OneMovesNext
  <1>8. Counted'
    BY <1>3, <1>5, FS_AddElement DEF Counted
  <1>9. ZoneInv'
    BY <1>1, <1>3 DEF ZoneInv, TypeOK
  <1>10. HandleInv'
    BY <1>2, <1>3, <1>5 DEF HandleInv, TypeOK, Holders
  <1>11. OrderInv'
    <2> SUFFICES ASSUME orderly, NEW q \in Holders'
                 PROVE  handle'[q] < clients' /\ pid'[handle'[q]] = q
      BY <1>3 DEF OrderInv
    <2>1. CASE q = p
      BY <1>2, <1>3, <2>1 DEF TypeOK, Slots
    <2>2. CASE q # p
      <3>1. q \in Holders /\ q \in Procs /\ handle[q] < clients /\ pid[handle[q]] = q
        BY <1>5, <2>2 DEF OrderInv, Holders
      <3>2. handle[q] \in Slots /\ handle'[q] = handle[q] /\ handle[q] # clients
        BY <1>2, <1>3, <2>2, <3>1 DEF HandleInv, TypeOK, Slots
      <3> QED BY <1>2, <1>3, <3>1, <3>2 DEF TypeOK, Slots
    <2> QED BY <2>1, <2>2
  <1> QED BY <1>6, <1>7, <1>8, <1>9, <1>10, <1>11

-----------------------------------------------------------------------------
(* An open handle: p keeps its context, its number and its pid. *)

\* Such a step keeps the invariant if the values it stores have their types.
LEMMA KeepsContext ==
    ASSUME IInv, NEW p \in Procs, NEW w \in Holding,
           pc[p] \in Holding, pc' = [pc EXCEPT ![p] = w],
           w = "mode" => pc[p] = "mode",
           UNCHANGED <<zone, pid, clients, handle, opens, orderly>>,
           dst' \in [Slots -> Slots \cup {None}], master' \in [Slots -> BOOLEAN],
           rem' \in [Procs -> Slots \cup {None}], answer' \in [Procs -> {None, 0, -1, Crash}]
    PROVE  IInv'
  <1> USE DEF IInv
  <1>1. Holders' = Holders
    BY HoldersNext DEF Holders, HasContext, Holding
  <1>2. TypeOK'
    BY DEF TypeOK, Holding, Opening
  <1>3. OneMoves'
    BY Alone, OneMovesNext DEF Moving, Opening, Closing, Holding
  <1>4. ZoneInv'
    <2>1. w \notin {"reserve", "format", "create"} /\ pc[p] \notin {"reserve", "format", "create"}
      BY DEF Holding
    <2> QED BY <1>1, <2>1 DEF ZoneInv, TypeOK
  <1> QED BY <1>1, <1>2, <1>3, <1>4 DEF Counted, HandleInv, OrderInv

\* The context a step of its holder touches.
LEMMA HeldHandle ==
    ASSUME IInv, NEW p \in Procs, pc[p] \in Holding
    PROVE  handle[p] \in Slots /\ dst[handle[p]] \in Slots \cup {None}
  BY DEF IInv, HandleInv, TypeOK, Holders, HasContext, Holding

LEMMA SetModeInv ==
    ASSUME IInv, NEW p \in Procs, SetMode(p)
    PROVE  IInv'
  <1> USE DEF IInv
  <1>1. pc' = [pc EXCEPT ![p] = "open"] /\ pc[p] = "mode"
    BY DEF SetMode, Goto
  <1>2. /\ master' = [master EXCEPT ![handle[p]] = (p \notin Slaves)]
        /\ UNCHANGED <<zone, pid, dst, clients, handle, rem, answer, opens, orderly>>
    BY DEF SetMode
  <1>3. master' \in [Slots -> BOOLEAN]
    BY <1>2 DEF TypeOK
  <1> QED BY <1>1, <1>2, <1>3, KeepsContext DEF TypeOK, Holding

LEMMA AllocInv ==
    ASSUME IInv, NEW p \in Procs, Alloc(p)
    PROVE  IInv'
  <1> USE DEF IInv
  <1>1. pc[p] = "open" /\ UNCHANGED <<zone, pid, dst, master, clients, handle, answer, opens, orderly>>
    BY DEF Alloc, tableVars
  <1>2. CASE pc' = [pc EXCEPT ![p] = "connect"] /\ rem' = [rem EXCEPT ![p] = dst[handle[p]]]
    <2>1. rem' \in [Procs -> Slots \cup {None}]
      BY <1>1, <1>2, HeldHandle DEF TypeOK, Holding
    <2> QED BY <1>1, <1>2, <2>1, KeepsContext DEF TypeOK, Holding
  <1>3. CASE pc' = [pc EXCEPT ![p] = "run"] /\ rem' = rem
    BY <1>1, <1>3, KeepsContext DEF TypeOK, Holding
  <1> QED BY <1>2, <1>3 DEF Alloc, Goto

LEMMA AllocConnectedInv ==
    ASSUME IInv, NEW p \in Procs, AllocConnected(p)
    PROVE  IInv'
  <1> USE DEF IInv
  <1>1. pc' = [pc EXCEPT ![p] = "run"] /\ pc[p] = "connect"
    BY DEF AllocConnected, Goto
  <1>2. /\ dst' = [dst EXCEPT ![handle[p]] = rem[p]]
        /\ UNCHANGED <<zone, pid, master, clients, handle, rem, answer, opens, orderly>>
    BY DEF AllocConnected
  <1>3. rem[p] \in Slots \cup {None}
    BY DEF TypeOK
  <1>4. dst' \in [Slots -> Slots \cup {None}]
    BY <1>2, <1>3 DEF TypeOK
  <1> QED BY <1>1, <1>2, <1>4, KeepsContext DEF TypeOK, Holding

LEMMA ReadyInv ==
    ASSUME IInv, NEW p \in Procs, Ready(p) \/ ReadyNull(p)
    PROVE  IInv'
  <1> USE DEF IInv
  <1>1. /\ UNCHANGED <<zone, pid, dst, master, clients, handle, rem, opens, orderly>>
        /\ pc[p] \in {"open", "run"}
    BY DEF Ready, ReadyNull, tableVars
  <1>2. answer' \in [Procs -> {None, 0, -1, Crash}]
    BY DEF Ready, ReadyNull, TypeOK
  <1>3. PICK w \in {"open", "run", "dead"} : pc' = [pc EXCEPT ![p] = w]
    BY <1>1 DEF Ready, ReadyNull, Goto, TypeOK
  <1> QED BY <1>1, <1>2, <1>3, KeepsContext DEF TypeOK, Holding

LEMMA FreeInv ==
    ASSUME IInv, NEW p \in Procs, Free(p)
    PROVE  IInv'
  <1> USE DEF IInv
  <1>1. pc' = [pc EXCEPT ![p] = "run"] /\ pc[p] = "run"
    BY DEF Free, TypeOK
  <1>2. /\ dst' = [dst EXCEPT ![handle[p]] = None]
        /\ UNCHANGED <<zone, pid, master, clients, pc, handle, rem, answer, opens, orderly>>
    BY DEF Free
  <1>3. dst' \in [Slots -> Slots \cup {None}]
    BY <1>2 DEF TypeOK
  <1> QED BY <1>1, <1>2, <1>3, KeepsContext DEF TypeOK, Holding

-----------------------------------------------------------------------------
(* WLS_Close. *)

LEMMA CloseDestroyInv ==
    ASSUME IInv, ~OpensOverlap, NEW p \in Procs, CloseDestroy(p)
    PROVE  IInv'
  <1> USE DEF IInv
  <1>1. pc' = [pc EXCEPT ![p] = "release"] /\ pc[p] \in {"open", "run"}
    BY DEF CloseDestroy, MayClose, Goto
  <1>2. \A q \in Procs \ {p} : ~Moving(q)
    BY EntersAlone DEF CloseDestroy, MayClose
  <1> DEFINE unlinked == UnlinkFirstPair
  <1>3. /\ pid' = [pid EXCEPT ![handle[p]] = None]
        /\ dst' = [unlinked EXCEPT ![handle[p]] = None]
        /\ master' = [master EXCEPT ![handle[p]] = FALSE]
        /\ clients' = clients - 1
        /\ orderly' = (orderly /\ handle[p] = clients - 1)
        /\ UNCHANGED <<zone, handle, rem, answer, opens>>
    BY DEF CloseDestroy
  <1>4. Holders' = Holders \ {p} /\ p \in Holders /\ handle[p] \in Slots
    BY <1>1, HoldersNext DEF Holders, HasContext, HandleInv
  <1>5. unlinked \in [Slots -> Slots \cup {None}]
    BY DEF UnlinkFirstPair, TypeOK
  <1> HIDE DEF unlinked
  <1>6. Counted' /\ clients' \in 0 .. MaxClients
    <2>1. /\ IsFiniteSet(Holders \ {p})
          /\ Cardinality(Holders \ {p}) = Cardinality(Holders) - 1
      BY <1>4, FS_RemoveElement DEF Counted
    <2>2. Cardinality(Holders \ {p}) \in Nat
      BY <2>1, FS_CardinalityType
    <2> QED BY <1>3, <1>4, <2>1, <2>2, SlotsAssumption DEF Counted, TypeOK
  <1>7. TypeOK'
    BY <1>1, <1>3, <1>5, <1>6 DEF TypeOK, Closing
  <1>8. OneMoves'
    BY <1>1, <1>2, OneMovesNext
  <1>9. ZoneInv'
    BY <1>1, <1>3, <1>4 DEF ZoneInv, TypeOK
  <1>10. HandleInv'
    BY <1>3, <1>4 DEF HandleInv
  <1>11. OrderInv'
    <2> SUFFICES ASSUME orderly, handle[p] = clients - 1, NEW q \in Holders, q # p
                 PROVE  handle[q] < clients - 1 /\ pid'[handle[q]] = q
      BY <1>3, <1>4 DEF OrderInv
    <2>1. handle[q] < clients /\ pid[handle[q]] = q /\ pid[handle[p]] = p /\ handle[q] \in Slots
      BY <1>4 DEF OrderInv, HandleInv
    <2>2. handle[q] # handle[p]
      BY <2>1
    <2> QED BY <1>3, <2>1, <2>2 DEF TypeOK, Slots
  <1> QED BY <1>6, <1>7, <1>8, <1>9, <1>10, <1>11

LEMMA CloseReleaseInv ==
    ASSUME IInv, NEW p \in Procs, CloseRelease(p)
    PROVE  IInv'
  <1> USE DEF IInv
  <1>1. pc' = [pc EXCEPT ![p] = "idle"] /\ pc[p] = "release"
    BY DEF CloseRelease, Goto
  <1>2. /\ zone' = IF clients = 0 THEN "none" ELSE zone
        /\ handle' = [handle EXCEPT ![p] = None] /\ rem' = [rem EXCEPT ![p] = None]
        /\ UNCHANGED <<pid, dst, master, clients, answer, opens, orderly>>
    BY DEF CloseRelease, tableVars
  <1>3. \A q \in Procs \ {p} : ~Moving(q)
    BY <1>1, Alone DEF Moving, Closing
  <1>4. Holders' = Holders /\ p \notin Holders
    BY <1>1, HoldersNext DEF Holders, HasContext
  <1>5. TypeOK'
    BY <1>1, <1>2 DEF TypeOK
  <1>6. OneMoves'
    BY <1>1, <1>3, OneMovesNext
  <1>7. ZoneInv'
    <2>1. Holders # {} => clients # 0
      BY FS_EmptySet DEF Counted
    <2>2. \A q \in Procs : pc'[q] \notin {"reserve", "format", "create"}
      BY <1>1, <1>3 DEF TypeOK, Moving, Opening
    <2>3. zone # "reserved"
      BY <1>1, <1>3 DEF ZoneInv, Moving, Opening
    <2> QED BY <1>2, <1>4, <2>1, <2>2, <2>3 DEF ZoneInv
  <1>8. HandleInv' /\ OrderInv'
    BY <1>2, <1>4 DEF HandleInv, OrderInv, Holders, TypeOK
  <1> QED BY <1>2, <1>4, <1>5, <1>6, <1>7, <1>8 DEF Counted

-----------------------------------------------------------------------------
(* The theorems: for any number of processes and any even table, as long as  *)
(* no two processes are inside WLS_Open or WLS_Close at a time.              *)

LEMMA StepInv == ~OpensOverlap /\ IInv /\ [Next]_vars => IInv'
  <1> SUFFICES ASSUME ~OpensOverlap, IInv, [Next]_vars PROVE IInv'
    OBVIOUS
  <1>1. CASE UNCHANGED vars
    <2>1. Holders' = Holders
      BY <1>1 DEF vars, Holders, HasContext
    <2>2. TypeOK' /\ OneMoves'
      BY <1>1 DEF IInv, TypeOK, OneMoves, Moving, vars, tableVars
    <2>3. ZoneInv'
      BY <1>1, <2>1 DEF IInv, ZoneInv, vars, tableVars
    <2>4. Counted' /\ HandleInv' /\ OrderInv'
      BY <1>1, <2>1 DEF IInv, Counted, HandleInv, OrderInv, vars, tableVars
    <2> QED BY <2>2, <2>3, <2>4 DEF IInv
  <1> QED BY <1>1, OpenLookupInv, OpenReserveInv, OpenFormatInv, CreateFullInv, CreateInv,
             SetModeInv, AllocInv, AllocConnectedInv, ReadyInv, FreeInv, CloseDestroyInv,
             CloseReleaseInv DEF Next

LEMMA Inductive ==
    ASSUME ~OpensOverlap
    PROVE  Spec => []IInv
  <1>1. IInv /\ [Next]_vars => IInv'
    BY StepInv
  <1> QED BY <1>1, InitInv, PTL DEF Spec

\* The table's counts and numbers stay in range: nWlsClients neither overruns
\* the table nor falls below zero.
THEOREM SessionTypes ==
    ASSUME ~OpensOverlap
    PROVE  Spec => []TypeOK
  <1>1. IInv => TypeOK
    BY DEF IInv
  <1> QED BY <1>1, Inductive, PTL

\* The zone lives as long as anyone has a context in it.
THEOREM ZoneOutlives ==
    ASSUME ~OpensOverlap
    PROVE  Spec => []ZoneOutlivesClients
  <1>1. IInv => ZoneOutlivesClients
    BY DEF IInv, ZoneInv, ZoneOutlivesClients, Holders
  <1> QED BY <1>1, Inductive, PTL

\* Contexts that close in the reverse order of their opening are never shared.
THEOREM NotShared ==
    ASSUME ~OpensOverlap
    PROVE  Spec => []RegisteredInOrder
  <1>1. IInv => RegisteredInOrder
    BY DEF IInv, OrderInv, RegisteredInOrder, Holders
  <1> QED BY <1>1, Inductive, PTL
=============================================================================
