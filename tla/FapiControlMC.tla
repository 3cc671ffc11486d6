--------------------------- MODULE FapiControlMC ---------------------------
(***************************************************************************)
(* Values of FapiControl's constants for TLC: the API lists of the MAC.    *)
(***************************************************************************)
EXTENDS FapiControl

\* one list per request, the stop among the requests of a slot, and what only a
\* careless MAC sends: PARAM, a bare STOP, a CONFIG before the slot's requests
MacLists == {<<"CONFIG">>, <<"START">>, <<"SHUTDOWN">>, <<"DL_TTI", "UL_TTI", "STOP">>,
             <<"PARAM">>, <<"DL_TTI", "UL_TTI", "PARAM">>, <<"STOP">>,
             <<"CONFIG", "DL_TTI", "UL_TTI">>}

ASSUME OneRequestEach
=============================================================================
