----------------------------- MODULE XranTimingMC -----------------------------
(* Reception windows for TLC, in symbols after the end of what was received. *)
EXTENDS XranTiming, TLC

\* Deadlines within the slot, in the next slot and two slots on; none at an
\* offset of a whole slot.
MCTimeDiffs == {0 :> 2 @@ 1 :> 7}

\* The first quarter's deadline of numerology 1 is a whole slot after the slot's
\* start, as with Ta4_max=360 of app/usecase/cat_a/mu1_10mhz/1 at 14 symbols.
MCWholeSlotTimeDiffs == {0 :> 2 @@ 1 :> 4}

\* C-plane of the slot on the air, of the next one and, for numerology 1, of the
\* one after that, as with T1a_max_cp_dl=669 of app/usecase/cat_b/mu1_100mhz.
MCT1aSyms == 0 :> 3 @@ 1 :> 7

=============================================================================
