------------------------------- MODULE XranRxMC -------------------------------
(* The instance of XranRx that TLC checks: packet buffers are interchangeable. *)
EXTENDS XranRx, TLC

\* The hypotheses of the theorems of XranRxProofs: WindowIsExact needs the first only,
\* ImplementsMailbox all three, the others two.
ASSUME WindowFits
ASSUME RecordsLast
ASSUME SlotsOutnumber

MbufSymmetry == Permutations(Mbufs)
=============================================================================
