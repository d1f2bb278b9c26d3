--------------------------- MODULE MCReportFlash ----------------------------
(* The constants of the run are such as the theorems are about. *)
EXTENDS ReportFlash

\* The hypotheses of the theorems of ReportFlash_proofs hold of the run's constants.
ASSUME FewMishaps /\ FewerThanRing
=============================================================================
