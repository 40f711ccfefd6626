------------------------ MODULE MCIncrementalExport -------------------------
(* Small instances of IncrementalExport for TLC: the keys are one model of *)
(* an integration and one git repo.                                        *)
EXTENDS IncrementalExport
=============================================================================
