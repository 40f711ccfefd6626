------------------------- MODULE MCServiceLifecycle -------------------------
(* Small instances of ServiceLifecycle for TLC. *)
EXTENDS ServiceLifecycle

\* The delays between restarts, by themselves: no step makes use of their length.
ASSUME WaitsLonger
=============================================================================
