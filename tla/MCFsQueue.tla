----------------------------- MODULE MCFsQueue ------------------------------
(* Small instances of FsQueue for TLC.  Requests are not declared to be    *)
(* symmetric: one of the properties is a liveness property.                *)
EXTENDS FsQueue
=============================================================================
