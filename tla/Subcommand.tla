----------------------------- MODULE Subcommand -----------------------------
(***************************************************************************)
(* The export subcommand as a process of the operating system, and its     *)
(* cancellation (subcommand/command.go, forcekill.go, cancel_events.go).   *)
(*                                                                         *)
(* Two goroutines of the service share the map `processes' without a lock: *)
(* the exporter, which runs one export after the other and removes each    *)
(* when it has ended, and the handler of cancel requests.  Both remove an  *)
(* entry by the same three steps, removeProcess: look it up, delete the    *)
(* name, send a signal to the process id.  Process ids are used again.     *)
(***************************************************************************)
EXTENDS Naturals

CONSTANTS
    Pids,       \* the process ids
    MaxExports, \* bound: exports
    MaxCancels, \* bound: cancel requests
    None        \* no process

Exports == 1..MaxExports
Process == Exports \X Pids

ASSUME BoundsAssumption == MaxExports \in Nat /\ MaxCancels \in Nat
ASSUME NoneAssumption ==
    None \notin Process /\ None \notin Exports /\ None \notin Pids

VARIABLES
    owner,     \* by process id: the export, or None
    exit,      \* by export: how its process is: "none", "running", "ok",
               \* "failed" (on its own) or "killed"
    processes, \* processes["export"]: an export and its process id, or None
    exporter,  \* the exporter: the export it runs and where it is
    canceller, \* the handler of cancel requests
    wanted,    \* the exports that a cancel request found in the map
    result     \* by export: "none", "success", "cancelled", "failed"

vars == <<owner, exit, processes, exporter, canceller, wanted, result>>

Current == exporter.export

-----------------------------------------------------------------------------
Init ==
    /\ owner = [p \in Pids |-> None]
    /\ exit = [e \in Exports |-> "none"]
    /\ processes = None
    /\ exporter = [export |-> 0, pid |-> None, at |-> "idle", entry |-> None]
    /\ canceller = [at |-> "idle", entry |-> None, received |-> 0]
    /\ wanted = {}
    /\ result = [e \in Exports |-> "none"]

\* cmd.Start: the next export gets a free process id.
Start(p) ==
    /\ exporter.at = "idle"
    /\ Current < MaxExports
    /\ owner[p] = None
    /\ exporter' = [export |-> Current + 1, pid |-> p, at |-> "started",
                    entry |-> None]
    /\ owner' = [owner EXCEPT ![p] = Current + 1]
    /\ exit' = [exit EXCEPT ![Current + 1] = "running"]
    /\ UNCHANGED <<processes, canceller, wanted, result>>

\* addProcess: an entry that is left makes it fail, and nobody waits for the
\* process.
AddProcess ==
    /\ exporter.at = "started"
    /\ IF processes = None
       THEN /\ processes' = <<Current, exporter.pid>>
            /\ exporter' = [exporter EXCEPT !.at = "wait"]
            /\ UNCHANGED result
       ELSE /\ exporter' = [exporter EXCEPT !.at = "idle"]
            /\ result' = [result EXCEPT ![Current] = "failed"]
            /\ UNCHANGED processes
    /\ UNCHANGED <<owner, exit, canceller, wanted>>

\* The process ends on its own.
Ends(e) ==
    /\ exit[e] = "running"
    /\ exit' \in {[exit EXCEPT ![e] = "ok"], [exit EXCEPT ![e] = "failed"]}
    /\ UNCHANGED <<owner, processes, exporter, canceller, wanted, result>>

\* cmd.Wait: the process is gone, its id is free.
Wait ==
    /\ exporter.at = "wait"
    /\ exit[Current] # "running"
    /\ owner' = [owner EXCEPT ![exporter.pid] = None]
    /\ exporter' = [exporter EXCEPT !.at = "check"]
    /\ UNCHANGED <<exit, processes, canceller, wanted, result>>

\* A bug to catch: any failure is taken for a cancellation.
Check_AnyFailure ==
    /\ exporter.at = "check"
    /\ result' = [result EXCEPT ![Current] =
                    IF exit[Current] = "ok" THEN "success" ELSE "cancelled"]
    /\ exporter' = [exporter EXCEPT !.at = "look"]
    /\ UNCHANGED <<owner, exit, processes, canceller, wanted>>

\* A process that failed and is not in the map any more was cancelled.
Check ==
    /\ exporter.at = "check"
    /\ result' = [result EXCEPT ![Current] =
                    CASE exit[Current] = "ok" -> "success"
                      [] exit[Current] # "ok" /\ processes = None -> "cancelled"
                      [] OTHER -> "failed"]
    /\ exporter' = [exporter EXCEPT !.at = "look"]
    /\ UNCHANGED <<owner, exit, processes, canceller, wanted>>

-----------------------------------------------------------------------------
(* removeProcess, in both goroutines.                                      *)

\* Kill: the export that has the process id by now gets an interrupt.
Signal(p) ==
    exit' = IF owner[p] # None /\ exit[owner[p]] = "running"
            THEN [exit EXCEPT ![owner[p]] = "killed"] ELSE exit

\* A bug to catch: the entry is not removed at the end of an export.
LookAtEnd_Skipped ==
    /\ exporter.at = "look"
    /\ exporter' = [exporter EXCEPT !.at = "idle"]
    /\ UNCHANGED <<owner, exit, processes, canceller, wanted, result>>

LookAtEnd ==
    /\ exporter.at = "look"
    /\ exporter' = [exporter EXCEPT !.entry = processes,
                       !.at = IF processes = None THEN "idle" ELSE "delete"]
    /\ UNCHANGED <<owner, exit, processes, canceller, wanted, result>>

DeleteAtEnd ==
    /\ exporter.at = "delete"
    /\ processes' = None
    /\ exporter' = [exporter EXCEPT !.at = "kill"]
    /\ UNCHANGED <<owner, exit, canceller, wanted, result>>

KillAtEnd ==
    /\ exporter.at = "kill"
    /\ Signal(exporter.entry[2])
    /\ exporter' = [exporter EXCEPT !.at = "idle"]
    /\ UNCHANGED <<owner, processes, canceller, wanted, result>>

\* A cancel request is received.  It names no export.
Cancel ==
    /\ canceller.at = "idle"
    /\ canceller.received < MaxCancels
    /\ canceller' = [at |-> "look", entry |-> None,
                     received |-> canceller.received + 1]
    /\ UNCHANGED <<owner, exit, processes, exporter, wanted, result>>

CancelLooks ==
    /\ canceller.at = "look"
    /\ canceller' = [canceller EXCEPT !.entry = processes,
                       !.at = IF processes = None THEN "idle" ELSE "delete"]
    /\ wanted' = IF processes = None THEN wanted ELSE wanted \cup {processes[1]}
    /\ UNCHANGED <<owner, exit, processes, exporter, result>>

\* The name is deleted, whatever process it stands for by now.
CancelDeletes ==
    /\ canceller.at = "delete"
    /\ processes' = None
    /\ canceller' = [canceller EXCEPT !.at = "kill"]
    /\ UNCHANGED <<owner, exit, exporter, wanted, result>>

\* A bug to catch: the process is only forgotten.
CancelKills_Never ==
    /\ canceller.at = "kill"
    /\ canceller' = [canceller EXCEPT !.at = "idle"]
    /\ UNCHANGED <<owner, exit, processes, exporter, wanted, result>>

CancelKills ==
    /\ canceller.at = "kill"
    /\ Signal(canceller.entry[2])
    /\ canceller' = [canceller EXCEPT !.at = "idle"]
    /\ UNCHANGED <<owner, processes, exporter, wanted, result>>

-----------------------------------------------------------------------------
ExporterStep ==
    \/ \E p \in Pids : Start(p)
    \/ AddProcess \/ Wait \/ Check
    \/ LookAtEnd \/ DeleteAtEnd \/ KillAtEnd

CancellerStep == CancelLooks \/ CancelDeletes \/ CancelKills

Next ==
    \/ ExporterStep
    \/ CancellerStep
    \/ Cancel
    \/ \E e \in Exports : Ends(e)

Spec == Init /\ [][Next]_vars

\* Both goroutines are scheduled.  An export may take any time: nothing is
\* assumed of the end of its process.
FairSpec == Spec /\ WF_vars(ExporterStep) /\ WF_vars(CancellerStep)

-----------------------------------------------------------------------------
(* Properties                                                              *)

\* Every variable keeps to its type; an entry that is about to be used for a
\* signal is a process.
TypeOK ==
    /\ owner \in [Pids -> Exports \cup {None}]
    /\ exit \in [Exports -> {"none", "running", "ok", "failed", "killed"}]
    /\ processes \in Process \cup {None}
    /\ exporter \in [export : 0..MaxExports, pid : Pids \cup {None},
                     at : {"idle", "started", "wait", "check", "look",
                           "delete", "kill"},
                     entry : Process \cup {None}]
    /\ exporter.at # "idle" => exporter.export \in Exports /\ exporter.pid \in Pids
    /\ exporter.at \in {"delete", "kill"} => exporter.entry \in Process
    /\ canceller \in [at : {"idle", "look", "delete", "kill"},
                      entry : Process \cup {None}, received : 0..MaxCancels]
    /\ canceller.at \in {"delete", "kill"} => canceller.entry \in Process
    /\ wanted \subseteq Exports
    /\ result \in [Exports -> {"none", "success", "cancelled", "failed"}]

\* However cancel requests interleave with exports, an export never finds the
\* entry of another one, and no process is left without anybody waiting for
\* it (command.go:199-202).
NeverRefused ==
    /\ exporter.at = "started" => processes = None
    /\ \A e \in Exports : exit[e] = "running" =>
         e = Current /\ exporter.at \in {"started", "wait"}

\* An export is reported as cancelled only if a cancel request found it, or one
\* before it (command.go:216-222).  Found by a request that is slow between its
\* look and its delete, an export is followed by another whose entry is deleted:
\* removeProcess is called from two goroutines without a lock.
CancelledAfterRequest ==
    \A e \in Exports : result[e] = "cancelled" => \E d \in wanted : d <= e

\* A cancel request that finds the process of an export in the map ends it,
\* although the export would run for ever.
CancelEnds ==
    \A e \in Exports :
        canceller.at = "kill" /\ canceller.entry[1] = e
          ~> result[e] # "none"
=============================================================================
