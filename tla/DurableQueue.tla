---------------------------- MODULE DurableQueue ----------------------------
(***************************************************************************)
(* What the agent promises about export requests, without saying how: a    *)
(* request that was accepted is held durably until it has been exported at *)
(* least once.  Restarts do not appear here at all, they are invisible at  *)
(* this level.  FsQueue.tla implements this specification.                 *)
(***************************************************************************)
CONSTANT Requests       \* the export requests the backend may send

VARIABLES
    held,               \* accepted and not yet forgotten, survives restarts
    exported            \* exported at least once

vars == <<held, exported>>

TypeOK ==
    /\ held \subseteq Requests
    /\ exported \subseteq Requests

Init ==
    /\ held = {}
    /\ exported = {}

\* Accepting makes a request durable.  The save that does so covers earlier
\* saves that failed: requests S, exported before, may go with it.
Accept(r, S) ==
    /\ r \notin held \cup exported
    /\ S \subseteq held \cap exported
    /\ held' = (held \ S) \cup {r}
    /\ UNCHANGED exported

\* Only a held request is exported; exporting it again changes nothing here.
Export(r) ==
    /\ r \in held
    /\ exported' = exported \cup {r}
    /\ UNCHANGED held

\* Requests are forgotten only after they were exported.
Forget(S) ==
    /\ S # {}
    /\ S \subseteq held \cap exported
    /\ held' = held \ S
    /\ UNCHANGED exported

Next ==
    \/ \E r \in Requests : Export(r)
    \/ \E S \in SUBSET Requests : Forget(S) \/ \E r \in Requests : Accept(r, S)

Spec == Init /\ [][Next]_vars
=============================================================================
