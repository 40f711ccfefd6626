----------------------------- MODULE MCRequests -----------------------------
(* Small instances for TLC of what goes over http: of LogSender, the       *)
(* uploads of the log, or else of Requests, the calls of every client.     *)
(* The two share no state: `part' tells which of them a behaviour is of,   *)
(* and the other one stays as it is.                                       *)
EXTENDS LogSender, IntegrationClients

CONSTANTS Clients, Calls, Slots, MaxExpiries

VARIABLES part, client, phase, then, retried, throttled, renewed, outcome, data,
          fresh, recent, accepted, refused, denied, expiries, announced

callVars == <<client, phase, then, retried, throttled, renewed, outcome, data,
              fresh, recent, accepted, refused, denied, expiries, announced>>

R == INSTANCE Requests

ASSUME CallsAssumption == R!RequestsAssumption
ASSUME ClientsAssumption == Clients \subseteq AllClients

MCInit ==
    /\ Init /\ R!Init /\ part \in {"calls", "log"}
    /\ part = "log" => client = CHOOSE c \in Clients : TRUE

MCNext ==
    \/ part = "calls" /\ R!Next /\ UNCHANGED <<part, vars>>
    \/ part = "log" /\ Next /\ UNCHANGED <<part, callVars>>

\* Nothing that is fair is enabled in the part that stays as it is.
MCSpec == MCInit /\ [][MCNext]_<<part, vars, callVars>> /\ Fairness /\ R!Fairness

\* The properties of Requests, which speaks of them.
EndsForAReason == R!EndsForAReason
Resumed == R!Resumed
CallsEnd == R!CallsEnd
=============================================================================
