------------------------------ MODULE FsQueue -------------------------------
(***************************************************************************)
(* The persistent export queue (exporter/fsqueue/queue.go) together with   *)
(* the three goroutines of Exporter.Run (exporter/run.go) that feed it and *)
(* drain it, under crashes and restarts of the service and failing saves.  *)
(*                                                                         *)
(*   intake    receives requests from the backend and hands them to Run    *)
(*   Run       replays the saved entries, then saves and forwards new ones *)
(*   worker    takes entries from the channel, exports them, signals Done  *)
(*   waiters   one goroutine per forwarded entry: on Done, dataDone(id)    *)
(***************************************************************************)
EXTENDS Naturals, Sequences

CONSTANTS
    Requests,      \* the export requests the backend may send
    Capacity,      \* of the forwardRequests channel (10000 in the code)
    MaxBoots,      \* bound: a process started as often is not killed again
    MaxSaveErrors, \* bound: failing saves that the model explores
    NoEntry,       \* a goroutine holds no entry
    NoRequest      \* the intake goroutine holds no request

Entry == [id : Nat, req : Requests]

ASSUME CapacityAssumption == Capacity \in Nat \ {0}
ASSUME BoundsAssumption == MaxBoots \in Nat /\ MaxSaveErrors \in Nat
ASSUME NoEntryAssumption == NoEntry \notin Entry
ASSUME NoRequestAssumption == NoRequest \notin Requests

VARIABLES
    file,       \* export_queue.json: id -> request
    up,         \* the service process runs
    pending,    \* Queue.pending: id -> request
    idgen,      \* Queue.idgen
    replaying,  \* Run is in its first loop and holds Queue.mu
    toReplay,   \* ids this loop has not forwarded yet
    sending,    \* the entry Run saved and is about to forward
    forward,    \* the forwardRequests channel
    waiters,    \* ids whose goroutine waits for Done
    finishing,  \* ids whose goroutine got Done and has to call dataDone
    working,    \* the entry the worker took from the channel
    handing,    \* the worker exported it and is about to signal Done
    intake,     \* the request the intake goroutine wants to pass to Run
    \* counters of the bounds, and history that only the properties read
    boots,      \* how often the process was started
    saveErrors, \* how many saves failed
    bootMax,    \* idgen when the process started
    delivered,  \* requests the backend delivered
    accepted,   \* requests whose save succeeded
    exports     \* how often each request was exported

disk == <<file>>
queue == <<pending, idgen, replaying, toReplay, sending>>
goroutines == <<forward, waiters, finishing, working, handing>>
history == <<boots, saveErrors, bootMax, delivered, accepted, exports>>
vars == <<file, up, queue, goroutines, intake, history>>

EmptyMap == [id \in {} |-> NoRequest]

\* The entry of a map under an id.
EntryOf(map, id) == [id |-> id, req |-> map[id]]

\* A Go map with one more entry, and with an entry deleted.
With(map, id, r) ==
    [i \in DOMAIN map \cup {id} |-> IF i = id THEN r ELSE map[i]]

Without(map, id) == [i \in DOMAIN map \ {id} |-> map[i]]

\* A bug to catch: readData does not restore idgen.
MaxIdOf_NotRestored(map) == 0

MaxIdOf(map) ==
    IF DOMAIN map = {} THEN 0
    ELSE CHOOSE m \in DOMAIN map : \A i \in DOMAIN map : i <= m

\* The requests a map holds.
RequestsIn(map) == {map[i] : i \in DOMAIN map}

Exported == {r \in Requests : exports[r] > 0}

-----------------------------------------------------------------------------
(* The process: everything but the file is gone when it dies.              *)

NoMemory ==
    /\ pending = EmptyMap /\ idgen = 0
    /\ replaying = FALSE /\ toReplay = {} /\ sending = NoEntry
    /\ forward = <<>> /\ waiters = {} /\ finishing = {}
    /\ working = NoEntry /\ handing = FALSE
    /\ intake = NoRequest

Init ==
    /\ file = EmptyMap
    /\ up = FALSE
    /\ NoMemory
    /\ boots = 0 /\ saveErrors = 0 /\ bootMax = 0
    /\ delivered = {} /\ accepted = {}
    /\ exports = [r \in Requests |-> 0]

Die ==
    /\ up' = FALSE
    /\ pending' = EmptyMap /\ idgen' = 0
    /\ replaying' = FALSE /\ toReplay' = {} /\ sending' = NoEntry
    /\ forward' = <<>> /\ waiters' = {} /\ finishing' = {}
    /\ working' = NoEntry /\ handing' = FALSE
    /\ intake' = NoRequest

\* The service is killed, panics or is restarted for an update: at any point.
Crash ==
    /\ up
    /\ boots < MaxBoots
    /\ Die
    /\ UNCHANGED <<file, boots, saveErrors, bootMax, delivered, accepted, exports>>

\* New, with readData, then Run up to its first loop.
Start ==
    /\ ~up
    /\ up' = TRUE
    /\ pending' = file
    /\ idgen' = MaxIdOf(file)
    /\ bootMax' = MaxIdOf(file)
    /\ replaying' = TRUE
    /\ toReplay' = DOMAIN file
    /\ boots' = boots + 1
    /\ UNCHANGED <<file, sending, goroutines, intake,
                   saveErrors, delivered, accepted, exports>>

-----------------------------------------------------------------------------
(* The intake goroutine (the last loop of Exporter.Run).                   *)

\* A request that is in time and can be marshalled waits for Run.
Intake(r) ==
    /\ up
    /\ intake = NoRequest
    /\ r \notin delivered
    /\ delivered' = delivered \cup {r}
    /\ intake' = r
    /\ UNCHANGED <<file, up, queue, goroutines,
                   boots, saveErrors, bootMax, accepted, exports>>

\* A request older than the deadline, or one that cannot be marshalled, is
\* answered with a failed event and never reaches the queue.
Refuse(r) ==
    /\ up
    /\ intake = NoRequest
    /\ r \notin delivered
    /\ delivered' = delivered \cup {r}
    /\ UNCHANGED <<file, up, queue, goroutines, intake,
                   boots, saveErrors, bootMax, accepted, exports>>

-----------------------------------------------------------------------------
(* Queue.Run                                                               *)

\* send: blocks while the channel is full, then starts the waiter.
Forward(e) ==
    /\ Len(forward) < Capacity
    /\ forward' = Append(forward, e)
    /\ waiters' = waiters \cup {e.id}

\* A bug to catch: an entry is forwarded once more by the replay.
Replay_Twice(id) ==
    /\ replaying
    /\ id \in toReplay
    /\ Forward(EntryOf(pending, id))
    /\ \E again \in BOOLEAN :
         toReplay' = IF again THEN toReplay ELSE toReplay \ {id}
    /\ UNCHANGED <<file, up, pending, idgen, replaying, sending,
                   finishing, working, handing, intake, history>>

\* The map is ranged over in any order, under Queue.mu.
Replay(id) ==
    /\ replaying
    /\ id \in toReplay
    /\ Forward(EntryOf(pending, id))
    /\ toReplay' = toReplay \ {id}
    /\ UNCHANGED <<file, up, pending, idgen, replaying, sending,
                   finishing, working, handing, intake, history>>

\* A bug to catch: the replay loop is left with entries not yet forwarded.
ReplayDone_Early ==
    /\ replaying
    /\ replaying' = FALSE
    /\ UNCHANGED <<file, up, pending, idgen, toReplay, sending,
                   goroutines, intake, history>>

ReplayDone ==
    /\ replaying
    /\ toReplay = {}
    /\ replaying' = FALSE
    /\ UNCHANGED <<file, up, pending, idgen, toReplay, sending,
                   goroutines, intake, history>>

\* The select of Run receives from Input, addData saves the whole map.
AddData ==
    LET id == idgen + 1 IN
    /\ up /\ ~replaying /\ sending = NoEntry
    /\ intake # NoRequest
    /\ idgen' = id
    /\ pending' = With(pending, id, intake)
    /\ file' = pending'
    /\ accepted' = accepted \cup {intake}
    /\ sending' = [id |-> id, req |-> intake]
    /\ intake' = NoRequest
    /\ UNCHANGED <<up, replaying, toReplay, goroutines,
                   boots, saveErrors, bootMax, delivered, exports>>

\* The save of addData fails: Run returns the error and Exporter.Run panics.
\* The request was not accepted; the file keeps its old content.
AddDataFails ==
    /\ up /\ ~replaying /\ sending = NoEntry
    /\ intake # NoRequest
    /\ saveErrors < MaxSaveErrors
    /\ saveErrors' = saveErrors + 1
    /\ Die
    /\ UNCHANGED <<file, boots, bootMax, delivered, accepted, exports>>

\* A bug to catch: an idle worker is given the new entry past the channel.
Send_Overtaking ==
    /\ sending # NoEntry
    /\ \/ /\ Forward(sending)
          /\ UNCHANGED working
       \/ /\ working = NoEntry
          /\ working' = sending
          /\ waiters' = waiters \cup {sending.id}
          /\ UNCHANGED forward
    /\ sending' = NoEntry
    /\ UNCHANGED <<file, up, pending, idgen, replaying, toReplay,
                   finishing, handing, intake, history>>

Send ==
    /\ sending # NoEntry
    /\ Forward(sending)
    /\ sending' = NoEntry
    /\ UNCHANGED <<file, up, pending, idgen, replaying, toReplay,
                   finishing, working, handing, intake, history>>

-----------------------------------------------------------------------------
(* The worker (the first goroutine of Exporter.Run).                       *)

StartExport ==
    /\ working = NoEntry
    /\ forward # <<>>
    /\ working' = Head(forward)
    /\ forward' = Tail(forward)
    /\ UNCHANGED <<file, up, queue, waiters, finishing, handing, intake,
                   history>>

\* s.export returns: however the export ended, the request is dealt with.
FinishExport ==
    /\ working # NoEntry
    /\ ~handing
    /\ exports' = [exports EXCEPT ![working.req] = @ + 1]
    /\ handing' = TRUE
    /\ UNCHANGED <<file, up, queue, forward, waiters, finishing, working,
                   intake, boots, saveErrors, bootMax, delivered, accepted>>

\* A bug to catch: Done is signalled before the export has run.
HandDone_BeforeExport ==
    /\ working # NoEntry
    /\ working.id \in waiters
    /\ waiters' = waiters \ {working.id}
    /\ finishing' = finishing \cup {working.id}
    /\ working' = NoEntry
    /\ handing' = FALSE
    /\ UNCHANGED <<file, up, queue, forward, intake, history>>

\* req.Done <- struct{}{}: a rendezvous with the entry's waiter.
HandDone ==
    /\ working # NoEntry
    /\ handing
    /\ working.id \in waiters
    /\ waiters' = waiters \ {working.id}
    /\ finishing' = finishing \cup {working.id}
    /\ working' = NoEntry
    /\ handing' = FALSE
    /\ UNCHANGED <<file, up, queue, forward, intake, history>>

-----------------------------------------------------------------------------
(* The waiters                                                             *)

\* dataDone has to wait for Queue.mu while Run replays.
DataDone(id) ==
    /\ id \in finishing
    /\ ~replaying
    /\ finishing' = finishing \ {id}
    /\ pending' = Without(pending, id)
    /\ file' = pending'
    /\ UNCHANGED <<up, idgen, replaying, toReplay, sending,
                   forward, waiters, working, handing, intake, history>>

\* The save of dataDone fails, which is only logged: the entry is gone from
\* memory but stays in the file until some later save succeeds.
DataDoneFails(id) ==
    /\ id \in finishing
    /\ ~replaying
    /\ saveErrors < MaxSaveErrors
    /\ saveErrors' = saveErrors + 1
    /\ finishing' = finishing \ {id}
    /\ pending' = Without(pending, id)
    /\ UNCHANGED <<file, up, idgen, replaying, toReplay, sending,
                   forward, waiters, working, handing, intake,
                   boots, bootMax, delivered, accepted, exports>>

-----------------------------------------------------------------------------
\* Every request was delivered and every goroutine waits for input: the
\* service idles.  Any other state without a step is a deadlock.
Idle ==
    /\ up
    /\ delivered = Requests
    /\ ~replaying /\ sending = NoEntry /\ intake = NoRequest
    /\ forward = <<>> /\ working = NoEntry
    /\ waiters = {} /\ finishing = {}
    /\ UNCHANGED vars

RunStep == ReplayDone \/ AddData \/ Send \/ \E id \in toReplay : Replay(id)

WorkerStep == StartExport \/ FinishExport \/ HandDone

Next ==
    \/ Start
    \/ Crash
    \/ \E r \in Requests : Intake(r) \/ Refuse(r)
    \/ RunStep
    \/ AddDataFails
    \/ WorkerStep
    \/ \E id \in finishing : DataDone(id) \/ DataDoneFails(id)
    \/ Idle

Spec == Init /\ [][Next]_vars

\* The supervisor restarts the service whenever it ended, the Go scheduler
\* runs every goroutine that can take a step, and s.export returns.
Fairness ==
    /\ WF_vars(Start)
    /\ WF_vars(RunStep)
    /\ WF_vars(WorkerStep)
    /\ WF_vars(\E id \in finishing : DataDone(id))

FairSpec == Spec /\ Fairness

-----------------------------------------------------------------------------
(* Properties                                                              *)

IsQueueMap(map) ==
    /\ DOMAIN map \subseteq Nat \ {0}
    /\ map \in [DOMAIN map -> Requests]

\* Type correctness of the file, the queue and the goroutines.
TypeOK ==
    /\ IsQueueMap(file) /\ IsQueueMap(pending)
    /\ up \in BOOLEAN /\ replaying \in BOOLEAN /\ handing \in BOOLEAN
    /\ idgen \in Nat /\ bootMax \in Nat
    /\ toReplay \subseteq DOMAIN pending
    /\ ~replaying => toReplay = {}
    /\ waiters \subseteq Nat /\ finishing \subseteq Nat
    /\ sending \in Entry \cup {NoEntry}
    /\ working \in Entry \cup {NoEntry}
    /\ forward \in Seq(Entry)
    /\ intake \in Requests \cup {NoRequest}
    /\ boots \in Nat /\ saveErrors \in Nat
    /\ delivered \subseteq Requests /\ accepted \subseteq Requests
    /\ exports \in [Requests -> Nat]

\* An accepted request is in the file until it was exported, whatever crashes
\* and failing saves came between (queue.go addData, dataDone, readData).
NothingLost ==
    \A r \in accepted : exports[r] > 0 \/ r \in RequestsIn(file)

ForwardIds == {forward[i].id : i \in DOMAIN forward}
IdsIn(e) == IF e = NoEntry THEN {} ELSE {e.id}

\* Every entry of Queue.pending is on its way through the goroutines, at
\* exactly one place, and a waiter exists for every forwarded entry: none is
\* stuck until the next restart, none is removed or exported under the id of
\* another (queue.go Run and send, run.go worker).
EveryEntryTracked ==
    LET places == <<toReplay, IdsIn(sending), ForwardIds,
                    IdsIn(working), finishing>>
    IN  /\ DOMAIN pending = UNION {places[p] : p \in 1..5}
        /\ \A p, q \in 1..5 : p # q => places[p] \cap places[q] = {}
        /\ \A i, j \in DOMAIN forward :
             i # j => forward[i].id # forward[j].id
        /\ waiters = ForwardIds \cup IdsIn(working)

\* Between two starts of the process no request is exported twice, even when
\* the save after its export failed: only a restart repeats an export.
AtMostOncePerBoot ==
    \A r \in Requests : exports[r] <= boots

\* An export of a request of this boot starts only after every entry saved
\* before it was started, the replayed ones of earlier boots included: they
\* wait neither to be replayed nor in the channel (queue.go Run, run.go:12-26).
ServedInOrder ==
    [][(/\ working = NoEntry /\ working' # NoEntry
        /\ working'.id > bootMax)
       => \A id \in toReplay \cup ForwardIds \cup IdsIn(sending) :
             working'.id <= id]_vars

\* The queue implements the abstract one: the file is what is held.
Abstract == INSTANCE DurableQueue
                WITH held <- RequestsIn(file), exported <- Exported

ImplementsDurableQueue == Abstract!Spec

\* Every accepted request is exported eventually, across restarts and with a
\* channel smaller than the backlog: the replay under Queue.mu, the blocking
\* sends and the waiters never block one another for good.
AcceptedIsExported ==
    \A r \in Requests : r \in accepted ~> exports[r] > 0
=============================================================================
