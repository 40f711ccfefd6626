---------------------------- MODULE ProjectPool -----------------------------
(***************************************************************************)
(* How an integration exports its repos or projects: the worker pool       *)
(* (integrations/pkg/repoprojects), the sessions the workers send through  *)
(* (integrations/pkg/objsender) and the manager in the export process that *)
(* writes their files and checkpoints (pkg/expsessions).                   *)
(*                                                                         *)
(* The manager locks every call, and a session is used by one worker, so a *)
(* call of an integration is one step.  The workers share the channel of   *)
(* projects, the fatal error and the count of failures.  A panic of the    *)
(* export process ends all of this: that is a kill in IncrementalExport.   *)
(***************************************************************************)
EXTENDS Naturals, Sequences, FiniteSets

CONSTANTS
    Projects,         \* ProcessOpts.Projects
    Workers,          \* as many as ProcessOpts.Concurrency
    Models,           \* the models exported for a project
    Inner,            \* those of them whose sessions ProjectFn has to end
    Objects,          \* how many objects of each model a project has
    MaxBatch,         \* objects per SendExported call (10 in the code)
    ReturnEarlyAfter, \* returnEarlyAfterNFailedProjects (10 in the code)
    MaxFaults,        \* bound: failing calls to the manager
    NoProject         \* a worker has no project

ASSUME FiniteAssumption == IsFiniteSet(Projects) /\ IsFiniteSet(Workers)
ASSUME InnerAssumption == Inner \subseteq Models
ASSUME NumbersAssumption ==
    /\ Objects \in [Models -> Nat]
    /\ MaxBatch \in Nat \ {0}
    /\ ReturnEarlyAfter \in Nat
    /\ MaxFaults \in Nat
ASSUME NoProjectAssumption == NoProject \notin Projects

VARIABLES
    todo,        \* projects still to come out of the channel
    pc,          \* what each worker does
    job,         \* the project each worker has
    failing,     \* the worker's projectErr is not nil
    senders,     \* ProjectCtx.senders of each worker, not yet done
    inner,       \* senders that its ProjectFn opened without the ProjectCtx
    fatal,       \* fatalErr is not nil
    failedCount, \* projects that failed
    allRes,      \* the results: project and whether it failed
    lastID,      \* Manager.lastID
    sessions,    \* Manager.sessions with the objects of their temp files
    uploads,     \* the finished files in the uploads dir
    leftTemps,   \* temp files whose session is gone
    checkpoints, \* keys whose last processed value was set
    faults       \* counter of the bound

pool == <<todo, pc, job, failing, senders, inner, fatal, failedCount, allRes>>
manager == <<lastID, sessions, uploads, leftTemps, checkpoints>>
vars == <<pool, manager, faults>>

Key == Projects \X Models
Session == [key : Key, file : Seq(Nat)]
Sender == [id : Nat, sent : Nat, batch : Seq(Nat)]
Upload == [id : Nat, key : Key, objs : Seq(Nat)]

\* A project's objects of a model, in the order they are sent.
AllObjects(m) == [i \in 1..Objects[m] |-> i]

NoSessions == [id \in {} |-> 0]

Init ==
    /\ todo = Projects
    /\ pc = [w \in Workers |-> "idle"]
    /\ job = [w \in Workers |-> NoProject]
    /\ failing = [w \in Workers |-> FALSE]
    /\ senders = [w \in Workers |-> <<>>]
    /\ inner = [w \in Workers |-> {}]
    /\ fatal = FALSE /\ failedCount = 0 /\ allRes = {}
    /\ lastID = 0 /\ sessions = NoSessions
    /\ uploads = {} /\ leftTemps = {} /\ checkpoints = {}
    /\ faults = 0

Goto(w, place) == pc' = [pc EXCEPT ![w] = place]

Free(w) ==
    /\ job' = [job EXCEPT ![w] = NoProject]
    /\ failing' = [failing EXCEPT ![w] = FALSE]

\* rerr(err); return
Fatal(w) ==
    /\ fatal' = TRUE
    /\ Goto(w, "gone")

-----------------------------------------------------------------------------
(* The worker takes a project and decides whether to go on.                *)

\* The channel has the projects in the order of the list, which is arbitrary.
NextProject == CHOOSE p \in todo : TRUE

Take(w) ==
    /\ pc[w] = "idle"
    /\ todo # {}
    /\ todo' = todo \ {NextProject}
    /\ job' = [job EXCEPT ![w] = NextProject]
    /\ Goto(w, "checking")
    /\ UNCHANGED <<failing, senders, inner, fatal, failedCount, allRes, manager, faults>>

\* The channel is closed and empty.
NoMore(w) ==
    /\ pc[w] = "idle"
    /\ todo = {}
    /\ Goto(w, "gone")
    /\ UNCHANGED <<todo, job, failing, senders, inner, fatal, failedCount, allRes,
                   manager, faults>>

\* A bug to catch: the pool stops one failure too early.
MustStop_Early == fatal \/ failedCount >= ReturnEarlyAfter

MustStop == fatal \/ failedCount > ReturnEarlyAfter

StartProject(w) ==
    /\ pc[w] = "checking"
    /\ ~MustStop
    /\ Goto(w, "running")
    /\ UNCHANGED <<todo, job, failing, senders, inner, fatal, failedCount, allRes,
                   manager, faults>>

\* A bug to catch: a worker that must stop gives its project back and goes on.
StopEarly_GivesBack(w) ==
    /\ pc[w] = "checking"
    /\ MustStop
    /\ todo' = todo \cup {job[w]}
    /\ Goto(w, "idle")
    /\ Free(w)
    /\ UNCHANGED <<senders, inner, fatal, failedCount, allRes, manager, faults>>

\* The project that was taken is dropped.
StopEarly(w) ==
    /\ pc[w] = "checking"
    /\ MustStop
    /\ Goto(w, "gone")
    /\ UNCHANGED <<todo, job, failing, senders, inner, fatal, failedCount, allRes,
                   manager, faults>>

-----------------------------------------------------------------------------
(* ProjectFn.  It opens the project's sessions through its ProjectCtx, and *)
(* others itself, under an object of the project (the comments of an       *)
(* issue), which it also has to end.  It may fail at any point.            *)

WithSession(id, s) ==
    [i \in DOMAIN sessions \cup {id} |-> IF i = id THEN s ELSE sessions[i]]

WithoutSession(id) == [i \in DOMAIN sessions \ {id} |-> sessions[i]]

KeyOf(s) == sessions[s.id].key

\* Keys of the sessions that the worker's project has open.
OpenKeys(w) ==
    {KeyOf(senders[w][i]) : i \in DOMAIN senders[w]}
      \cup {KeyOf(s) : s \in inner[w]}

NewSender == [id |-> lastID + 1, sent |-> 0, batch |-> <<>>]

\* Manager.SessionFlex
StartSession(key) ==
    /\ lastID' = lastID + 1
    /\ sessions' = WithSession(lastID', [key |-> key, file |-> <<>>])
    /\ UNCHANGED <<uploads, leftTemps, checkpoints>>

OpenSession(w, m) ==
    /\ pc[w] = "running"
    /\ m \notin Inner
    /\ <<job[w], m>> \notin OpenKeys(w)
    /\ StartSession(<<job[w], m>>)
    /\ senders' = [senders EXCEPT ![w] = Append(@, NewSender)]
    /\ UNCHANGED <<todo, pc, job, failing, inner, fatal, failedCount, allRes,
                   faults>>

OpenInner(w, m) ==
    /\ pc[w] = "running"
    /\ m \in Inner
    /\ <<job[w], m>> \notin OpenKeys(w) \cup checkpoints
    /\ StartSession(<<job[w], m>>)
    /\ inner' = [inner EXCEPT ![w] = @ \cup {NewSender}]
    /\ UNCHANGED <<todo, pc, job, failing, senders, fatal, failedCount, allRes,
                   faults>>

\* How many objects go through a sender.
ObjectsOf(s) == Objects[KeyOf(s)[2]]

Full(s) == Len(s.batch) + 1 >= MaxBatch

\* A sender after one more object: a full batch goes to the manager at once.
AfterSend(s) ==
    [s EXCEPT !.sent = @ + 1,
              !.batch = IF Full(s) THEN <<>> ELSE Append(@, s.sent + 1)]

\* batch.Send, Manager.Write
WriteIfFull(s) ==
    /\ s.sent < ObjectsOf(s)
    /\ sessions' =
         IF Full(s)
         THEN [sessions EXCEPT ![s.id].file = @ \o Append(s.batch, s.sent + 1)]
         ELSE sessions
    /\ UNCHANGED <<lastID, uploads, leftTemps, checkpoints>>

Send(w, i) ==
    /\ pc[w] = "running"
    /\ WriteIfFull(senders[w][i])
    /\ senders' = [senders EXCEPT ![w][i] = AfterSend(@)]
    /\ UNCHANGED <<todo, pc, job, failing, inner, fatal, failedCount, allRes,
                   faults>>

SendInner(w, s) ==
    /\ pc[w] = "running"
    /\ WriteIfFull(s)
    /\ inner' = [inner EXCEPT ![w] = (@ \ {s}) \cup {AfterSend(s)}]
    /\ UNCHANGED <<todo, pc, job, failing, senders, fatal, failedCount, allRes,
                   faults>>

\* A bug to catch: Done does not flush the rest of the batch.
EndSession_Unflushed(s) ==
    LET file == sessions[s.id].file
    IN  /\ uploads' = uploads \cup
                        (IF file = <<>> THEN {}
                         ELSE {[id |-> s.id, key |-> KeyOf(s), objs |-> file]})
        /\ checkpoints' = checkpoints \cup {KeyOf(s)}
        /\ sessions' = WithoutSession(s.id)
        /\ UNCHANGED <<lastID, leftTemps>>

\* Session.Done, Manager.Done: the rest of the batch is written, the file is
\* closed and renamed, unless nothing was written, and the checkpoint is set.
EndSession(s) ==
    LET file == sessions[s.id].file \o s.batch
    IN  /\ uploads' = uploads \cup
                        (IF file = <<>> THEN {}
                         ELSE {[id |-> s.id, key |-> KeyOf(s), objs |-> file]})
        /\ checkpoints' = checkpoints \cup {KeyOf(s)}
        /\ sessions' = WithoutSession(s.id)
        /\ UNCHANGED <<lastID, leftTemps>>

EndInner(w, s) ==
    /\ pc[w] = "running"
    /\ s.sent = ObjectsOf(s)
    /\ EndSession(s)
    /\ inner' = [inner EXCEPT ![w] = @ \ {s}]
    /\ UNCHANGED <<todo, pc, job, failing, senders, fatal, failedCount, allRes,
                   faults>>

\* Everything was sent and the sessions of its own were ended.
Succeeds(w) ==
    /\ pc[w] = "running"
    /\ \A m \in Models \ Inner : <<job[w], m>> \in OpenKeys(w)
    /\ \A m \in Inner : <<job[w], m>> \in checkpoints
    /\ \A i \in DOMAIN senders[w] :
           senders[w][i].sent = ObjectsOf(senders[w][i])
    /\ Goto(w, "progress")
    /\ UNCHANGED <<todo, job, failing, senders, inner, fatal, failedCount,
                   allRes, manager, faults>>

\* The sessions of its own stay open: nothing else knows them.
Fails(w) ==
    /\ pc[w] = "running"
    /\ failing' = [failing EXCEPT ![w] = TRUE]
    /\ inner' = [inner EXCEPT ![w] = {}]
    /\ Goto(w, "progress")
    /\ UNCHANGED <<todo, job, senders, inner, fatal, failedCount, allRes,
                   manager, faults>>

-----------------------------------------------------------------------------
(* The end of a project: progress, result, then Done or Rollback of every  *)
(* session of the project, one after the other.                            *)

IncProgress(w) ==
    /\ pc[w] = "progress"
    /\ Goto(w, "reporting")
    /\ UNCHANGED <<todo, job, failing, senders, inner, fatal, failedCount, allRes,
                   manager, faults>>

\* The sessions of the project stay open.
IncProgressFails(w) ==
    /\ pc[w] = "progress"
    /\ faults < MaxFaults
    /\ faults' = faults + 1
    /\ Fatal(w)
    /\ UNCHANGED <<todo, job, failing, senders, inner, failedCount, allRes, manager>>

Report(w) ==
    /\ pc[w] = "reporting"
    /\ allRes' = allRes \cup {[project |-> job[w], failed |-> failing[w]]}
    /\ failedCount' = IF failing[w] THEN failedCount + 1 ELSE failedCount
    /\ Goto(w, "ending")
    /\ UNCHANGED <<todo, job, failing, senders, inner, fatal, manager, faults>>

Ending(w) == pc[w] = "ending" /\ senders[w] # <<>>

Done(w) ==
    /\ Ending(w) /\ ~failing[w]
    /\ EndSession(Head(senders[w]))
    /\ senders' = [senders EXCEPT ![w] = Tail(@)]
    /\ UNCHANGED <<todo, pc, job, failing, inner, fatal, failedCount, allRes,
                   faults>>

\* A bug to catch: sessions of a project that failed are done all the same.
Rollback_Done(w) ==
    /\ Ending(w) /\ failing[w]
    /\ EndSession([Head(senders[w]) EXCEPT !.batch = <<>>])
    /\ senders' = [senders EXCEPT ![w] = Tail(@)]
    /\ UNCHANGED <<todo, pc, job, failing, inner, fatal, failedCount, allRes,
                   faults>>

\* Manager.Rollback: the temp file is removed, what is batched is forgotten.
Rollback(w) ==
    /\ Ending(w) /\ failing[w]
    /\ sessions' = WithoutSession(Head(senders[w]).id)
    /\ senders' = [senders EXCEPT ![w] = Tail(@)]
    /\ UNCHANGED <<todo, pc, job, failing, inner, fatal, failedCount, allRes,
                   lastID, uploads, leftTemps, checkpoints, faults>>

\* The temp file of the session cannot be closed or removed.
RollbackFails(w) ==
    LET s == Head(senders[w])
    IN  /\ Ending(w) /\ failing[w]
        /\ sessions[s.id].file # <<>>
        /\ faults < MaxFaults
        /\ faults' = faults + 1
        /\ sessions' = WithoutSession(s.id)
        /\ leftTemps' = leftTemps \cup {s.id}
        /\ senders' = [senders EXCEPT ![w] = Tail(@)]
        /\ Fatal(w)
        /\ UNCHANGED <<todo, job, failing, inner, failedCount, allRes,
                       lastID, uploads, checkpoints>>

Completed(w) ==
    /\ pc[w] = "ending" /\ senders[w] = <<>> /\ ~failing[w]
    /\ Goto(w, "idle")
    /\ Free(w)
    /\ UNCHANGED <<todo, senders, inner, fatal, failedCount, allRes, manager, faults>>

\* A worker whose project failed returns: it takes no other project.
RolledBack(w) ==
    /\ pc[w] = "ending" /\ senders[w] = <<>> /\ failing[w]
    /\ Goto(w, "gone")
    /\ Free(w)
    /\ UNCHANGED <<todo, senders, inner, fatal, failedCount, allRes, manager, faults>>

-----------------------------------------------------------------------------
\* wg.Wait() is over: Run returns fatalErr, or allRes without an error.
Returned == \A w \in Workers : pc[w] = "gone"

Idle == Returned /\ UNCHANGED vars

ProjectFnStep(w) ==
    \/ \E m \in Models : OpenSession(w, m) \/ OpenInner(w, m)
    \/ \E i \in DOMAIN senders[w] : Send(w, i)
    \/ \E s \in inner[w] : SendInner(w, s) \/ EndInner(w, s)
    \/ Succeeds(w)

WorkerStep(w) ==
    \/ Take(w) \/ NoMore(w) \/ StartProject(w) \/ StopEarly(w)
    \/ ProjectFnStep(w)
    \/ IncProgress(w) \/ Report(w) \/ Done(w) \/ Rollback(w)
    \/ Completed(w) \/ RolledBack(w)

Fault(w) == Fails(w) \/ IncProgressFails(w) \/ RollbackFails(w)

Next == Idle \/ \E w \in Workers : WorkerStep(w) \/ Fault(w)

Spec == Init /\ [][Next]_vars

\* Every goroutine that can go on does, and ProjectFn returns.
FairSpec == Spec /\ \A w \in Workers : WF_vars(WorkerStep(w))

-----------------------------------------------------------------------------
(* Properties                                                              *)

Places == {"idle", "checking", "running", "progress", "reporting", "ending",
           "gone"}

\* Type correctness of the pool and the manager (process.go, sessions.go); a
\* worker that takes a project holds no session of its last one.
TypeOK ==
    /\ todo \subseteq Projects
    /\ pc \in [Workers -> Places]
    /\ job \in [Workers -> Projects \cup {NoProject}]
    /\ failing \in [Workers -> BOOLEAN]
    /\ senders \in [Workers -> Seq(Sender)]
    /\ inner \in [Workers -> SUBSET Sender]
    /\ \A w \in Workers :
         /\ pc[w] \in {"idle", "checking"} => senders[w] = <<>>
         /\ pc[w] # "running" => inner[w] = {}
         /\ pc[w] \notin {"idle", "gone"} => job[w] # NoProject
    /\ fatal \in BOOLEAN
    /\ failedCount \in Nat
    /\ allRes \subseteq [project : Projects, failed : BOOLEAN]
    /\ lastID \in Nat
    /\ DOMAIN sessions \subseteq 1..lastID
    /\ \A id \in DOMAIN sessions : sessions[id] \in Session
    /\ uploads \subseteq Upload
    /\ leftTemps \subseteq Nat
    /\ checkpoints \subseteq Key
    /\ faults \in Nat

UploadsOf(key) == {u \in uploads : u.key = key}

\* The checkpoint of a project's model is set only when a file in the uploads
\* dir has every object of it, each once and in order: what the next
\* incremental export skips was exported (batch.go, Session.Done, Manager.Done).
CheckpointedIsUploaded ==
    \A key \in checkpoints :
      IF Objects[key[2]] = 0 THEN UploadsOf(key) = {}
      ELSE \E u \in uploads :
             UploadsOf(key) = {u} /\ u.objs = AllObjects(key[2])

\* When Run returns without an error its results tell the truth: of a project
\* without an error everything has its checkpoint; of a project that failed
\* or was not reached nothing was uploaded, except what ProjectFn had ended
\* itself (process.go Run, done, rollback).
ResultsTrue ==
    Returned /\ ~fatal =>
      \A key \in Key :
        IF [project |-> key[1], failed |-> FALSE] \in allRes
        THEN key \in checkpoints
        ELSE key[2] \notin Inner =>
               key \notin checkpoints /\ UploadsOf(key) = {}

\* When Run returns without an error no temp file is left that would fail the
\* whole export (export.go:227), except those of projects that failed while
\* their ProjectFn had a session of its own open: nothing rolls these back.
OnlyInnerLeft ==
    Returned /\ ~fatal =>
      /\ leftTemps = {}
      /\ \A id \in DOMAIN sessions :
           LET key == sessions[id].key
           IN  /\ key[2] \in Inner
               /\ [project |-> key[1], failed |-> TRUE] \in allRes

\* What has become of the sessions when Run returns is what its results say.
Settled == ResultsTrue /\ OnlyInnerLeft

Reported == {r.project : r \in allRes}

\* Run leaves a project out of its results only for a reason: a fatal error,
\* more failures than allowed, or a failure for each of its workers.
LeftOutForAReason ==
    Returned /\ Reported # Projects =>
      \/ fatal
      \/ failedCount > ReturnEarlyAfter
      \/ failedCount >= Cardinality(Workers)

\* Run returns: no worker waits for another (process.go wg.Wait, Run).
RunReturns == <>Returned
=============================================================================
