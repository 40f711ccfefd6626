-------------------------- MODULE ServiceLifecycle --------------------------
(***************************************************************************)
(* The service, the supervisor that restarts it, the crash files that pass *)
(* from the one to the other, and the updates that replace the binaries of *)
(* the agent and its integrations under a running service.                 *)
(*                                                                         *)
(* The supervisor (cmdrun) runs `agent run --no-restarts' again and again, *)
(* each time with a file for what is written to stderr.  The service       *)
(* (cmdrunnorestarts) may first update itself or install its integrations, *)
(* then reports the crash files, then takes requests: exports and          *)
(* onboardings, and updates, after which it ends to be restarted.  Any     *)
(* process may end, and the machine stop, between two steps on the disk.   *)
(***************************************************************************)
EXTENDS Naturals, FiniteSets

CONSTANTS
    Versions,    \* of the agent and of its integrations
    NoVersion,
    Files,       \* names of crash files
    NoFile,
    MaxFaults,   \* bound on failing steps, crashes and stops of the machine
    MaxRequests  \* bound on requests for an update or the end of the service

Missing == "missing"   \* nothing under the name
Empty == "empty"       \* a directory without binaries
Binaries == Versions \cup {Missing, Empty}

ASSUME ServiceAssumption ==
    /\ NoVersion \notin Versions /\ NoFile \notin Files
    /\ Missing \notin Versions /\ Empty \notin Versions
    /\ MaxFaults \in Nat /\ MaxRequests \in Nat

Parts == {"agent", "integrations"}
Jobs == {"export", "onboarding"}

VARIABLES
    supervisor, \* "up", "down"; "ended": the service has, and nothing is done about it
    file,       \* for the output of the running service
    log,        \* of each file: "none", "empty", "output"
    meta,       \* files whose metadata are written
    exit,       \* how the service has ended: "clean", "output", "panic"
    received,   \* how often the backend has got each file
    service,    \* "none", "starting", "installing", "reporting", "ready"
    version,    \* of the running service
    self,       \* the version that the environment asks for
    bin,        \* what is under the names of the agent and the integrations' dir
    old,        \* ... and the names of the backups
    parent,     \* the directory above the integrations exists
    todo,       \* crash files still to be looked at
    reporting,  \* the one that was sent and not yet removed
    jobs,       \* exports and onboardings that run
    late,       \* those that began while an update was under way
    update,     \* the updater: "idle", "checked", "agent", "integrations"
    moving,     \* of the part that is replaced: "before", "copied", "moved"
    target,     \* the version that it installs
    due,        \* the service ends in ten seconds
    answer,     \* of the last request for an update
    torn,       \* an update was interrupted after it had begun to replace
    retried,    \* ... and another has removed the backup of the agent since
    faults, requests

disk == <<bin, old, parent>>
crash == <<log, meta, received>>
updater == <<update, moving, target>>
memory == <<version, todo, reporting, jobs, late, updater, due>>
vars == <<supervisor, file, exit, service, self, disk, crash, memory, answer, torn,
          retried, faults, requests>>

TypeOK ==
    /\ supervisor \in {"up", "down", "ended"}
    /\ file \in Files \cup {NoFile}
    /\ log \in [Files -> {"none", "empty", "output"}]
    /\ meta \subseteq Files
    /\ exit \in {"clean", "output", "panic"}
    /\ received \in [Files -> 0 .. MaxFaults + 1]
    /\ service \in {"none", "starting", "installing", "reporting", "ready"}
    /\ version \in Versions \cup {NoVersion} /\ self \in Versions \cup {NoVersion}
    /\ bin \in [Parts -> Binaries] /\ old \in [Parts -> Binaries]
    /\ parent \in BOOLEAN
    /\ todo \subseteq Files /\ reporting \in Files \cup {NoFile}
    /\ jobs \subseteq Jobs /\ late \subseteq jobs
    /\ update \in {"idle", "checked", "agent", "integrations"}
    /\ moving \in {"before", "copied", "moved"}
    /\ target \in Versions \cup {NoVersion}
    /\ {due, torn, retried} \subseteq BOOLEAN
    /\ answer \in {"none", "updated", "skipped", "refused", "failed"}
    /\ faults \in 0 .. MaxFaults /\ requests \in 0 .. MaxRequests

\* The agent was downloaded, with its integrations or without.
Init ==
    /\ supervisor = "up" /\ file = NoFile
    /\ log = [f \in Files |-> "none"] /\ meta = {}
    /\ exit = "clean" /\ received = [f \in Files |-> 0]
    /\ service = "none" /\ version = NoVersion
    /\ self \in Versions \cup {NoVersion}
    /\ \E v \in Versions :
        /\ parent \in BOOLEAN
        /\ bin = [p \in Parts |-> IF p = "agent" \/ parent THEN v ELSE Missing]
    /\ old = [p \in Parts |-> Missing]
    /\ todo = {} /\ reporting = NoFile
    /\ jobs = {} /\ late = {}
    /\ update = "idle" /\ moving = "before" /\ target = NoVersion
    /\ due = FALSE /\ answer = "none" /\ torn = FALSE /\ retried = FALSE
    /\ faults = 0 /\ requests = 0

----------------------------------------------------------------------------
(* The supervisor. *)

Fault == faults < MaxFaults /\ faults' = faults + 1

\* Durations are in units of 15 seconds: an hour, and the longest of 64 bits.
MaxDelay == 240
MaxDuration == 614891469

\* The wait before the service is started again for the retry-th time.  A float that is
\* too large becomes the least integer (on amd64, for which the agent is built): it is
\* not above the limit, and a timer of a negative duration fires at once.
Delay(retry) ==
    LET res == 2 ^ (retry - 1)
    IN  CASE res > MaxDuration -> 0
          [] res > MaxDelay -> MaxDelay
          [] OTHER -> res

\* The file is created first.  The name is the time, so that it is a new one.
StartService ==
    /\ supervisor = "up" /\ service = "none"
    /\ bin["agent"] # Missing
    /\ LET free == {f \in Files : log[f] = "none" /\ f \notin meta}
           f == CHOOSE x \in free : TRUE
       IN
        /\ free # {}
        /\ file' = f
        /\ log' = [log EXCEPT ![f] = "empty"]
        /\ received' = [received EXCEPT ![f] = 0]
    /\ service' = "starting" /\ version' = bin["agent"]
    /\ UNCHANGED <<supervisor, meta, exit, self, disk, todo, reporting, jobs, late,
                   updater, due, answer, torn, retried, faults, requests>>

\* What is left of a process that has ended, or of all when the machine stops.
Forget ==
    /\ service' = "none" /\ version' = NoVersion
    /\ todo' = {} /\ reporting' = NoFile
    /\ jobs' = {} /\ late' = {}
    /\ update' = "idle" /\ moving' = "before" /\ target' = NoVersion
    /\ due' = FALSE

\* An update that is given up after it has begun to replace the binaries.
Tears == update = "integrations" \/ (update = "agent" /\ moving = "moved")

\* The service ends by itself: after an update, or when it is to be uninstalled.
Exits(how) ==
    /\ Forget
    /\ exit' = how
    /\ torn' = (torn \/ Tears)
    /\ supervisor' = "ended"
    /\ log' = [log EXCEPT ![file] = IF how = "clean" THEN "empty" ELSE "output"]

\* It ends with a message on stderr; a panic of Go has an exit status of its own.
Crash ==
    /\ service # "none"
    /\ Fault
    /\ Exits("output") \/ Exits("panic")
    /\ UNCHANGED <<file, meta, received, self, disk, answer, retried, requests>>

Restart ==
    /\ due
    /\ Exits("clean")
    /\ UNCHANGED <<file, meta, received, self, disk, answer, retried, faults, requests>>

\* An uninstall request ends the service; the supervisor starts it again.
Uninstall ==
    /\ service = "ready"
    /\ requests < MaxRequests /\ requests' = requests + 1
    /\ Exits("clean")
    /\ UNCHANGED <<file, meta, received, self, disk, answer, retried, faults>>

\* A bug to catch: a service that ended without an error is not started again.
ServiceEnded_StopsAtSuccess ==
    /\ supervisor = "ended" /\ exit # "clean"
    /\ IF exit = "panic" THEN UNCHANGED <<log, meta>>
       ELSE meta' = meta \cup {file} /\ UNCHANGED log
    /\ supervisor' = "up" /\ file' = NoFile
    /\ UNCHANGED <<exit, received, service, self, disk, memory, answer, torn, retried,
                   faults, requests>>

\* An empty file is removed; one with output gets its metadata, which make it a crash
\* file.  After exit status 2 neither is done.
ServiceEnded ==
    /\ supervisor = "ended"
    /\ IF exit = "panic" THEN UNCHANGED <<log, meta>>
       ELSE IF log[file] = "empty"
       THEN log' = [log EXCEPT ![file] = "none"] /\ UNCHANGED meta
       ELSE meta' = meta \cup {file} /\ UNCHANGED log
    /\ supervisor' = "up" /\ file' = NoFile
    /\ UNCHANGED <<exit, received, service, self, disk, memory, answer, torn, retried,
                   faults, requests>>

MachineStops ==
    /\ supervisor # "down"
    /\ Fault
    /\ Forget
    /\ torn' = (torn \/ Tears)
    /\ supervisor' = "down" /\ file' = NoFile
    /\ UNCHANGED <<exit, log, meta, received, self, disk, answer, retried, requests>>

MachineStarts ==
    /\ supervisor = "down"
    /\ bin["agent"] # Missing
    /\ supervisor' = "up"
    /\ UNCHANGED <<file, exit, service, self, disk, crash, memory, answer, torn,
                   retried, faults, requests>>

----------------------------------------------------------------------------
(* The start of the service. *)

\* With a version in the environment the service updates itself and ends; otherwise
\* it installs the integrations if the directory above them does not exist.
Boot ==
    /\ service = "starting" /\ update = "idle" /\ ~ due
    /\ IF self \notin {NoVersion, version}
       THEN update' = "checked" /\ target' = self /\ UNCHANGED <<service, todo>>
       ELSE IF self = NoVersion /\ ~ parent
       THEN service' = "installing" /\ update' = "checked" /\ target' = version
            /\ UNCHANGED todo
       ELSE service' = "reporting" /\ todo' = {f \in Files : log[f] # "none"}
            /\ UNCHANGED <<update, target>>
    /\ moving' = "before"
    /\ UNCHANGED <<supervisor, file, exit, self, disk, crash, version, reporting, jobs,
                   late, due, answer, torn, retried, faults, requests>>

\* A bug to catch: a file is removed although it could not be sent.
Report_RemovesUnsent ==
    /\ service = "reporting" /\ reporting = NoFile
    /\ \E f \in todo :
        /\ todo' = todo \ {f}
        /\ \/ f \notin meta /\ UNCHANGED <<log, received, reporting, faults>>
           \/ f \in meta /\ Fault /\ log' = [log EXCEPT ![f] = "none"]
              /\ UNCHANGED <<received, reporting>>
           \/ /\ f \in meta
              /\ received' = [received EXCEPT ![f] = @ + 1]
              /\ reporting' = f
              /\ UNCHANGED <<log, faults>>
    /\ UNCHANGED <<supervisor, file, exit, service, self, disk, meta, version, jobs,
                   late, updater, due, answer, torn, retried, requests>>

\* The next file: without metadata it is not looked at; one that cannot be sent stays
\* for the next start.
Report ==
    /\ service = "reporting" /\ reporting = NoFile
    /\ \E f \in todo :
        /\ todo' = todo \ {f}
        /\ \/ f \notin meta /\ UNCHANGED <<received, reporting, faults>>
           \/ f \in meta /\ Fault /\ UNCHANGED <<received, reporting>>
           \/ /\ f \in meta
              /\ received' = [received EXCEPT ![f] = @ + 1]
              /\ reporting' = f
              /\ UNCHANGED faults
    /\ UNCHANGED <<supervisor, file, exit, service, self, disk, log, meta, version, jobs,
                   late, updater, due, answer, torn, retried, requests>>

\* The file that was sent is removed, then its metadata.
RemoveReported ==
    /\ reporting # NoFile
    /\ \/ /\ log[reporting] # "none"
          /\ log' = [log EXCEPT ![reporting] = "none"]
          /\ UNCHANGED <<meta, reporting>>
       \/ /\ log[reporting] = "none"
          /\ meta' = meta \ {reporting} /\ reporting' = NoFile
          /\ UNCHANGED log
    /\ UNCHANGED <<supervisor, file, exit, service, self, disk, received, version, todo,
                   jobs, late, updater, due, answer, torn, retried, faults, requests>>

\* The events of the start are sent, the exporter and the handlers begin.
Ready ==
    /\ service = "reporting" /\ todo = {} /\ reporting = NoFile
    /\ service' = "ready"
    /\ UNCHANGED <<supervisor, file, exit, self, disk, crash, memory, answer, torn,
                   retried, faults, requests>>

----------------------------------------------------------------------------
(* Requests. *)

StartJob(j) ==
    /\ service = "ready" /\ j \notin jobs
    /\ jobs' = jobs \cup {j}
    /\ late' = IF update = "idle" THEN late ELSE late \cup {j}
    /\ UNCHANGED <<supervisor, file, exit, service, self, disk, crash, version, todo,
                   reporting, updater, due, answer, torn, retried, faults, requests>>

EndJob(j) ==
    /\ j \in jobs
    /\ jobs' = jobs \ {j}
    /\ late' = late \ {j}
    /\ UNCHANGED <<supervisor, file, exit, service, self, disk, crash, version, todo,
                   reporting, updater, due, answer, torn, retried, faults, requests>>

\* A bug to catch: the exports and onboardings that run are not looked at.
RequestUpdate_Busy(v) ==
    /\ service = "ready" /\ update = "idle"
    /\ requests < MaxRequests /\ requests' = requests + 1
    /\ IF v = version THEN answer' = "skipped" /\ UNCHANGED updater
       ELSE /\ update' = "checked" /\ target' = v /\ moving' = "before"
            /\ answer' = "none"
    /\ UNCHANGED <<supervisor, file, exit, service, self, disk, crash, version, todo,
                   reporting, jobs, late, due, torn, retried, faults>>

\* A request for an update: nothing is done at the running version, or while there is
\* an export or an onboarding.
RequestUpdate(v) ==
    /\ service = "ready" /\ update = "idle"
    /\ requests < MaxRequests /\ requests' = requests + 1
    /\ IF v = version THEN answer' = "skipped" /\ UNCHANGED updater
       ELSE IF jobs # {} THEN answer' = "refused" /\ UNCHANGED updater
       ELSE /\ update' = "checked" /\ target' = v /\ moving' = "before"
            /\ answer' = "none"
    /\ UNCHANGED <<supervisor, file, exit, service, self, disk, crash, version, todo,
                   reporting, jobs, late, due, torn, retried, faults>>

----------------------------------------------------------------------------
(* The updater. *)

UpdaterStays ==
    UNCHANGED <<supervisor, file, exit, service, self, crash, version, todo, reporting,
                jobs, late, due>>

\* Both are downloaded to a temporary directory.  Only the integrations are installed
\* at a start without them.
Download ==
    /\ update = "checked"
    /\ update' = IF service = "installing" THEN "integrations" ELSE "agent"
    /\ moving' = "before"
    /\ UpdaterStays
    /\ UNCHANGED <<target, disk, answer, torn, retried, faults, requests>>

\* The old backup is removed, and what was downloaded is copied next to the name.  A
\* directory of integrations that does not exist is created.
Copy(p) ==
    /\ update = p /\ moving = "before"
    /\ old' = [old EXCEPT ![p] = Missing]
    /\ retried' = (retried \/ (p = "agent" /\ bin["agent"] = Missing))
    /\ IF p = "integrations"
       THEN /\ parent' = TRUE
            /\ bin' = [bin EXCEPT ![p] = IF @ = Missing THEN Empty ELSE @]
       ELSE UNCHANGED <<parent, bin>>
    /\ moving' = "copied"
    /\ UpdaterStays
    /\ UNCHANGED <<update, target, answer, torn, faults, requests>>

\* The backup: what is under the name is renamed.
MoveAway(p) ==
    /\ update = p /\ moving = "copied"
    /\ bin[p] # Missing
    /\ old' = [old EXCEPT ![p] = bin[p]]
    /\ bin' = [bin EXCEPT ![p] = Missing]
    /\ moving' = "moved"
    /\ UpdaterStays
    /\ UNCHANGED <<parent, update, target, answer, torn, retried, faults, requests>>

\* A bug to catch: the service goes on after an update.
MoveIn_Stays(p) ==
    /\ update = p /\ moving = "moved"
    /\ bin' = [bin EXCEPT ![p] = target]
    /\ moving' = "before"
    /\ IF p = "agent"
       THEN /\ update' = "integrations"
            /\ UNCHANGED <<target, torn, answer, service, todo>>
       ELSE /\ update' = "idle" /\ target' = NoVersion
            /\ torn' = FALSE
            /\ answer' = IF service = "ready" THEN "updated" ELSE answer
            /\ IF service # "ready"
               THEN service' = "reporting" /\ todo' = {f \in Files : log[f] # "none"}
               ELSE UNCHANGED <<service, todo>>
    /\ UNCHANGED <<supervisor, file, exit, self, crash, version, reporting, jobs, late,
                   old, parent, due, retried, faults, requests>>

\* The new one gets the name.  After the integrations the update is done, the request
\* is answered, and the service ends.
MoveIn(p) ==
    /\ update = p /\ moving = "moved"
    /\ bin' = [bin EXCEPT ![p] = target]
    /\ moving' = "before"
    /\ IF p = "agent"
       THEN /\ update' = "integrations"
            /\ UNCHANGED <<target, torn, answer, due, service, todo>>
       ELSE /\ update' = "idle" /\ target' = NoVersion
            /\ torn' = FALSE
            /\ answer' = IF service = "ready" THEN "updated" ELSE answer
            /\ due' = (service # "installing")
            /\ IF service = "installing"
               THEN service' = "reporting" /\ todo' = {f \in Files : log[f] # "none"}
               ELSE UNCHANGED <<service, todo>>
    /\ UNCHANGED <<supervisor, file, exit, self, crash, version, reporting, jobs, late,
                   old, parent, retried, faults, requests>>

\* An error is the answer to the request; without one the service ends.  What was
\* moved away is not moved back: the code that would is never reached.
GiveUp ==
    /\ IF service = "ready"
       THEN /\ update' = "idle" /\ moving' = "before" /\ target' = NoVersion
            /\ answer' = "failed"
            /\ torn' = (torn \/ Tears)
            /\ UNCHANGED <<supervisor, exit, service, log, version, todo,
                           reporting, jobs, late, due>>
       ELSE Exits("output") /\ UNCHANGED answer
    /\ UNCHANGED <<file, self, meta, received, disk, retried, requests>>

UpdateFails == update # "idle" /\ Fault /\ GiveUp

\* An earlier update has moved the agent away.
NothingToMove ==
    /\ update = "agent" /\ moving = "copied" /\ bin["agent"] = Missing
    /\ GiveUp
    /\ UNCHANGED faults

----------------------------------------------------------------------------
Supervise == StartService \/ ServiceEnded \/ MachineStarts
Work ==
    \/ Boot \/ Report \/ RemoveReported \/ Ready \/ Restart
    \/ Download \/ NothingToMove
    \/ \E p \in Parts : Copy(p) \/ MoveAway(p) \/ MoveIn(p)
Next ==
    \/ Supervise \/ Work \/ UpdateFails
    \/ Crash \/ MachineStops \/ Uninstall
    \/ \E v \in Versions : RequestUpdate(v)
    \/ \E j \in Jobs : StartJob(j) \/ EndJob(j)

\* The supervisor and the service go on while they can.
Spec == Init /\ [][Next]_vars /\ WF_vars(Supervise) /\ WF_vars(Work)

----------------------------------------------------------------------------
(* Properties. *)

\* A service that takes requests and is not updating has binaries of its own version,
\* the agent's for its next start and the integrations': it would run others with
\* messages that they do not know (cmdrunnorestarts/run.go:138).  The exceptions are an
\* update that was interrupted while it replaced them, the ten seconds after one, and a
\* version in the environment, with which missing integrations are not installed.
Equipped ==
    service = "ready" /\ update = "idle" /\ ~ due /\ ~ torn =>
        /\ bin["agent"] = version
        /\ bin["integrations"] = version \/ (self # NoVersion /\ ~ parent)

\* An update replaces nothing under an export or onboarding that ran when it was asked
\* for.  One that begins after the updater has looked, and before the restart, is not
\* noticed: it may find the old integrations, none, or the new (update_events.go:141).
JobsUntouched == bin' # bin => jobs \subseteq late

\* As long as no second update has removed it, the agent or its backup is there, for
\* somebody to rename it (updater.go:252).
BackupKept == bin["agent"] = Missing => old["agent"] # Missing \/ retried

\* Whatever fails or is interrupted, the service has its binaries, or their backups.
BinariesKept == TypeOK /\ Equipped /\ BackupKept

\* A crash file is removed when the backend has received it, and not before.
RemovedWhenReceived ==
    \A f \in meta : log[f] = "output" /\ log'[f] = "none" => received[f] > 0

\* An update that is answered as done has replaced both.
AnswerTrue ==
    answer # "updated" /\ answer' = "updated" => \A p \in Parts : bin'[p] = target

\* An update is seen by the jobs and told to the backend as what it is.
UpdatesKept == [][JobsUntouched /\ AnswerTrue]_vars

\* A crash file with metadata that is there before the service looks for them is
\* received, once nothing fails any more, and also when the service first replaces its
\* binaries and is restarted (crashes.go:39).  Those of panics have no metadata.
CrashesReported ==
    \A f \in Files :
        (/\ log[f] = "output" /\ f \in meta /\ faults = MaxFaults
         /\ service \in {"none", "starting", "installing"} \/ due)
        ~> (received[f] > 0 \/ bin["agent"] = Missing)

\* A crash is kept until the backend has received it, and received in the end.
CrashesDelivered == [][RemovedWhenReceived]_vars /\ CrashesReported

\* The first wait is 15 seconds, each is twice the one before it or an hour, and none is
\* missing: a service that cannot run is not started in a busy loop (service.go:68).  It
\* holds for thirty restarts, 23 hours; from the next on there is no wait at all.
WaitsLonger ==
    /\ Delay(1) = 1
    /\ \A retry \in 1 .. 29 :
        \/ Delay(retry + 1) = 2 * Delay(retry)
        \/ /\ Delay(retry + 1) = MaxDelay
           /\ Delay(retry) \in MaxDelay \div 2 .. MaxDelay

\* The service comes back after whatever has ended it, unless there is no agent to run.
ComesBack == []<>(service = "ready" \/ bin["agent"] = Missing)
=============================================================================
