----------------------- MODULE ServiceLifecycleProofs -----------------------
(***************************************************************************)
(* Proofs about ServiceLifecycle, for any versions, crash files, numbers   *)
(* of faults and of requests: the service has its binaries or their        *)
(* backups, an update is what it says, and no crash file is removed before *)
(* the backend has it.                                                     *)
(***************************************************************************)
EXTENDS ServiceLifecycle, TLAPS

----------------------------------------------------------------------------
(* The invariant, in three parts.                                          *)

\* The crash files.  The running service has one of its own, which is no crash file yet;
\* one that is reported was sent; and each time that a file is sent again something has
\* gone wrong since the last time.
FilesInv ==
    /\ service # "none" =>
         supervisor = "up" /\ file \in Files /\ file \notin meta /\ log[file] = "empty"
    /\ supervisor = "ended" =>
         service = "none" /\ file \in Files /\ file \notin meta /\ log[file] # "none"
    /\ service # "reporting" => todo = {} /\ reporting = NoFile
    /\ reporting # NoFile =>
         reporting \in meta /\ reporting \notin todo /\ received[reporting] > 0
    /\ \A f \in todo : log[f] # "none"
    /\ \A f \in Files :
         /\ received[f] <= faults + 1
         /\ log[f] # "none" /\ reporting # f => received[f] <= faults

\* The updater.  It runs in three phases of the service, has a version to install, and
\* has replaced the agent before it comes to the integrations.
UpdaterInv ==
    /\ service \in {"none", "reporting"} => update = "idle" /\ ~ due
    /\ service = "installing" =>
         update \in {"checked", "integrations"} /\ target = version /\ ~ due
    /\ service # "none" => version \in Versions
    /\ update # "idle" => target \in Versions /\ jobs \subseteq late
    /\ jobs # {} => service = "ready"
    /\ bin["agent"] \in Versions \cup {Missing}
    /\ update = "integrations" => bin["agent"] = target
    /\ update = "integrations" /\ moving # "before" => parent

\* Unless an update was or would be interrupted while it replaces them, the binaries are
\* of one version, and of the running one until an update is done.
Matching ==
    /\ ~ torn /\ ~ Tears =>
         /\ bin["agent"] \in Versions
         /\ bin["integrations"] = bin["agent"] \/ ~ parent
         /\ service # "none" /\ ~ due => version = bin["agent"]
    /\ service \in {"starting", "installing"} /\ update \in {"idle", "checked"} /\ ~ due =>
         version = bin["agent"]
    /\ service \in {"reporting", "ready"} /\ ~ parent => self # NoVersion

IInv == TypeOK /\ FilesInv /\ UpdaterInv /\ Matching /\ BackupKept

----------------------------------------------------------------------------
(* Each step keeps it. *)

\* The types.  A file is sent once more than something has gone wrong, at most.  Where a
\* process ends, what is said of torn is no arithmetic, and a step of its own.
LEMMA TypeKept ==
    ASSUME IInv, [Next]_vars
    PROVE  TypeOK'
<1> USE ServiceAssumption DEF disk, crash, updater, memory, TypeOK, IInv, FilesInv, UpdaterInv, Binaries, Parts, Missing, Empty
<1>1. CASE StartService
  BY <1>1 DEF StartService
<1>2. CASE Crash
  <2>1. torn' \in BOOLEAN
    BY <1>2 DEF Crash, Exits, Forget, Fault
  <2>2. faults' \in 0 .. MaxFaults /\ requests' \in 0 .. MaxRequests
    BY <1>2 DEF Crash, Exits, Forget, Fault
  <2>3. log' \in [Files -> {"none", "empty", "output"}]
    BY <1>2 DEF Crash, Exits, Forget, Fault
  <2> QED
    BY <1>2, <2>1, <2>2, <2>3 DEF Crash, Exits, Forget, Fault
<1>3. CASE Restart
  BY <1>3 DEF Restart, Exits, Forget, Tears
<1>4. CASE Uninstall
  <2>1. torn' \in BOOLEAN
    BY <1>4 DEF Uninstall, Exits, Forget
  <2>2. faults' \in 0 .. MaxFaults /\ requests' \in 0 .. MaxRequests
    BY <1>4 DEF Uninstall, Exits, Forget
  <2>3. log' \in [Files -> {"none", "empty", "output"}]
    BY <1>4 DEF Uninstall, Exits, Forget
  <2> QED
    BY <1>4, <2>1, <2>2, <2>3 DEF Uninstall, Exits, Forget
<1>5. CASE ServiceEnded
  BY <1>5 DEF ServiceEnded
<1>6. CASE MachineStops
  <2>1. torn' \in BOOLEAN
    BY <1>6 DEF MachineStops, Forget, Fault
  <2>2. faults' \in 0 .. MaxFaults /\ requests' \in 0 .. MaxRequests
    BY <1>6 DEF MachineStops, Forget, Fault
  <2>3. log' \in [Files -> {"none", "empty", "output"}]
    BY <1>6 DEF MachineStops, Forget, Fault
  <2> QED
    BY <1>6, <2>1, <2>2, <2>3 DEF MachineStops, Forget, Fault
<1>7. CASE MachineStarts
  BY <1>7 DEF MachineStarts
<1>8. CASE Boot
  BY <1>8 DEF Boot
<1>9. CASE Report
  BY <1>9 DEF Report, Fault
<1>10. CASE RemoveReported
  BY <1>10 DEF RemoveReported
<1>11. CASE Ready
  BY <1>11 DEF Ready
<1>12. ASSUME NEW j \in Jobs, StartJob(j) PROVE TypeOK'
  BY <1>12 DEF StartJob
<1>13. ASSUME NEW j \in Jobs, EndJob(j) PROVE TypeOK'
  BY <1>13 DEF EndJob
<1>14. ASSUME NEW v \in Versions, RequestUpdate(v) PROVE TypeOK'
  BY <1>14 DEF RequestUpdate
<1>15. CASE Download
  BY <1>15 DEF Download, UpdaterStays
<1>16. ASSUME NEW p \in Parts, Copy(p) PROVE TypeOK'
  BY <1>16 DEF Copy, UpdaterStays
<1>17. ASSUME NEW p \in Parts, MoveAway(p) PROVE TypeOK'
  BY <1>17 DEF MoveAway, UpdaterStays
<1>18. ASSUME NEW p \in Parts, MoveIn(p) PROVE TypeOK'
  BY <1>18 DEF MoveIn
<1>19. CASE UpdateFails
  <2>1. torn' \in BOOLEAN
    BY <1>19 DEF UpdateFails, Fault, GiveUp, Exits, Forget
  <2>2. faults' \in 0 .. MaxFaults /\ requests' \in 0 .. MaxRequests
    BY <1>19 DEF UpdateFails, Fault, GiveUp, Exits, Forget
  <2>3. log' \in [Files -> {"none", "empty", "output"}]
    BY <1>19 DEF UpdateFails, Fault, GiveUp, Exits, Forget
  <2> QED
    BY <1>19, <2>1, <2>2, <2>3 DEF UpdateFails, Fault, GiveUp, Exits, Forget
<1>20. CASE NothingToMove
  BY <1>20 DEF NothingToMove, GiveUp, Exits, Forget, Tears
<1>21. CASE UNCHANGED vars
  BY <1>21 DEF vars
<1> QED
  BY <1>1, <1>2, <1>3, <1>4, <1>5, <1>6, <1>7, <1>8, <1>9, <1>10, <1>11, <1>12, <1>13, <1>14, <1>15, <1>16, <1>17, <1>18, <1>19, <1>20, <1>21 DEF Next, Supervise, Work

\* A file gets to the reported ones from `todo', and is named there as long as its output
\* is; all ends of the service but one at a fault find nothing that is being reported.
LEMMA FilesKept ==
    ASSUME IInv, [Next]_vars
    PROVE  FilesInv'
<1> USE ServiceAssumption DEF disk, crash, updater, memory, TypeOK, IInv, FilesInv, UpdaterInv
<1>1. CASE StartService
  BY <1>1 DEF StartService
<1>2. CASE Crash
  BY <1>2 DEF Crash, Exits, Forget, Fault, Tears
<1>3. CASE Restart
  BY <1>3 DEF Restart, Exits, Forget, Tears
<1>4. CASE Uninstall
  BY <1>4 DEF Uninstall, Exits, Forget, Tears
<1>5. CASE ServiceEnded
  BY <1>5 DEF ServiceEnded
<1>6. CASE MachineStops
  BY <1>6 DEF MachineStops, Forget, Fault, Tears
<1>7. CASE MachineStarts
  BY <1>7 DEF MachineStarts
<1>8. CASE Boot
  BY <1>8 DEF Boot
<1>9. CASE Report
  BY <1>9 DEF Report, Fault
<1>10. CASE RemoveReported
  BY <1>10 DEF RemoveReported
<1>11. CASE Ready
  BY <1>11 DEF Ready
<1>12. ASSUME NEW j \in Jobs, StartJob(j) PROVE FilesInv'
  BY <1>12 DEF StartJob
<1>13. ASSUME NEW j \in Jobs, EndJob(j) PROVE FilesInv'
  BY <1>13 DEF EndJob
<1>14. ASSUME NEW v \in Versions, RequestUpdate(v) PROVE FilesInv'
  BY <1>14 DEF RequestUpdate
<1>15. CASE Download
  BY <1>15 DEF Download, UpdaterStays
<1>16. ASSUME NEW p \in Parts, Copy(p) PROVE FilesInv'
  BY <1>16 DEF Copy, UpdaterStays
<1>17. ASSUME NEW p \in Parts, MoveAway(p) PROVE FilesInv'
  BY <1>17 DEF MoveAway, UpdaterStays
<1>18. ASSUME NEW p \in Parts, MoveIn(p) PROVE FilesInv'
  BY <1>18 DEF MoveIn
<1>19. CASE UpdateFails
  BY <1>19 DEF UpdateFails, Fault, GiveUp, Exits, Forget, Tears
<1>20. CASE NothingToMove
  BY <1>20 DEF NothingToMove, GiveUp, Exits, Forget, Tears
<1>21. CASE UNCHANGED vars
  BY <1>21 DEF vars
<1> QED
  BY <1>1, <1>2, <1>3, <1>4, <1>5, <1>6, <1>7, <1>8, <1>9, <1>10, <1>11, <1>12, <1>13, <1>14, <1>15, <1>16, <1>17, <1>18, <1>19, <1>20, <1>21 DEF Next, Supervise, Work

\* The agent is replaced by the target before the integrations are looked at, and only
\* installed alone where the version is the agent's own.
LEMMA UpdaterKept ==
    ASSUME IInv, [Next]_vars
    PROVE  UpdaterInv'
<1> USE ServiceAssumption DEF disk, crash, updater, memory, TypeOK, IInv, UpdaterInv, FilesInv, Matching
<1>1. CASE StartService
  BY <1>1 DEF StartService
<1>2. CASE Crash
  BY <1>2 DEF Crash, Exits, Forget, Fault, Tears
<1>3. CASE Restart
  BY <1>3 DEF Restart, Exits, Forget, Tears
<1>4. CASE Uninstall
  BY <1>4 DEF Uninstall, Exits, Forget, Tears
<1>5. CASE ServiceEnded
  BY <1>5 DEF ServiceEnded
<1>6. CASE MachineStops
  BY <1>6 DEF MachineStops, Forget, Fault, Tears
<1>7. CASE MachineStarts
  BY <1>7 DEF MachineStarts
<1>8. CASE Boot
  BY <1>8 DEF Boot
<1>9. CASE Report
  BY <1>9 DEF Report, Fault
<1>10. CASE RemoveReported
  BY <1>10 DEF RemoveReported
<1>11. CASE Ready
  BY <1>11 DEF Ready
<1>12. ASSUME NEW j \in Jobs, StartJob(j) PROVE UpdaterInv'
  BY <1>12 DEF StartJob
<1>13. ASSUME NEW j \in Jobs, EndJob(j) PROVE UpdaterInv'
  BY <1>13 DEF EndJob
<1>14. ASSUME NEW v \in Versions, RequestUpdate(v) PROVE UpdaterInv'
  BY <1>14 DEF RequestUpdate
<1>15. CASE Download
  BY <1>15 DEF Download, UpdaterStays
<1>16. ASSUME NEW p \in Parts, Copy(p) PROVE UpdaterInv'
  <2>1. bin'["agent"] = bin["agent"] /\ (p = "integrations" => parent')
    BY <1>16 DEF Copy, Parts
  <2> QED
    BY <1>16, <2>1 DEF Copy, UpdaterStays, Parts
<1>17. ASSUME NEW p \in Parts, MoveAway(p) PROVE UpdaterInv'
  BY <1>17 DEF MoveAway, UpdaterStays
<1>18. ASSUME NEW p \in Parts, MoveIn(p) PROVE UpdaterInv'
  <2>1. /\ target \in Versions /\ bin'[p] = target
        /\ p # "agent" => p = "integrations" /\ bin'["agent"] = bin["agent"]
    BY <1>18 DEF MoveIn, Parts
  <2> QED
    BY <1>18, <2>1 DEF MoveIn, Parts
<1>19. CASE UpdateFails
  BY <1>19 DEF UpdateFails, Fault, GiveUp, Exits, Forget, Tears
<1>20. CASE NothingToMove
  BY <1>20 DEF NothingToMove, GiveUp, Exits, Forget, Tears
<1>21. CASE UNCHANGED vars
  BY <1>21 DEF vars
<1> QED
  BY <1>1, <1>2, <1>3, <1>4, <1>5, <1>6, <1>7, <1>8, <1>9, <1>10, <1>11, <1>12, <1>13, <1>14, <1>15, <1>16, <1>17, <1>18, <1>19, <1>20, <1>21 DEF Next, Supervise, Work

\* What would tear the binaries apart is noted when it happens; an update that is done
\* has replaced both, and only then stops being one that tears.
LEMMA MatchingKept ==
    ASSUME IInv, [Next]_vars
    PROVE  Matching'
<1> USE ServiceAssumption DEF disk, crash, updater, memory, TypeOK, IInv, UpdaterInv, FilesInv, Matching, Tears
<1>1. CASE StartService
  BY <1>1 DEF StartService
<1>2. CASE Crash
  BY <1>2 DEF Crash, Exits, Forget, Fault, Tears
<1>3. CASE Restart
  BY <1>3 DEF Restart, Exits, Forget, Tears
<1>4. CASE Uninstall
  BY <1>4 DEF Uninstall, Exits, Forget, Tears
<1>5. CASE ServiceEnded
  BY <1>5 DEF ServiceEnded
<1>6. CASE MachineStops
  BY <1>6 DEF MachineStops, Forget, Fault, Tears
<1>7. CASE MachineStarts
  BY <1>7 DEF MachineStarts
<1>8. CASE Boot
  BY <1>8 DEF Boot
<1>9. CASE Report
  BY <1>9 DEF Report, Fault
<1>10. CASE RemoveReported
  BY <1>10 DEF RemoveReported
<1>11. CASE Ready
  BY <1>11 DEF Ready
<1>12. ASSUME NEW j \in Jobs, StartJob(j) PROVE Matching'
  BY <1>12 DEF StartJob
<1>13. ASSUME NEW j \in Jobs, EndJob(j) PROVE Matching'
  BY <1>13 DEF EndJob
<1>14. ASSUME NEW v \in Versions, RequestUpdate(v) PROVE Matching'
  BY <1>14 DEF RequestUpdate
<1>15. CASE Download
  BY <1>15 DEF Download, UpdaterStays
<1>16. ASSUME NEW p \in Parts, Copy(p) PROVE Matching'
  BY <1>16 DEF Copy, UpdaterStays
<1>17. ASSUME NEW p \in Parts, MoveAway(p) PROVE Matching'
  BY <1>17 DEF MoveAway, UpdaterStays
<1>18. ASSUME NEW p \in Parts, MoveIn(p) PROVE Matching'
  <2>1. /\ target \in Versions /\ bin'[p] = target
        /\ p # "agent" => p = "integrations" /\ bin'["agent"] = bin["agent"]
    BY <1>18 DEF MoveIn, Parts
  <2> QED
    BY <1>18, <2>1 DEF MoveIn, Parts
<1>19. CASE UpdateFails
  BY <1>19 DEF UpdateFails, Fault, GiveUp, Exits, Forget, Tears
<1>20. CASE NothingToMove
  BY <1>20 DEF NothingToMove, GiveUp, Exits, Forget, Tears
<1>21. CASE UNCHANGED vars
  BY <1>21 DEF vars
<1> QED
  BY <1>1, <1>2, <1>3, <1>4, <1>5, <1>6, <1>7, <1>8, <1>9, <1>10, <1>11, <1>12, <1>13, <1>14, <1>15, <1>16, <1>17, <1>18, <1>19, <1>20, <1>21 DEF Next, Supervise, Work

\* The agent is moved away to its backup; who removes the backup of a missing one is
\* noted.
LEMMA BackupStays ==
    ASSUME IInv, [Next]_vars
    PROVE  BackupKept'
<1> USE ServiceAssumption DEF disk, crash, updater, memory, TypeOK, IInv, UpdaterInv, BackupKept
<1>1. CASE StartService
  BY <1>1 DEF StartService
<1>2. CASE Crash
  BY <1>2 DEF Crash, Exits, Forget, Fault, Tears
<1>3. CASE Restart
  BY <1>3 DEF Restart, Exits, Forget, Tears
<1>4. CASE Uninstall
  BY <1>4 DEF Uninstall, Exits, Forget, Tears
<1>5. CASE ServiceEnded
  BY <1>5 DEF ServiceEnded
<1>6. CASE MachineStops
  BY <1>6 DEF MachineStops, Forget, Fault, Tears
<1>7. CASE MachineStarts
  BY <1>7 DEF MachineStarts
<1>8. CASE Boot
  BY <1>8 DEF Boot
<1>9. CASE Report
  BY <1>9 DEF Report, Fault
<1>10. CASE RemoveReported
  BY <1>10 DEF RemoveReported
<1>11. CASE Ready
  BY <1>11 DEF Ready
<1>12. ASSUME NEW j \in Jobs, StartJob(j) PROVE BackupKept'
  BY <1>12 DEF StartJob
<1>13. ASSUME NEW j \in Jobs, EndJob(j) PROVE BackupKept'
  BY <1>13 DEF EndJob
<1>14. ASSUME NEW v \in Versions, RequestUpdate(v) PROVE BackupKept'
  BY <1>14 DEF RequestUpdate
<1>15. CASE Download
  BY <1>15 DEF Download, UpdaterStays
<1>16. ASSUME NEW p \in Parts, Copy(p) PROVE BackupKept'
  <2>1. p # "agent" => bin'["agent"] = bin["agent"] /\ old'["agent"] = old["agent"]
    BY <1>16 DEF Copy, Parts
  <2> QED
    BY <1>16, <2>1 DEF Copy, UpdaterStays
<1>17. ASSUME NEW p \in Parts, MoveAway(p) PROVE BackupKept'
  BY <1>17 DEF MoveAway, UpdaterStays
<1>18. ASSUME NEW p \in Parts, MoveIn(p) PROVE BackupKept'
  BY <1>18 DEF MoveIn
<1>19. CASE UpdateFails
  BY <1>19 DEF UpdateFails, Fault, GiveUp, Exits, Forget, Tears
<1>20. CASE NothingToMove
  BY <1>20 DEF NothingToMove, GiveUp, Exits, Forget, Tears
<1>21. CASE UNCHANGED vars
  BY <1>21 DEF vars
<1> QED
  BY <1>1, <1>2, <1>3, <1>4, <1>5, <1>6, <1>7, <1>8, <1>9, <1>10, <1>11, <1>12, <1>13, <1>14, <1>15, <1>16, <1>17, <1>18, <1>19, <1>20, <1>21 DEF Next, Supervise, Work

LEMMA InitHolds == Init => IInv
<1> SUFFICES ASSUME Init PROVE IInv
  OBVIOUS
<1> USE ServiceAssumption
<1>1. PICK v \in Versions : /\ bin = [p \in Parts |-> IF p = "agent" \/ parent THEN v ELSE Missing]
                            /\ parent \in BOOLEAN
  BY DEF Init
<1>2. /\ bin["agent"] = v /\ bin["agent"] # Missing
      /\ bin["integrations"] = (IF parent THEN v ELSE Missing)
      /\ bin \in [Parts -> Binaries]
  BY <1>1 DEF Parts, Binaries
<1>3. TypeOK
  <2>1. old \in [Parts -> Binaries]
    BY DEF Init, Binaries
  <2>2. received \in [Files -> 0 .. MaxFaults + 1] /\ faults \in 0 .. MaxFaults
        /\ requests \in 0 .. MaxRequests
    BY DEF Init
  <2>3. log \in [Files -> {"none", "empty", "output"}]
    BY DEF Init
  <2>4. {due, torn, retried} \subseteq BOOLEAN
    BY DEF Init
  <2> QED
    BY <1>1, <1>2, <2>1, <2>2, <2>3, <2>4 DEF Init, TypeOK
<1>4. FilesInv
  BY DEF Init, FilesInv
<1>5. UpdaterInv /\ Matching /\ BackupKept
  BY <1>1, <1>2 DEF Init, UpdaterInv, Matching, BackupKept
<1> QED
  BY <1>3, <1>4, <1>5 DEF IInv

LEMMA Invariant == Spec => []IInv
<1>1. IInv /\ [Next]_vars => IInv'
  BY TypeKept, FilesKept, UpdaterKept, MatchingKept, BackupStays DEF IInv
<1> QED
  BY <1>1, InitHolds, PTL DEF Spec

----------------------------------------------------------------------------
(* The theorems. *)

\* Every variable keeps to its type.
THEOREM TypeCorrect == Spec => []TypeOK
BY Invariant, PTL DEF IInv

\* Whatever fails or is interrupted, a service that takes requests has the binaries of its
\* version, but for the exceptions that Equipped names, and the agent or its backup is
\* there (cmdrunnorestarts/run.go:138, updater.go:252).
THEOREM BinariesAreKept == Spec => []BinariesKept
<1>1. IInv => Equipped
  BY DEF IInv, Matching, UpdaterInv, Equipped, Tears
<1> QED
  BY <1>1, Invariant, PTL DEF IInv, BinariesKept

\* Binaries change in three steps of the updater only.
LEMMA OnlyTheUpdater ==
    ASSUME [Next]_vars, bin' # bin
    PROVE  \E p \in Parts : Copy(p) \/ MoveAway(p) \/ MoveIn(p)
<1> USE DEF disk, crash, updater, memory
<1>1. ~ (Supervise \/ Crash \/ MachineStops \/ Uninstall \/ UNCHANGED vars)
  BY DEF Supervise, StartService, ServiceEnded, MachineStarts, Crash, MachineStops,
         Uninstall, vars
<1>2. ~ (Boot \/ Report \/ RemoveReported \/ Ready \/ Restart \/ Download)
  BY DEF Boot, Report, RemoveReported, Ready, Restart, Download, UpdaterStays
<1>3. ~ (UpdateFails \/ NothingToMove)
  BY DEF UpdateFails, NothingToMove, GiveUp
<1>4. /\ \A v \in Versions : ~ RequestUpdate(v)
      /\ \A j \in Jobs : ~ (StartJob(j) \/ EndJob(j))
  BY DEF RequestUpdate, StartJob, EndJob
<1> QED
  BY <1>1, <1>2, <1>3, <1>4 DEF Next, Work

\* An update is told as done only at its last step.
LEMMA OnlyTheLastStep ==
    ASSUME [Next]_vars, answer # "updated", answer' = "updated"
    PROVE  MoveIn("integrations")
<1> USE DEF disk, crash, updater, memory
<1>1. ~ (Supervise \/ Crash \/ MachineStops \/ Uninstall \/ UNCHANGED vars)
  BY DEF Supervise, StartService, ServiceEnded, MachineStarts, Crash, MachineStops,
         Uninstall, vars
<1>2. ~ (Boot \/ Report \/ RemoveReported \/ Ready \/ Restart \/ Download)
  BY DEF Boot, Report, RemoveReported, Ready, Restart, Download, UpdaterStays
<1>3. ~ (UpdateFails \/ NothingToMove)
  BY DEF UpdateFails, NothingToMove, GiveUp
<1>4. /\ \A v \in Versions : ~ RequestUpdate(v)
      /\ \A j \in Jobs : ~ (StartJob(j) \/ EndJob(j))
  BY DEF RequestUpdate, StartJob, EndJob
<1>5. \A p \in Parts : ~ (Copy(p) \/ MoveAway(p)) /\ (MoveIn(p) => p # "agent")
  BY DEF Copy, MoveAway, MoveIn, UpdaterStays
<1> QED
  BY <1>1, <1>2, <1>3, <1>4, <1>5 DEF Next, Work, Parts

\* No binary is replaced under an export or onboarding that ran when the update was asked
\* for, and an update that is told as done has replaced both (update_events.go:141).
THEOREM UpdatesAreKept == Spec => UpdatesKept
<1>1. IInv /\ [Next]_vars => JobsUntouched
  BY OnlyTheUpdater DEF IInv, UpdaterInv, Parts, Copy, MoveAway, MoveIn, JobsUntouched
<1>2. IInv /\ [Next]_vars => AnswerTrue
  <2> SUFFICES ASSUME IInv, [Next]_vars, answer # "updated", answer' = "updated"
               PROVE  \A p \in Parts : bin'[p] = target
    BY DEF AnswerTrue
  <2>1. MoveIn("integrations")
    BY OnlyTheLastStep
  <2> QED
    BY <2>1 DEF MoveIn, IInv, TypeOK, UpdaterInv, Parts
<1>3. IInv /\ [Next]_vars => [JobsUntouched /\ AnswerTrue]_vars
  BY <1>1, <1>2
<1> QED
  BY <1>3, Invariant, PTL DEF Spec, UpdatesKept

\* A crash file is removed only when the backend has received it, however often the service
\* ends between the two (crashes.go:39): the half of CrashesDelivered that is no liveness.
THEOREM RemovedOnlyWhenReceived == Spec => [][RemovedWhenReceived]_vars
<1>1. IInv /\ [Next]_vars => RemovedWhenReceived
  <2> SUFFICES ASSUME IInv, [Next]_vars, NEW f \in meta,
                      log[f] = "output", log'[f] = "none"
               PROVE  received[f] > 0
    BY DEF RemovedWhenReceived
  <2> USE DEF disk, crash, updater, memory
  <2>0. log \in [Files -> {"none", "empty", "output"}] /\ f \in Files
    BY DEF IInv, TypeOK
  <2>1. ~ (StartService \/ MachineStarts \/ MachineStops \/ UNCHANGED vars)
    BY <2>0 DEF StartService, MachineStarts, MachineStops, vars
  <2>2. ~ ServiceEnded
    BY <2>0 DEF ServiceEnded, IInv, FilesInv
  <2>3. ~ (Crash \/ Restart \/ Uninstall \/ UpdateFails \/ NothingToMove)
    BY <2>0 DEF Crash, Restart, Uninstall, UpdateFails, NothingToMove, GiveUp, Exits,
                IInv, FilesInv, UpdaterInv
  <2>4. ~ (Boot \/ Report \/ Ready \/ Download)
    BY <2>0 DEF Boot, Report, Ready, Download, UpdaterStays
  <2>5. /\ \A v \in Versions : ~ RequestUpdate(v)
        /\ \A j \in Jobs : ~ (StartJob(j) \/ EndJob(j))
        /\ \A p \in Parts : ~ (Copy(p) \/ MoveAway(p) \/ MoveIn(p))
    BY <2>0 DEF RequestUpdate, StartJob, EndJob, Copy, MoveAway, MoveIn, UpdaterStays
  <2>6. CASE RemoveReported
    BY <2>0, <2>6 DEF RemoveReported, IInv, TypeOK, FilesInv
  <2> QED
    BY <2>1, <2>2, <2>3, <2>4, <2>5, <2>6 DEF Next, Supervise, Work
<1>2. IInv /\ [Next]_vars => [RemovedWhenReceived]_vars
  BY <1>1
<1> QED
  BY <1>2, Invariant, PTL DEF Spec
=============================================================================
