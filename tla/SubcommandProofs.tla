-------------------------- MODULE SubcommandProofs --------------------------
(***************************************************************************)
(* What holds of Subcommand for any number of process ids, exports and     *)
(* cancel requests, and of BackendRequests, with the operations of the     *)
(* integrations, for any numbers of requests and faults.                   *)
(***************************************************************************)
EXTENDS MCSubcommand, TLAPS

\* The processes that a signal or an end can change are running ones, and
\* none starts to run.
LEMMA SignalEnds ==
    ASSUME TypeOK, NEW p \in Pids, Signal(p)
    PROVE  /\ exit' \in [Exports -> {"none", "running", "ok", "failed",
                                     "killed"}]
           /\ \A e \in Exports : exit'[e] = "running" => exit[e] = "running"
BY DEF Signal, TypeOK

\* The types are kept by the steps of the exporter.
LEMMA ExporterType ==
    ASSUME TypeOK, ExporterStep
    PROVE  TypeOK'
<1> USE BoundsAssumption, NoneAssumption DEF TypeOK, Current
<1>1. ASSUME NEW p \in Pids, Start(p) PROVE TypeOK'
  <2>1. Current + 1 \in Exports
    BY <1>1 DEF Start, Exports
  <2>2. QED
    BY <1>1, <2>1 DEF Start
<1>2. CASE AddProcess
  <2>1. <<Current, exporter.pid>> \in Process
    BY <1>2 DEF AddProcess, Process
  <2>2. QED
    BY <1>2, <2>1 DEF AddProcess
<1>3. CASE Wait
  BY <1>3 DEF Wait
<1>4. CASE Check
  BY <1>4 DEF Check
<1>5. CASE LookAtEnd
  BY <1>5 DEF LookAtEnd
<1>6. CASE DeleteAtEnd
  BY <1>6 DEF DeleteAtEnd
<1>7. CASE KillAtEnd
  <2>1. exporter.entry[2] \in Pids
    BY <1>7 DEF KillAtEnd, Process
  <2>2. QED
    BY <1>7, <2>1, SignalEnds DEF KillAtEnd
<1>8. QED
  BY <1>1, <1>2, <1>3, <1>4, <1>5, <1>6, <1>7 DEF ExporterStep

\* The types are kept by the cancel handler and by the other processes.
LEMMA CancellerType ==
    ASSUME TypeOK,
           \/ CancellerStep \/ Cancel
           \/ \E e \in Exports : Ends(e)
    PROVE  TypeOK'
<1> USE BoundsAssumption, NoneAssumption DEF TypeOK
<1>1. CASE CancelLooks
  BY <1>1 DEF CancelLooks, Process
<1>2. CASE CancelDeletes
  BY <1>2 DEF CancelDeletes
<1>3. CASE CancelKills
  <2>1. canceller.entry[2] \in Pids
    BY <1>3 DEF CancelKills, Process
  <2>2. QED
    BY <1>3, <2>1, SignalEnds DEF CancelKills
<1>4. CASE Cancel
  BY <1>4 DEF Cancel
<1>5. ASSUME NEW e \in Exports, Ends(e) PROVE TypeOK'
  BY <1>5 DEF Ends
<1>6. QED
  BY <1>1, <1>2, <1>3, <1>4, <1>5 DEF CancellerStep

\* Every variable keeps to its type, and a signal is only sent after an entry
\* was found.
THEOREM TypeCorrect == Spec => []TypeOK
<1>1. Init => TypeOK
  <2> SUFFICES ASSUME Init PROVE TypeOK
    OBVIOUS
  <2>1. exporter \in [export : 0..MaxExports, pid : Pids \cup {None},
                      at : {"idle", "started", "wait", "check", "look",
                            "delete", "kill"},
                      entry : Process \cup {None}]
    BY BoundsAssumption DEF Init
  <2>2. canceller \in [at : {"idle", "look", "delete", "kill"},
                       entry : Process \cup {None}, received : 0..MaxCancels]
    BY BoundsAssumption DEF Init
  <2>3. QED
    BY <2>1, <2>2 DEF Init, TypeOK
<1>2. TypeOK /\ [Next]_vars => TypeOK'
  <2>1. TypeOK /\ UNCHANGED vars => TypeOK'
    BY DEF TypeOK, vars
  <2>2. QED
    BY <2>1, ExporterType, CancellerType DEF Next
<1>3. QED
  BY <1>1, <1>2, PTL DEF Spec

\* An entry is that of the export which the exporter has added and not yet
\* removed; a running process is that of the export which it waits for, or is
\* about to.
EntryOfCurrent ==
    /\ processes # None =>
         exporter.at \in {"wait", "check", "look", "delete"}
    /\ \A e \in Exports : exit[e] = "running" =>
         e = Current /\ exporter.at \in {"started", "wait"}

LEMMA EntriesAreCurrent == Spec => []EntryOfCurrent
<1>1. Init => EntryOfCurrent
  BY DEF Init, EntryOfCurrent
<1>2. TypeOK /\ EntryOfCurrent /\ [Next]_vars => EntryOfCurrent'
  <2> SUFFICES ASSUME TypeOK, EntryOfCurrent, [Next]_vars
               PROVE  EntryOfCurrent'
    OBVIOUS
  <2> USE NoneAssumption DEF EntryOfCurrent, Current
  <2>1. ASSUME NEW p \in Pids, Start(p) PROVE EntryOfCurrent'
    BY <2>1 DEF Start, TypeOK
  <2>2. CASE AddProcess
    BY <2>2 DEF AddProcess, TypeOK
  <2>3. CASE Wait
    BY <2>3 DEF Wait, TypeOK
  <2>4. CASE Check
    BY <2>4 DEF Check, TypeOK
  <2>5. CASE LookAtEnd
    BY <2>5 DEF LookAtEnd, TypeOK
  <2>6. CASE DeleteAtEnd
    BY <2>6 DEF DeleteAtEnd, TypeOK
  <2>7. CASE KillAtEnd
    BY <2>7, SignalEnds DEF KillAtEnd, TypeOK, Process
  <2>8. CASE CancelLooks
    BY <2>8 DEF CancelLooks
  <2>9. CASE CancelDeletes
    BY <2>9 DEF CancelDeletes
  <2>10. CASE CancelKills
    BY <2>10, SignalEnds DEF CancelKills, TypeOK, Process
  <2>11. CASE Cancel
    BY <2>11 DEF Cancel
  <2>12. ASSUME NEW e \in Exports, Ends(e) PROVE EntryOfCurrent'
    BY <2>12 DEF Ends, TypeOK
  <2>13. CASE UNCHANGED vars
    BY <2>13 DEF vars
  <2>14. QED
    BY <2>1, <2>2, <2>3, <2>4, <2>5, <2>6, <2>7, <2>8, <2>9, <2>10, <2>11,
       <2>12, <2>13
    DEF Next, ExporterStep, CancellerStep
<1>3. QED
  BY <1>1, <1>2, TypeCorrect, PTL DEF Spec

\* Whatever the interleaving with cancel requests, an export never finds the
\* entry of another one, and every process is waited for.
THEOREM NeverFindsAnother == Spec => []NeverRefused
<1>1. EntryOfCurrent => NeverRefused
  BY DEF EntryOfCurrent, NeverRefused
<1>2. QED
  BY <1>1, EntriesAreCurrent, PTL

\* Where an export is looked for and not found, a cancel request has found it, or one
\* before it; and a request deletes what it has found.
FoundByRequest ==
    /\ processes # None => processes[1] = Current
    /\ exporter.at \in {"wait", "check"} /\ processes = None =>
         \E d \in wanted : d <= Current
    /\ canceller.at = "delete" =>
         canceller.entry[1] \in wanted /\ canceller.entry[1] <= Current

CancelInv == TypeOK /\ EntryOfCurrent /\ FoundByRequest /\ CancelledAfterRequest

\* A step of the exporter keeps it: an export is only given up for cancelled where the
\* entry is missing.
LEMMA ExporterKeepsFound ==
    ASSUME CancelInv, ExporterStep
    PROVE  FoundByRequest' /\ CancelledAfterRequest'
<1> USE NoneAssumption DEF CancelInv, EntryOfCurrent, FoundByRequest,
        CancelledAfterRequest, Current
<1>0. /\ exporter.export \in 0..MaxExports /\ MaxExports \in Nat
      /\ Exports = 1..MaxExports /\ wanted \subseteq Exports
      /\ result \in [Exports -> {"none", "success", "cancelled", "failed"}]
  BY BoundsAssumption DEF TypeOK, Exports
<1>1. ASSUME NEW p \in Pids, Start(p) PROVE FoundByRequest' /\ CancelledAfterRequest'
  <2>1. /\ processes = None /\ processes' = None
        /\ exporter'.at = "started" /\ exporter'.export = exporter.export + 1
        /\ UNCHANGED <<canceller, wanted, result>>
    BY <1>1 DEF Start
  <2>2. canceller.at = "delete" => canceller.entry[1] <= exporter.export + 1
    <3>1. canceller.at = "delete" => canceller.entry[1] \in Exports
      BY <1>0
    <3> QED
      BY <1>0, <3>1
  <2> QED
    BY <1>0, <2>1, <2>2
<1>2. CASE AddProcess
  <2>1. /\ exporter'.export = exporter.export /\ UNCHANGED <<canceller, wanted>>
        /\ \/ processes' = <<exporter.export, exporter.pid>> /\ result' = result
           \/ /\ processes' = processes /\ exporter'.at = "idle"
              /\ result' = [result EXCEPT ![exporter.export] = "failed"]
    BY <1>2 DEF AddProcess, TypeOK
  <2>2. processes' # None => processes'[1] = exporter.export
    BY <2>1
  <2>3. exporter'.at \in {"wait", "check"} => processes' # None
    <3>1. exporter' = [exporter EXCEPT !.at = "wait"] =>
            processes' = <<exporter.export, exporter.pid>> /\ processes' \in Process
      BY <1>2 DEF AddProcess, TypeOK, Process
    <3> QED
      BY <2>1, <3>1, <1>2 DEF AddProcess, TypeOK
  <2>4. CancelledAfterRequest'
    BY <1>0, <2>1
  <2> QED
    BY <2>1, <2>2, <2>3, <2>4
<1>3. CASE Wait
  BY <1>3 DEF Wait, TypeOK
<1>4. CASE Check
  <2>1. /\ exporter.at = "check" /\ exporter'.at = "look"
        /\ exporter'.export = exporter.export
        /\ UNCHANGED <<processes, canceller, wanted>>
        /\ \A e \in Exports : e # exporter.export => result'[e] = result[e]
        /\ result'[exporter.export] = "cancelled" => processes = None
    BY <1>0, <1>4 DEF Check, TypeOK
  <2> QED
    BY <1>0, <2>1
<1>5. CASE LookAtEnd
  BY <1>5 DEF LookAtEnd, TypeOK
<1>6. CASE DeleteAtEnd
  BY <1>6 DEF DeleteAtEnd, TypeOK
<1>7. CASE KillAtEnd
  BY <1>7 DEF KillAtEnd, TypeOK
<1>8. QED
  BY <1>1, <1>2, <1>3, <1>4, <1>5, <1>6, <1>7 DEF ExporterStep

\* So does a step of the handler of cancel requests, which only deletes what it has found.
LEMMA CancellerKeepsFound ==
    ASSUME CancelInv, \/ CancellerStep \/ Cancel
                      \/ \E e \in Exports : Ends(e)
                      \/ UNCHANGED vars
    PROVE  FoundByRequest' /\ CancelledAfterRequest'
<1> USE NoneAssumption DEF CancelInv, EntryOfCurrent, FoundByRequest,
        CancelledAfterRequest, Current
<1>1. CASE CancelLooks
  <2>1. processes # None => processes[1] \in Nat /\ exporter.export \in Nat
    BY BoundsAssumption DEF TypeOK, Process, Exports
  <2> QED
    BY <1>1, <2>1 DEF CancelLooks, TypeOK
<1>2. CASE CancelDeletes
  BY <1>2 DEF CancelDeletes, TypeOK
<1>3. CASE CancelKills
  BY <1>3 DEF CancelKills, TypeOK
<1>4. CASE Cancel
  BY <1>4 DEF Cancel, TypeOK
<1>5. ASSUME NEW e \in Exports, Ends(e) PROVE FoundByRequest' /\ CancelledAfterRequest'
  BY <1>5 DEF Ends
<1>6. CASE UNCHANGED vars
  BY <1>6 DEF vars
<1>7. QED
  BY <1>1, <1>2, <1>3, <1>4, <1>5, <1>6 DEF CancellerStep

\* An export is reported as cancelled only if a cancel request found it, or one before it,
\* whatever the order of the steps of removeProcess in the two goroutines.
THEOREM CancelledOnlyAfterRequest == Spec => []CancelledAfterRequest
<1>1. Init => FoundByRequest /\ CancelledAfterRequest
  BY DEF Init, FoundByRequest, CancelledAfterRequest
<1>2. TypeOK /\ EntryOfCurrent /\ FoundByRequest /\ CancelledAfterRequest /\ [Next]_vars
        => FoundByRequest' /\ CancelledAfterRequest'
  BY ExporterKeepsFound, CancellerKeepsFound DEF Next, CancelInv
<1>3. QED
  BY <1>1, <1>2, TypeCorrect, EntriesAreCurrent, PTL DEF Spec

----------------------------------------------------------------------------
(* The other requests: BackendRequests, as MCSubcommand instantiates it,   *)
(* for any numbers of requests and faults.                                 *)

Panicked(r) == <<"panic", r>> \in faults
Died(r) == <<"dies", r>> \in faults

\* Until the integration runs, nothing was done or has gone wrong for it.
Untouched(r) ==
    /\ at[r] \in {"none", "params", "load"} =>
         pos[r] = 0 /\ problem[r] = "none" /\ r \notin running
    /\ at[r] \in {"none", "params", "load", "steps"} => ~ Panicked(r)
    /\ at[r] = "steps" => problem[r] = "none"
    /\ at[r] \notin {"exited", "done"} => output[r] = "none" /\ ~ Died(r)

\* What is no failure has made every call, and the changes among them.
Made(r) ==
    /\ problem[r] = "none" /\ at[r] \in {"returned", "close", "git", "output"} =>
         pos[r] = Len(op[r].steps)
    /\ op[r] # None =>
         \A i \in DOMAIN op[r].steps :
            i <= pos[r] /\ op[r].steps[i].does = "change" => changed[r]
    /\ output[r] = "success" => problem[r] = "none" /\ pos[r] = Len(op[r].steps)

\* The two ways to leave an integration running that are no fault.
Left(r) ==
    /\ problem[r] = "result"
    /\ op[r].kind = "onboard" \/ (op[r].kind = "validate" /\ op[r].git)
    /\ at[r] = "output" \/ output[r] = "failure"
    /\ at[r] = "done" => answer[r] = "failure"

\* An integration runs until the subcommand has ended it.
Ended(r) ==
    /\ r \in running => at[r] \in B!Loaded \/ Died(r) \/ Left(r)
    /\ Died(r) => output[r] = "none"

\* A panic is a failure of the call.  It is in the log file, unless that was created
\* again, until it is reported.
PanicKept(r) ==
    Panicked(r) =>
        /\ problem[r] = "rpc"
        /\ r \in torn
           \/ IF at[r] \in B!Loaded THEN r \in log[B!LogName(op[r])]
              ELSE r \in reported \/ Died(r) \/ <<"send", r>> \in faults

RequestOK(r) == Untouched(r) /\ Made(r) /\ Ended(r) /\ PanicKept(r)

RequestsInv == B!TypeOK /\ \A r \in B!Requests : RequestOK(r)

\* A request that has arrived asks for an operation, whose log file has a name.
LEMMA OperationOf ==
    ASSUME B!TypeOK, NEW r \in B!Requests, at[r] # "none"
    PROVE  /\ op[r] \in Operations
           /\ B!LogName(op[r]) \in B!LogNames
           /\ log[B!LogName(op[r])] \subseteq B!Requests
<1>1. op[r] \in Operations
  BY DEF B!TypeOK
<1> QED
  BY <1>1 DEF B!TypeOK, B!LogNames

\* The step that is next, and how it may fail.
LEMMA StepType ==
    ASSUME B!TypeOK, NEW r \in B!Requests, B!AtStep(r)
    PROVE  /\ pos[r] + 1 \in DOMAIN op[r].steps
           /\ B!Step(r) = op[r].steps[pos[r] + 1]
           /\ B!Step(r).error \in {"rpc", "result", "logged"}
           /\ B!Step(r).error = "logged" => B!Step(r).does = "read"
<1>1. op[r] \in Operations
  BY OperationOf DEF B!AtStep
<1>2. op[r].steps \in Seq(B!Call)
  BY <1>1, RequestsAssumption DEF B!OperationsAssumption
<1>3. pos[r] + 1 \in DOMAIN op[r].steps
  BY <1>2 DEF B!AtStep, B!TypeOK
<1>4. op[r].steps[pos[r] + 1] \in B!Call
  BY <1>2, <1>3
<1>5. op[r].steps[pos[r] + 1].error = "logged" => op[r].steps[pos[r] + 1].does = "read"
  BY <1>1, <1>3, RequestsAssumption DEF B!OperationsAssumption
<1> QED
  BY <1>3, <1>4, <1>5 DEF B!Step, B!Call

\* The types are kept; a request is answered when it is done.
LEMMA RequestsTypeKept ==
    ASSUME RequestsInv, B!Next
    PROVE  B!TypeOK'
<1> USE DEF RequestsInv, B!TypeOK, B!Loaded, B!FaultKinds
<1>1. PICK r \in B!Requests :
         \/ \E o \in Operations : B!Receive(r, o) \/ B!Reject(r, o)
         \/ B!Work(r) \/ B!GoesWrong(r)
  BY DEF B!Next
<1>2. ASSUME NEW o \in Operations, B!Receive(r, o) \/ B!Reject(r, o) PROVE B!TypeOK'
  <2>1. /\ at[r] = "none" /\ op' = [op EXCEPT ![r] = o] /\ o # None
        /\ UNCHANGED <<pos, changed, problem, running, log, torn, reported, output,
                       service, faults>>
    BY <1>2, RequestsAssumption DEF B!Receive, B!Reject, B!Arrives, B!OperationsAssumption
  <2>2. CASE B!Receive(r, o)
    BY <2>1, <2>2 DEF B!Receive, B!Goes
  <2>3. CASE B!Reject(r, o)
    <3>1. PICK a \in {"failure", "nothing"} : answer' = [answer EXCEPT ![r] = a]
      BY <2>3 DEF B!Reject
    <3> QED
      BY <2>1, <2>3, <3>1 DEF B!Reject, B!Goes
  <2> QED
    BY <1>2, <2>2, <2>3
<1>3. CASE B!Start(r)
  BY <1>3 DEF B!Start, B!Goes
<1>4. CASE B!Load(r)
  BY <1>4 DEF B!Load, B!Goes, B!CreateLog, B!SharesLog
<1>5. CASE B!StepDone(r)
  BY <1>5 DEF B!StepDone, B!AtStep, B!Step
<1>6. CASE B!StepFails(r)
  <2>1. PICK done \in {FALSE, B!Step(r).does = "change"} :
           changed' = [changed EXCEPT ![r] = @ \/ done]
    BY <1>6 DEF B!StepFails
  <2>2. changed' \in [B!Requests -> BOOLEAN]
    BY <2>1
  <2>3. B!Step(r).error = "logged" \/ B!OverRPC(r) \in {"rpc", "result"}
    BY <1>6, StepType DEF B!StepFails, B!OverRPC
  <2> QED
    <3>1. CASE B!Step(r).error = "logged"
      <4>1. /\ UNCHANGED <<op, at, problem, running, log, torn, reported, output, answer,
                          service, faults>>
            /\ pos' = [pos EXCEPT ![r] = @ + 1]
        BY <1>6, <3>1 DEF B!StepFails
      <4> QED
        BY <2>2, <4>1
    <3>2. CASE B!Step(r).error # "logged"
      <4>1. /\ UNCHANGED <<op, pos, running, log, torn, reported, output, answer, service,
                          faults>>
            /\ at' = [at EXCEPT ![r] = "returned"]
            /\ problem' = [problem EXCEPT ![r] = B!OverRPC(r)]
            /\ at[r] = "steps"
        BY <1>6, <3>2 DEF B!StepFails, B!Goes, B!Fails, B!AtStep
      <4> QED
        BY <2>2, <2>3, <3>2, <4>1
    <3> QED
      BY <3>1, <3>2
<1>7. CASE B!Returns(r)
  BY <1>7 DEF B!Returns, B!Goes
<1>8. CASE B!LeaveRunning(r)
  BY <1>8 DEF B!LeaveRunning, B!Goes
<1>9. CASE B!CloneFails(r)
  BY <1>9 DEF B!CloneFails, B!Goes, B!TestsClone, B!Fails
<1>10. CASE B!Returned(r)
  BY <1>10 DEF B!Returned, B!Goes
<1>11. CASE B!Close(r)
  BY <1>11, OperationOf DEF B!Close, B!Goes, B!AfterClose
<1>12. CASE B!GitDone(r)
  BY <1>12 DEF B!GitDone, B!Goes, B!Fails
<1>13. CASE B!WriteOutput(r)
  BY <1>13 DEF B!WriteOutput, B!Goes, B!Result
<1>14. CASE B!Finish(r)
  BY <1>14 DEF B!Finish, B!Goes, B!NoResult
<1>15. CASE B!StartPanics(r)
  BY <1>15 DEF B!StartPanics, B!Fault
<1>16. CASE B!StartFails(r)
  BY <1>16 DEF B!StartFails, B!Goes, B!Fault
<1>17. CASE B!LoadFails(r)
  <2>1. log' \in [B!LogNames -> SUBSET B!Requests]
    BY <1>17, OperationOf DEF B!LoadFails, B!CreateLog
  <2> QED
    BY <1>17, <2>1 DEF B!LoadFails, B!Goes, B!Fault, B!CreateLog, B!Fails
<1>18. CASE B!Panics(r)
  <2>1. log' \in [B!LogNames -> SUBSET B!Requests]
    BY <1>18, OperationOf DEF B!Panics, B!AtStep
  <2> QED
    BY <1>18, <2>1 DEF B!Panics, B!Goes, B!Fault, B!AtStep, B!Fails
<1>19. CASE B!SendFails(r)
  BY <1>19 DEF B!SendFails, B!Goes, B!Fault, B!AfterClose
<1>20. CASE B!CloseFails(r)
  BY <1>20, OperationOf DEF B!CloseFails, B!Goes, B!Fault, B!Fails
<1>21. CASE B!Dies(r)
  BY <1>21 DEF B!Dies, B!Goes, B!Fault
<1> QED
  BY <1>1, <1>2, <1>3, <1>4, <1>5, <1>6, <1>7, <1>8, <1>9, <1>10, <1>11, <1>12, <1>13,
      <1>14, <1>15, <1>16, <1>17, <1>18, <1>19, <1>20, <1>21 DEF B!Work, B!GoesWrong

\* One more call is made; if it was to change something it has, or its failure is none
\* that is only logged.
LEMMA MadeStep ==
    ASSUME RequestsInv, NEW r \in B!Requests, B!AtStep(r),
           pos' = [pos EXCEPT ![r] = @ + 1], UNCHANGED <<op, at, problem, output>>,
           \A q \in B!Requests : changed[q] => changed'[q],
           B!Step(r).does = "change" => changed'[r]
    PROVE  \A q \in B!Requests : Made(q)'
<1> SUFFICES ASSUME NEW q \in B!Requests PROVE Made(q)'
  OBVIOUS
<1>1. Made(q) /\ Untouched(q) /\ Untouched(r)
  BY DEF RequestsInv, RequestOK
<1>2. CASE q # r
  <2>1. pos'[q] = pos[q]
    BY <1>2 DEF RequestsInv, B!TypeOK
  <2> QED
    BY <1>1, <2>1 DEF Made
<1>3. CASE q = r
  <2>1. at[r] = "steps" /\ output[r] = "none"
    BY <1>1 DEF B!AtStep, Untouched
  <2>2. pos'[r] = pos[r] + 1 /\ pos[r] \in Nat
    BY DEF RequestsInv, B!TypeOK
  <2>3. op[r].steps \in Seq(B!Call)
    BY OperationOf, RequestsAssumption DEF B!OperationsAssumption, RequestsInv, B!AtStep
  <2>4. ASSUME NEW i \in DOMAIN op[r].steps, i <= pos'[r], op[r].steps[i].does = "change"
        PROVE  changed'[r]
    <3>1. i <= pos[r] \/ i = pos[r] + 1
      BY <2>2, <2>3, <2>4
    <3>2. op[r] # None
      BY <2>1 DEF RequestsInv, B!TypeOK
    <3> QED
      BY <1>1, <1>3, <2>4, <3>1, <3>2 DEF Made, B!Step
  <2> QED
    BY <1>3, <2>1, <2>4 DEF Made
<1> QED
  BY <1>2, <1>3

\* A step is of one request; those beside it lose their log file, at most.
LEMMA RequestKept ==
    ASSUME RequestsInv, B!Next, NEW q \in B!Requests
    PROVE  RequestOK(q)'
<1> USE DEF RequestsInv, B!TypeOK, B!Loaded, RequestOK,
      Untouched, Made, Ended, Left, PanicKept, Panicked, Died
<1>1. PICK r \in B!Requests :
         \/ \E o \in Operations : B!Receive(r, o) \/ B!Reject(r, o)
         \/ B!Work(r) \/ B!GoesWrong(r)
  BY DEF B!Next
<1>2. ASSUME NEW o \in Operations, B!Receive(r, o) \/ B!Reject(r, o) PROVE RequestOK(q)'
  <2>1. /\ at[r] = "none" /\ op' = [op EXCEPT ![r] = o] /\ o # None
        /\ \A p \in B!Requests : p # r => op'[p] = op[p] /\ at'[p] = at[p]
        /\ at'[r] \in {"params", "done"}
        /\ UNCHANGED <<pos, changed, problem, running, log, torn, reported, output, faults>>
    BY <1>2, RequestsAssumption
       DEF B!Receive, B!Reject, B!Arrives, B!Goes, B!OperationsAssumption
  <2>2. CASE q # r
    <3>1. answer'[q] = answer[q]
      BY <1>2, <2>2 DEF B!Receive, B!Reject
    <3> QED
      BY <2>1, <2>2, <3>1
  <2>3. CASE q = r
    <3>1. pos[r] = 0 /\ r \notin running /\ output[r] = "none" /\ ~ Died(r) /\ ~ Panicked(r)
          /\ problem[r] = "none"
      BY <2>1
    <3>2. op'[r] = o /\ o.steps \in Seq(B!Call)
      BY <2>1, RequestsAssumption DEF B!OperationsAssumption
    <3> QED
      BY <2>1, <2>3, <3>1, <3>2
  <2> QED
    BY <2>2, <2>3
<1>3. CASE B!Start(r)
  BY <1>3 DEF B!Start, B!Goes
<1>4. CASE B!Load(r)
  BY <1>4 DEF B!Load, B!Goes, B!CreateLog, B!SharesLog
<1>5. CASE B!StepDone(r)
  <2>1. /\ changed'[q] = (changed[q] \/ (q = r /\ B!Step(r).does = "change"))
        /\ pos'[q] = IF q = r THEN pos[r] + 1 ELSE pos[q]
    BY <1>5 DEF B!StepDone
  <2>2. Made(q)'
    <3>1. \A p \in B!Requests : changed[p] => changed'[p]
      BY <1>5 DEF B!StepDone
    <3>2. B!Step(r).does = "change" => changed'[r]
      BY <1>5 DEF B!StepDone
    <3> QED
      BY <1>5, <3>1, <3>2, MadeStep DEF B!StepDone
  <2> QED
    BY <1>5, <2>1, <2>2 DEF B!StepDone, B!AtStep
<1>6. CASE B!StepFails(r)
  <2>1. PICK done \in {FALSE, B!Step(r).does = "change"} :
           changed' = [changed EXCEPT ![r] = @ \/ done]
    BY <1>6 DEF B!StepFails
  <2>2. changed[q] => changed'[q]
    BY <2>1
  <2>3. B!Step(r).error = "logged" \/ B!OverRPC(r) \in {"rpc", "result"}
    BY <1>6, StepType DEF B!StepFails, B!OverRPC
  <2>4. CASE B!Step(r).error = "logged"
    <3>1. UNCHANGED <<op, at, problem, running, log, torn, reported, output, faults>>
          /\ pos' = [pos EXCEPT ![r] = @ + 1]
      BY <1>6, <2>4 DEF B!StepFails
    <3>2. Made(q)'
      <4>1. \A p \in B!Requests : changed[p] => changed'[p]
        BY <2>1
      <4>2. B!Step(r).does # "change" /\ B!AtStep(r)
        BY <1>6, <2>4, StepType DEF B!StepFails
      <4> QED
        BY <3>1, <4>1, <4>2, MadeStep
    <3> QED
      BY <1>6, <3>1, <3>2 DEF B!StepFails, B!AtStep
  <2>5. CASE B!Step(r).error # "logged"
    <3>1. UNCHANGED <<op, pos, running, log, torn, reported, output, faults>>
          /\ at' = [at EXCEPT ![r] = "returned"]
          /\ problem' = [problem EXCEPT ![r] = B!OverRPC(r)]
      BY <1>6, <2>5 DEF B!StepFails, B!Goes, B!Fails
    <3> QED
      BY <1>6, <2>2, <2>3, <2>5, <3>1 DEF B!StepFails, B!AtStep
  <2> QED
    BY <2>4, <2>5
<1>7. CASE B!Returns(r)
  BY <1>7 DEF B!Returns, B!Goes
<1>8. CASE B!LeaveRunning(r)
  BY <1>8 DEF B!LeaveRunning, B!Goes
<1>9. CASE B!CloneFails(r)
  BY <1>9 DEF B!CloneFails, B!Goes, B!TestsClone, B!Fails
<1>10. CASE B!Returned(r)
  BY <1>10 DEF B!Returned, B!Goes
<1>11. CASE B!Close(r)
  BY <1>11 DEF B!Close, B!Goes, B!AfterClose
<1>12. CASE B!GitDone(r)
  <2>1. PICK how \in {problem[r], "result"} : problem' = [problem EXCEPT ![r] = how]
    BY <1>12 DEF B!GitDone, B!Fails
  <2>2. how \in {problem[r], "result"}
    BY <2>1
  <2> QED
    BY <1>12, <2>1, <2>2 DEF B!GitDone, B!Goes
<1>13. CASE B!WriteOutput(r)
  BY <1>13 DEF B!WriteOutput, B!Goes, B!Result
<1>14. CASE B!Finish(r)
  BY <1>14 DEF B!Finish, B!Goes, B!NoResult
<1>15. CASE B!StartPanics(r)
  BY <1>15 DEF B!StartPanics, B!Fault
<1>16. CASE B!StartFails(r)
  BY <1>16 DEF B!StartFails, B!Goes, B!Fault
<1>17. CASE B!LoadFails(r)
  BY <1>17 DEF B!LoadFails, B!Goes, B!Fault, B!CreateLog, B!SharesLog, B!Fails
<1>18. CASE B!Panics(r)
  <2>1. /\ r \in torn \/ r \in log'[B!LogName(op[r])]
        /\ \A n \in B!LogNames : log[n] \subseteq log'[n]
    <3>1. PICK seen \in {TRUE, r \notin torn} :
             log' = IF seen THEN [log EXCEPT ![B!LogName(op[r])] = @ \cup {r}] ELSE log
      BY <1>18 DEF B!Panics
    <3>2. B!LogName(op[r]) \in B!LogNames
      BY <1>18, OperationOf DEF B!Panics, B!AtStep
    <3>3. seen \/ r \in torn
      BY <3>1
    <3> QED
      BY <3>1, <3>2, <3>3
  <2>2. q # r /\ at[q] # "none" => B!LogName(op[q]) \in B!LogNames
    BY OperationOf
  <2> QED
    BY <1>18, <2>1, <2>2 DEF B!Panics, B!Goes, B!Fault, B!AtStep, B!Fails
<1>19. CASE B!SendFails(r)
  BY <1>19 DEF B!SendFails, B!Goes, B!Fault, B!AfterClose
<1>20. CASE B!CloseFails(r)
  BY <1>20 DEF B!CloseFails, B!Goes, B!Fault, B!Fails
<1>21. CASE B!Dies(r)
  BY <1>21 DEF B!Dies, B!Goes, B!Fault
<1> QED
  BY <1>1, <1>2, <1>3, <1>4, <1>5, <1>6, <1>7, <1>8, <1>9, <1>10, <1>11, <1>12, <1>13,
      <1>14, <1>15, <1>16, <1>17, <1>18, <1>19, <1>20, <1>21 DEF B!Work, B!GoesWrong

LEMMA RequestsInit == B!Init => RequestsInv
<1> SUFFICES ASSUME B!Init PROVE RequestsInv
  OBVIOUS
<1> USE RequestsAssumption DEF B!Init
<1>1. B!TypeOK
  BY DEF B!TypeOK, B!OperationsAssumption
<1>2. ASSUME NEW r \in B!Requests PROVE RequestOK(r)
  BY DEF RequestOK, Untouched, Made, Ended, PanicKept, Panicked, Died
<1> QED
  BY <1>1, <1>2 DEF RequestsInv

\* What the properties are about only changes in a step of the requests.
LEMMA RequestsInvariant == MCSpec => []RequestsInv
<1>1. MCInit => RequestsInv
  BY RequestsInit DEF MCInit
<1>2. RequestsInv /\ [MCNext]_<<part, vars, requestVars>> => RequestsInv'
  <2> SUFFICES ASSUME RequestsInv, [MCNext]_<<part, vars, requestVars>>
               PROVE  RequestsInv'
    OBVIOUS
  <2>1. CASE B!Next
    BY <2>1, RequestsTypeKept, RequestKept DEF RequestsInv
  <2>2. CASE UNCHANGED requestVars
    <3>1. B!TypeOK'
      BY <2>2 DEF requestVars, RequestsInv, B!TypeOK
    <3>2. ASSUME NEW r \in B!Requests PROVE RequestOK(r)'
      BY <2>2 DEF requestVars, RequestsInv, RequestOK, Untouched, Made, Ended, Left,
                  PanicKept, Panicked, Died
    <3> QED
      BY <3>1, <3>2 DEF RequestsInv
  <2> QED
    BY <2>1, <2>2 DEF MCNext
<1> QED
  BY <1>1, <1>2, PTL DEF MCSpec

\* What a request that is no export leaves behind, however its calls, its integration, its
\* subcommand and the requests beside it end: an answer that is true, no panic that
\* nobody is told of, and no process (mutation_events.go:109, iloader/integration.go:204).
THEOREM OutcomesAreTrue == MCSpec => []OutcomeTrue
<1>1. ASSUME RequestsInv PROVE B!SuccessIsTrue
  <2> SUFFICES ASSUME NEW r \in B!Requests, answer[r] = "success"
               PROVE  /\ pos[r] = Len(op[r].steps)
                      /\ (\E i \in DOMAIN op[r].steps : op[r].steps[i].does = "change")
                           => changed[r]
                      /\ r \notin running
                      /\ <<"panic", r>> \notin faults
    BY DEF B!SuccessIsTrue
  <2>1. at[r] = "done" /\ output[r] = "success" /\ op[r] \in Operations
    BY <1>1, OperationOf DEF RequestsInv, B!TypeOK
  <2>2. problem[r] = "none" /\ pos[r] = Len(op[r].steps) /\ RequestOK(r)
    BY <1>1, <2>1 DEF RequestsInv, RequestOK, Made
  <2>3. op[r] # None /\ \A i \in DOMAIN op[r].steps : i <= pos[r]
    BY <2>1, <2>2, RequestsAssumption DEF B!OperationsAssumption
  <2>4. r \notin running /\ ~ Panicked(r)
    BY <2>1, <2>2 DEF RequestOK, Ended, Left, PanicKept, B!Loaded
  <2> QED
    BY <2>2, <2>3, <2>4 DEF RequestOK, Made, Panicked
<1>2. ASSUME RequestsInv PROVE B!PanicsReported
  BY <1>2 DEF RequestsInv, RequestOK, PanicKept, Panicked, Died, B!PanicsReported, B!Loaded
<1>3. ASSUME RequestsInv PROVE B!EndedWithRequest
  <2> SUFFICES ASSUME NEW r \in running, at[r] = "done", ~ Died(r)
               PROVE  /\ answer[r] = "failure"
                      /\ op[r].kind = "onboard" \/ (op[r].kind = "validate" /\ op[r].git)
    BY DEF B!EndedWithRequest, Died
  <2>1. r \in B!Requests /\ Left(r)
    <3>1. r \in B!Requests
      BY <1>3 DEF RequestsInv, B!TypeOK
    <3> QED
      BY <1>3, <3>1 DEF RequestsInv, RequestOK, Ended, B!Loaded
  <2> QED
    BY <2>1 DEF Left
<1> QED
  BY <1>1, <1>2, <1>3, RequestsInvariant, PTL DEF RequestsInv, OutcomeTrue, B!OutcomeTrue
=============================================================================
