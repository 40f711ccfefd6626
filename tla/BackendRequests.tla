-------------------------- MODULE BackendRequests ---------------------------
(***************************************************************************)
(* The requests of the backend that are not exports, side by side: each    *)
(* subscription of the service (validate, mutate, webhook and the four of  *)
(* the onboarding) answers one request after the other, by a subcommand    *)
(* that starts the integration, calls it once and ends it.                 *)
(*                                                                         *)
(*   cmdrunnorestarts/*_events.go    the handlers and their answers        *)
(*   subcommand/command.go           the process, its files and result     *)
(*   cmdvalidateconfig, cmdexportonboarddata, cmdmutate, cmdwebhook        *)
(*   iloader/integration.go          the integration and its log file      *)
(*                                                                         *)
(* A panic of an integration is found in its log file when it is ended.    *)
(* The file is named after the integration and the id in the request, and  *)
(* is created anew by everybody who starts an integration of that name.    *)
(***************************************************************************)
EXTENDS Naturals, Sequences, FiniteSets

CONSTANTS
    Operations,  \* what requests ask for: see IntegrationRequests
    Together,    \* bound: the operations of requests side by side
    MaxRequests, \* bound: requests
    MaxFaults,   \* bound: what goes wrong beside calls that fail
    None         \* no operation

\* A call of an integration, and how it tells of a failure.
Call == [does : {"read", "change", "refuse"}, error : {"rpc", "result", "logged"}]

\* The one that instantiates this module assumes it.  A failure that is only written to
\* the log is never one of a change.
OperationsAssumption ==
    /\ None \notin Operations
    /\ \A o \in Operations :
         /\ o.steps \in Seq(Call)
         /\ \A i \in DOMAIN o.steps :
              o.steps[i].error = "logged" => o.steps[i].does = "read"

Requests == 1..MaxRequests
FaultKinds == {"params", "create", "load", "panic", "dies", "send", "close"}

VARIABLES
    op,        \* by request: its operation, or None
    at,        \* by request: where it is
    pos,       \* by request: the steps of its operation that were done
    changed,   \* by request: whether something was changed for it
    problem,   \* by request: "none", or the way in which it failed
    running,   \* the requests whose integration is running
    log,       \* by name of a log file: the panics that can be read there
    torn,      \* the requests whose log file was created again meanwhile
    reported,  \* the requests whose panic was sent to the backend
    output,    \* by request: the result file of the subcommand
    answer,    \* by request: what the backend was told
    service,   \* whether the service is "up"
    faults     \* what went wrong, and for which request

vars == <<op, at, pos, changed, problem, running, log, torn, reported, output,
          answer, service, faults>>

\* An integration that is only to be validated or changed has not got an id.
LogName(o) == <<o.type, CASE o.kind \in {"validate", "mutate"} -> "0"
                          [] o.kind = "webhook" -> "id1"
                          [] o.kind = "onboard" -> "conf">>
LogNames == {LogName(o) : o \in Operations}

SharesLog(r, q) == q # r /\ op[q] # None /\ LogName(op[q]) = LogName(op[r])

\* From the start of an integration to its end by the subcommand.
Loaded == {"steps", "returned", "close"}

Fault(kind, r) ==
    /\ Cardinality(faults) < MaxFaults
    /\ faults' = faults \cup {<<kind, r>>}

Goes(r, there) == at' = [at EXCEPT ![r] = there]
Fails(r, how) == problem' = [problem EXCEPT ![r] = how]

-----------------------------------------------------------------------------
Init ==
    /\ op = [r \in Requests |-> None]
    /\ at = [r \in Requests |-> "none"]
    /\ pos = [r \in Requests |-> 0]
    /\ changed = [r \in Requests |-> FALSE]
    /\ problem = [r \in Requests |-> "none"]
    /\ running = {}
    /\ log = [n \in LogNames |-> {}]
    /\ torn = {}
    /\ reported = {}
    /\ output = [r \in Requests |-> "none"]
    /\ answer = [r \in Requests |-> "none"]
    /\ service = "up"
    /\ faults = {}

\* The next request, which its subscription has time for.
Arrives(r, o) ==
    /\ at[r] = "none" /\ \A q \in Requests : q < r => at[q] # "none"
    /\ r > 1 => {o} \cup {op[q] : q \in 1..(r - 1)} \subseteq Together
    /\ \A q \in Requests :
         at[q] \notin {"none", "done"} => op[q].handler # o.handler
    /\ op' = [op EXCEPT ![r] = o]

Receive(r, o) ==
    /\ Arrives(r, o)
    /\ Goes(r, "params")
    /\ UNCHANGED <<pos, changed, problem, running, log, torn, reported, output,
                   answer, service, faults>>

\* Too old, or not to be understood: a mutation is always answered, an old
\* event, a validation and an onboarding are not.
Reject(r, o) ==
    /\ Arrives(r, o)
    /\ Goes(r, "done")
    /\ \E a \in CASE o.kind = "mutate" -> {"failure"}
                  [] o.kind = "webhook" -> {"failure", "nothing"}
                  [] OTHER -> {"nothing"} :
         answer' = [answer EXCEPT ![r] = a]
    /\ UNCHANGED <<pos, changed, problem, running, log, torn, reported, output,
                   service, faults>>

-----------------------------------------------------------------------------
(* The subcommand                                                          *)

\* The parameter files, the other files and the process.
Start(r) ==
    /\ at[r] = "params"
    /\ Goes(r, "load")
    /\ UNCHANGED <<op, pos, changed, problem, running, log, torn, reported,
                   output, answer, service, faults>>

\* A parameter file cannot be written: the deferred Clean of what was not made
\* is a panic of the service.
StartPanics(r) ==
    /\ at[r] = "params"
    /\ Fault("params", r)
    /\ service' = "panicked"
    /\ UNCHANGED <<op, at, pos, changed, problem, running, log, torn, reported,
                   output, answer>>

\* Another file cannot be created, or the process does not start.
StartFails(r) ==
    /\ at[r] = "params"
    /\ Fault("create", r)
    /\ Goes(r, "exited")
    /\ UNCHANGED <<op, pos, changed, problem, running, log, torn, reported,
                   output, answer, service>>

\* The log file is created, over the one that another request may be using.
CreateLog(r) ==
    /\ log' = [log EXCEPT ![LogName(op[r])] = {}]
    /\ torn' = torn \cup {q \in Requests : SharesLog(r, q) /\ at[q] \in Loaded}

Load(r) ==
    /\ at[r] = "load"
    /\ CreateLog(r)
    /\ running' = running \cup {r}
    /\ Goes(r, "steps")
    /\ UNCHANGED <<op, pos, changed, problem, reported, output, answer, service,
                   faults>>

\* No binary, or one that does not answer: a result for a validation only.
LoadFails(r) ==
    /\ at[r] = "load"
    /\ Fault("load", r)
    /\ CreateLog(r)
    /\ Fails(r, "rpc")
    /\ Goes(r, IF op[r].kind = "validate" THEN "output" ELSE "exited")
    /\ UNCHANGED <<op, pos, changed, running, reported, output, answer, service>>

-----------------------------------------------------------------------------
(* The integration                                                         *)

Step(r) == op[r].steps[pos[r] + 1]
AtStep(r) == at[r] = "steps" /\ pos[r] < Len(op[r].steps)

StepDone(r) ==
    /\ AtStep(r)
    /\ Step(r).does # "refuse"
    /\ changed' = [changed EXCEPT ![r] = @ \/ Step(r).does = "change"]
    /\ pos' = [pos EXCEPT ![r] = @ + 1]
    /\ UNCHANGED <<op, at, problem, running, log, torn, reported, output,
                   answer, service, faults>>

\* How an error gets to the subcommand.  The one of an onboarding stays in the
\* result only if the list is not supported.
OverRPC(r) ==
    IF op[r].kind = "onboard" /\ Step(r).does # "refuse"
    THEN "rpc" ELSE Step(r).error

\* A call fails.  A change may have been made, and its answer been lost.
StepFails(r) ==
    /\ AtStep(r)
    /\ \E done \in {FALSE, Step(r).does = "change"} :
         changed' = [changed EXCEPT ![r] = @ \/ done]
    /\ IF Step(r).error = "logged"
       THEN /\ pos' = [pos EXCEPT ![r] = @ + 1]
            /\ UNCHANGED <<at, problem>>
       ELSE /\ Fails(r, OverRPC(r))
            /\ Goes(r, "returned")
            /\ UNCHANGED pos
    /\ UNCHANGED <<op, running, log, torn, reported, output, answer, service,
                   faults>>

\* A panic.  In a file that was created again it may follow on a hole, and is
\* not found.
Panics(r) ==
    /\ AtStep(r)
    /\ Fault("panic", r)
    /\ running' = running \ {r}
    /\ \E seen \in {TRUE, r \notin torn} :
         log' = IF seen THEN [log EXCEPT ![LogName(op[r])] = @ \cup {r}] ELSE log
    /\ Fails(r, "rpc")
    /\ Goes(r, "returned")
    /\ UNCHANGED <<op, pos, changed, torn, reported, output, answer, service>>

Returns(r) ==
    /\ at[r] = "steps" /\ pos[r] = Len(op[r].steps)
    /\ Goes(r, "returned")
    /\ UNCHANGED <<op, pos, changed, problem, running, log, torn, reported,
                   output, answer, service, faults>>

-----------------------------------------------------------------------------
(* What the subcommand does with the answer                                *)

\* A list that is not supported: the integration is left running.
LeaveRunning(r) ==
    /\ at[r] = "returned"
    /\ op[r].kind = "onboard" /\ problem[r] = "result"
    /\ Goes(r, "output")
    /\ UNCHANGED <<op, pos, changed, problem, running, log, torn, reported,
                   output, answer, service, faults>>

\* cloneRepo is called.
TestsClone(r) == op[r].kind = "validate" /\ op[r].git /\ problem[r] = "none"

\* The clone url is not valid: the integration is left running, too.  The clone
\* itself is not tried.
CloneFails(r) ==
    /\ at[r] = "returned" /\ TestsClone(r)
    /\ Fails(r, "result")
    /\ Goes(r, "output")
    /\ UNCHANGED <<op, pos, changed, running, log, torn, reported, output,
                   answer, service, faults>>

\* The call has returned, and the clone url, if there is one, is valid.
Returned(r) ==
    /\ at[r] = "returned"
    /\ ~(op[r].kind = "onboard" /\ problem[r] = "result")
    /\ Goes(r, "close")
    /\ UNCHANGED <<op, pos, changed, problem, running, log, torn, reported,
                   output, answer, service, faults>>

\* A bug to catch: git processing is waited for although it was not told that
\* nothing else comes.
AfterClose_Waits(r, how) == IF op[r].kind = "webhook" THEN "git" ELSE "output"

\* The webhook is the only one that exports git repos meanwhile, and waits for
\* them unless the call failed.
AfterClose(r, how) ==
    IF op[r].kind = "webhook" /\ how # "rpc" THEN "git" ELSE "output"

\* The integration is killed, and the panics in its log file are sent.
Close(r) ==
    /\ at[r] = "close"
    /\ running' = running \ {r}
    /\ reported' = reported \cup log[LogName(op[r])]
    /\ Goes(r, AfterClose(r, problem[r]))
    /\ UNCHANGED <<op, pos, changed, problem, log, torn, output, answer,
                   service, faults>>

\* They cannot be sent: this is only logged.
SendFails(r) ==
    /\ at[r] = "close" /\ log[LogName(op[r])] # {}
    /\ Fault("send", r)
    /\ running' = running \ {r}
    /\ Goes(r, AfterClose(r, problem[r]))
    /\ UNCHANGED <<op, pos, changed, problem, log, torn, reported, output,
                   answer, service>>

\* The log file cannot be closed: a failure, whatever the call has done.
CloseFails(r) ==
    /\ at[r] = "close"
    /\ Fault("close", r)
    /\ running' = running \ {r}
    /\ reported' = reported \cup log[LogName(op[r])]
    /\ Fails(r, "rpc")
    /\ Goes(r, "output")
    /\ UNCHANGED <<op, pos, changed, log, torn, output, answer, service>>

\* The git repos are exported.  A call that failed has left without telling
\* that there are no more.
GitDone(r) ==
    /\ at[r] = "git" /\ problem[r] # "rpc"
    /\ \E how \in {problem[r]} \cup IF op[r].git THEN {"result"} ELSE {} :
         Fails(r, how)
    /\ Goes(r, "output")
    /\ UNCHANGED <<op, pos, changed, running, log, torn, reported, output,
                   answer, service, faults>>

\* A bug to catch: only an error of the call is a failure.
Result_IgnoresResult(r) == IF problem[r] = "rpc" THEN "failure" ELSE "success"

Result(r) == IF problem[r] = "none" THEN "success" ELSE "failure"

WriteOutput(r) ==
    /\ at[r] = "output"
    /\ output' = [output EXCEPT ![r] = Result(r)]
    /\ Goes(r, "exited")
    /\ UNCHANGED <<op, pos, changed, problem, running, log, torn, reported,
                   answer, service, faults>>

\* The subcommand is killed or panics.  Only an interrupt ends its integration.
Dies(r) ==
    /\ at[r] \in Loaded \cup {"load", "git", "output"}
    /\ Fault("dies", r)
    /\ running' \in {running, running \ {r}}
    /\ Goes(r, "exited")
    /\ UNCHANGED <<op, pos, changed, problem, log, torn, reported, output,
                   answer, service>>

\* The handler, without a result: onboarding requests are not answered then.
NoResult(r) == IF op[r].kind = "onboard" THEN "nothing" ELSE "failure"

Finish(r) ==
    /\ at[r] = "exited"
    /\ answer' = [answer EXCEPT ![r] =
                    IF output[r] = "none" THEN NoResult(r) ELSE output[r]]
    /\ Goes(r, "done")
    /\ UNCHANGED <<op, pos, changed, problem, running, log, torn, reported,
                   output, service, faults>>

-----------------------------------------------------------------------------
Work(r) ==
    \/ Start(r) \/ Load(r)
    \/ StepDone(r) \/ StepFails(r) \/ Returns(r)
    \/ LeaveRunning(r) \/ CloneFails(r) \/ Returned(r)
    \/ Close(r) \/ GitDone(r) \/ WriteOutput(r) \/ Finish(r)

GoesWrong(r) ==
    \/ StartPanics(r) \/ StartFails(r) \/ LoadFails(r)
    \/ Panics(r) \/ SendFails(r) \/ CloseFails(r) \/ Dies(r)

Next ==
    /\ service = "up"
    /\ \E r \in Requests :
         \/ \E o \in Operations : Receive(r, o) \/ Reject(r, o)
         \/ Work(r)
         \/ GoesWrong(r)

Spec == Init /\ [][Next]_vars

\* Subcommands and integrations are scheduled, and the calls to the services
\* end.  Nothing is assumed of what comes in and of what goes wrong.
Fairness == \A r \in Requests : WF_vars(service = "up" /\ Work(r))
FairSpec == Spec /\ Fairness

-----------------------------------------------------------------------------
(* Properties                                                              *)

\* Every variable keeps to its type; a request is answered when it is done,
\* and not before, and one that was answered as a success has a result.
TypeOK ==
    /\ op \in [Requests -> Operations \cup {None}]
    /\ at \in [Requests -> Loaded \cup {"none", "params", "load", "git",
                                        "output", "exited", "done"}]
    /\ pos \in [Requests -> Nat] /\ changed \in [Requests -> BOOLEAN]
    /\ problem \in [Requests -> {"none", "rpc", "result"}]
    /\ running \subseteq Requests /\ torn \subseteq Requests
    /\ reported \subseteq Requests
    /\ log \in [LogNames -> SUBSET Requests]
    /\ output \in [Requests -> {"none", "success", "failure"}]
    /\ answer \in [Requests -> {"none", "success", "failure", "nothing"}]
    /\ service \in {"up", "panicked"}
    /\ faults \subseteq FaultKinds \X Requests
    /\ \A r \in Requests :
         /\ op[r] = None <=> at[r] = "none"
         /\ answer[r] # "none" <=> at[r] = "done"
         /\ answer[r] = "success" => output[r] = "success"

\* The backend is told of a success only if every call was made, what was to be
\* changed was changed, and the integration was ended without a panic
\* (mutation_events.go:109, integration_events.go:88, webhook_events.go:119).
SuccessIsTrue ==
    \A r \in Requests : answer[r] = "success" =>
        /\ pos[r] = Len(op[r].steps)
        /\ (\E i \in DOMAIN op[r].steps : op[r].steps[i].does = "change")
             => changed[r]
        /\ r \notin running
        /\ <<"panic", r>> \notin faults

\* A panic of an integration is reported by the time its request is answered,
\* unless its log file was created again by another request, the subcommand
\* died, or the report could not be sent (iloader/integration.go:204).
PanicsReported ==
    \A r \in Requests : at[r] = "done" /\ <<"panic", r>> \in faults =>
        \/ r \in reported \cup torn
        \/ <<"dies", r>> \in faults
        \/ <<"send", r>> \in faults

\* An integration is still running after its request only if the subcommand
\* died, a list was not supported or a clone url not valid
\* (cmdexportonboarddata/export.go:90, cmdvalidateconfig/validate.go:130).
EndedWithRequest ==
    \A r \in running : at[r] = "done" =>
        \/ <<"dies", r>> \in faults
        \/ answer[r] = "failure" /\ op[r].kind = "onboard"
        \/ answer[r] = "failure" /\ op[r].kind = "validate" /\ op[r].git

\* What a request leaves behind, however the calls, the integration, the subcommand and
\* the requests beside it end: an answer that is true, no panic that nobody is told of,
\* and no process.
OutcomeTrue == TypeOK /\ SuccessIsTrue /\ PanicsReported /\ EndedWithRequest

\* The handler of a subscription gets to its next request, however the calls,
\* the integration and the subcommand end, unless the service itself panics.
RequestsEnd ==
    \A r \in Requests : at[r] # "none" ~> at[r] = "done" \/ service = "panicked"
=============================================================================
