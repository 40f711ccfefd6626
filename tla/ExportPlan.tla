----------------------------- MODULE ExportPlan -----------------------------
(***************************************************************************)
(* The Export of an integration, or what it does for one project: requests *)
(* to the service, the sessions it opens, fills and ends, and the          *)
(* goroutines that help it, any step of which may fail.  When it has       *)
(* returned, the agent ends the export, which fails when a session was     *)
(* left with a file.                                                       *)
(*                                                                         *)
(* The order of the steps and what each does with an error is data: `plan' *)
(* is one of the descriptions of the module IntegrationPlans.  What a pool *)
(* of projects does is the subject of ProjectPool; here it is one step.    *)
(***************************************************************************)
EXTENDS Naturals, Sequences, FiniteSets

CONSTANTS Plans,      \* the descriptions, see PlanType
          Sessions,   \* their sessions
          MaxFaults   \* bound on steps that fail

\* A step, the session it is about, the session by whose checkpoint its objects are
\* listed again (`under'), and what may happen on an error.
Ops == {"ask",      \* requests, or another call without a session
        "git",      \* the repository is handed to the agent
        "open",     \* a session that the function has to end itself
        "context",  \* a session of the project, which the pool ends
        "fill",     \* a list of objects is sent to the session
        "end", "defer",
        "pool",     \* projects are processed, which may send to the session
        "start",    \* the helpers begin
        "give",     \* something is sent on the channel
        "close",    \* the channel is closed
        "receive",  \* until the channel is closed: take something, and send it
        "answer",   \* the result is sent on the channel of errors
        "take",     \* ... which is read
        "wait",     \* until the helpers have ended, but for one that answers
        "finish"}   \* the end of each thread
Errors == {"return",  \* the function returns it
           "log",     \* it is logged, and what the step should do is left out
           "stop",    \* the function goes on as if it had done all
           "close",   \* the channel is closed first
           "leave"}   \* it is logged, and the session is not ended
Threads == {"main", "first", "second", "third"}
NoSession == "none"
Steps == [op : Ops, session : Sessions \cup {NoSession},
          under : Sessions \cup {NoSession}, errors : SUBSET Errors]

\* project: what is done for a project.  room: of the channel.  waits: who sends an
\* error waits for its reader.  The others are what is known to go wrong.  leaves:
\* sessions that may be left with a file.  misses: sessions that may be ended
\* although objects are left out.  leaks: a goroutine may go on after the function
\* has returned.  hangs: it may never return.
IsPlan(p) ==
    /\ DOMAIN p = {"threads", "project", "room", "waits",
                   "leaves", "misses", "leaks", "hangs"}
    /\ DOMAIN p.threads = Threads
    /\ \A t \in Threads :
        /\ p.threads[t] \in Seq(Steps) /\ Len(p.threads[t]) > 0
        /\ p.threads[t][Len(p.threads[t])].op = "finish"
    /\ {p.project, p.waits, p.leaks, p.hangs} \subseteq BOOLEAN /\ p.room \in Nat
    /\ p.leaves \subseteq Sessions /\ p.misses \subseteq Sessions

PlansAssumption == (\A p \in Plans : IsPlan(p)) /\ MaxFaults \in Nat

VARIABLES
    plan,      \* the plan of this behaviour
    at,        \* the step that each thread is at, 0 before it is started
    failed,    \* threads that leave with an error
    queue,     \* things in the channel
    closed,    \* the channel is closed
    answer,    \* in the channel of errors: "none", "ok", "error"
    state,     \* of each session: "none", "open", "ended", "removed"
    context,   \* open sessions that the pool ends
    deferred,  \* who ends which sessions when it is at its end
    written,   \* sessions that have a file
    missing,   \* sessions that lack objects
    result,    \* "none", "ok", "error"
    export,    \* the agent's verdict: "none", "accepted", "refused"
    faults     \* steps that failed

channels == <<queue, closed, answer>>
files == <<state, context, deferred, written, missing>>
vars == <<plan, at, failed, channels, files, result, export, faults>>

----------------------------------------------------------------------------
Step(t) == plan.threads[t][at[t]]
At(t, op) == at[t] > 0 /\ Step(t).op = op /\ export = "none"
Ended(t) == at[t] = Len(plan.threads[t])
To(t, n) == at' = [at EXCEPT ![t] = n]
Advance(t) == To(t, at[t] + 1)
Helpers == {t \in Threads : t # "main" /\ at[t] > 0}

Answers(t) == \E n \in 1 .. Len(plan.threads[t]) : plan.threads[t][n].op = "answer"

\* The next of some steps of the thread.
Ahead(t, ops) ==
    CHOOSE n \in (at[t] + 1) .. Len(plan.threads[t]) :
        /\ plan.threads[t][n].op \in ops
        /\ \A m \in (at[t] + 1) .. (n - 1) : plan.threads[t][m].op \notin ops

\* A thread leaves with an error, which it tells if somebody is to read it.
Leave(t) ==
    /\ failed' = failed \cup {t}
    /\ To(t, Ahead(t, {"answer", "finish"}))

Fault == faults < MaxFaults /\ faults' = faults + 1

\* Where a thread goes after an error.
Goes(t) ==
    \/ /\ "return" \in Step(t).errors
       /\ Leave(t)
    \/ /\ "log" \in Step(t).errors
       /\ Advance(t) /\ UNCHANGED failed
    \/ /\ "stop" \in Step(t).errors
       /\ To(t, Ahead(t, {"git", "finish"})) /\ UNCHANGED failed
    \/ /\ "close" \in Step(t).errors
       /\ To(t, Ahead(t, {"close"})) /\ failed' = failed \cup {t}
    \/ /\ "leave" \in Step(t).errors
       /\ To(t, at[t] + 2) /\ UNCHANGED failed

\* What was not sent is not sent by the next export either, if the session that
\* decides what is listed then is ended.
Lacks(t) ==
    missing' = missing \cup ({Step(t).session, Step(t).under} \ {NoSession})

Init ==
    /\ plan \in Plans
    /\ at = [t \in Threads |-> IF t = "main" THEN 1 ELSE 0]
    /\ failed = {}
    /\ queue = 0 /\ closed = FALSE /\ answer = "none"
    /\ state = [s \in Sessions |-> "none"]
    /\ context = {} /\ deferred = {}
    /\ written = {} /\ missing = {}
    /\ result = "none" /\ export = "none" /\ faults = 0

----------------------------------------------------------------------------
(* Steps of a thread that do not wait. *)

Ask(t) ==
    /\ At(t, "ask") \/ At(t, "git")
    /\ \/ Advance(t) /\ UNCHANGED <<failed, missing, faults>>
       \/ Fault /\ Lacks(t) /\ Goes(t)
    /\ UNCHANGED <<plan, channels, state, context, deferred, written, result, export>>

Open(t) ==
    /\ \/ At(t, "open") /\ UNCHANGED context
       \/ At(t, "context") /\ context' = context \cup {Step(t).session}
    /\ state' = [state EXCEPT ![Step(t).session] = "open"]
    /\ Advance(t)
    /\ UNCHANGED <<plan, failed, channels, deferred, written, missing, result,
                   export, faults>>

OpenFails(t) ==
    /\ At(t, "open") \/ At(t, "context")
    /\ Fault
    /\ Lacks(t)
    /\ Leave(t)
    /\ UNCHANGED <<plan, channels, state, context, deferred, written, result, export>>

Defer(t) ==
    /\ At(t, "defer")
    /\ deferred' = deferred \cup {<<t, Step(t).session>>}
    /\ Advance(t)
    /\ UNCHANGED <<plan, failed, channels, state, context, written, missing, result,
                   export, faults>>

\* A list of objects, none or many, is fetched and sent to the session.  When it
\* fails some may have been written.
Fill(t) ==
    /\ At(t, "fill")
    /\ LET s == Step(t).session IN
        /\ state[s] = "open"
        /\ \/ /\ written' \in {written, written \cup {s}}
              /\ Advance(t)
              /\ UNCHANGED <<missing, failed, faults>>
           \/ /\ Fault
              /\ written' \in {written, written \cup {s}}
              /\ Lacks(t)
              /\ Goes(t)
    /\ UNCHANGED <<plan, channels, state, context, deferred, result, export>>

\* Done: what is buffered is written, and the file moves to the uploads.
End(t) ==
    /\ At(t, "end")
    /\ \/ /\ state' = [state EXCEPT ![Step(t).session] = "ended"]
          /\ Advance(t)
          /\ UNCHANGED <<failed, faults>>
       \/ Fault /\ Leave(t) /\ UNCHANGED state
    /\ UNCHANGED <<plan, channels, context, deferred, written, missing, result, export>>

\* The projects are processed; those that fail are rolled back and nothing of them
\* is missing.  Of the objects that projects share, a session may lack those that
\* a failing project was about to send and has marked as sent.
Pool(t) ==
    /\ At(t, "pool")
    /\ LET shared == {Step(t).session} \ {NoSession} IN
        /\ written' \in {written, written \cup shared}
        /\ \/ Advance(t) /\ UNCHANGED <<missing, failed, faults>>
           \/ Fault /\ Leave(t) /\ UNCHANGED missing
           \/ /\ Fault /\ shared # {}
              /\ Advance(t) /\ UNCHANGED failed
              /\ missing' = missing \cup shared
    /\ UNCHANGED <<plan, channels, state, context, deferred, result, export>>

Start ==
    /\ At("main", "start")
    /\ at' = [t \in Threads |->
                IF t = "main" THEN at[t] + 1
                ELSE IF Len(plan.threads[t]) > 1 THEN 1 ELSE 0]
    /\ UNCHANGED <<plan, failed, channels, files, result, export, faults>>

----------------------------------------------------------------------------
(* The channels. *)

\* Without room the other side has to be there.
Give(t) ==
    /\ At(t, "give")
    /\ ~ closed
    /\ \/ queue < plan.room
       \/ plan.room = 0 /\ queue = 0 /\ \E h \in Threads : At(h, "receive")
    /\ queue' = queue + 1
    /\ Advance(t)
    /\ UNCHANGED <<plan, failed, closed, answer, files, result, export, faults>>

\* A bug to catch: a channel is left open when the one who gives has failed.
Close_Forgotten(t) ==
    /\ At(t, "close")
    /\ closed' = (t \notin failed)
    /\ Advance(t)
    /\ UNCHANGED <<plan, failed, queue, answer, files, result, export, faults>>

Close(t) ==
    /\ At(t, "close")
    /\ closed' = TRUE
    /\ Advance(t)
    /\ UNCHANGED <<plan, failed, queue, answer, files, result, export, faults>>

\* What was received is sent to the session, or kept for later.
Receive(t) ==
    /\ At(t, "receive")
    /\ queue > 0
    /\ queue' = queue - 1
    /\ LET sent == {Step(t).session} \ {NoSession} IN
       \/ written' \in {written, written \cup sent}
          /\ UNCHANGED <<at, failed, missing, faults>>
       \/ /\ sent # {}
          /\ Fault
          /\ Lacks(t)
          /\ Leave(t)
          /\ UNCHANGED written
    /\ UNCHANGED <<plan, closed, answer, state, context, deferred, result, export>>

ReceiveEnds(t) ==
    /\ At(t, "receive")
    /\ queue = 0 /\ closed
    /\ Advance(t)
    /\ UNCHANGED <<plan, failed, channels, files, result, export, faults>>

Answer(t) ==
    /\ At(t, "answer")
    /\ plan.waits => \E r \in Threads : At(r, "take")
    /\ answer' = IF t \in failed THEN "error" ELSE "ok"
    /\ Advance(t)
    /\ UNCHANGED <<plan, failed, queue, closed, files, result, export, faults>>

\* The error of a helper is returned or lost.  Who has failed itself does not read it.
Take(t) ==
    /\ At(t, "take")
    /\ \/ t \in failed /\ Advance(t) /\ UNCHANGED failed
       \/ t \notin failed /\ answer = "error" /\ Goes(t)
       \/ t \notin failed /\ answer = "ok" /\ Advance(t) /\ UNCHANGED failed
    /\ UNCHANGED <<plan, channels, files, result, export, faults>>

Wait ==
    /\ At("main", "wait")
    /\ \A t \in Helpers : Ended(t) \/ Answers(t)
    /\ Advance("main")
    /\ UNCHANGED <<plan, failed, channels, files, result, export, faults>>

----------------------------------------------------------------------------
(* The ends. *)

\* Deferred calls of Done, whose errors nobody sees.
EndDeferred(t) ==
    /\ At(t, "finish")
    /\ \E s \in Sessions :
        /\ <<t, s>> \in deferred
        /\ deferred' = deferred \ {<<t, s>>}
        /\ state' = [state EXCEPT ![s] = "ended"]
    /\ UNCHANGED <<plan, at, failed, channels, context, written, missing, result,
                   export, faults>>

\* A bug to catch: the sessions of a project that failed stay as they are.
Return_Open ==
    /\ At("main", "finish")
    /\ result = "none"
    /\ \A s \in Sessions : <<"main", s>> \notin deferred
    /\ result' = IF "main" \in failed THEN "error" ELSE "ok"
    /\ state' = [s \in Sessions |->
                    IF s \in context /\ "main" \notin failed THEN "ended" ELSE state[s]]
    /\ context' = {}
    /\ UNCHANGED <<plan, at, failed, channels, deferred, written, missing, export,
                   faults>>

\* Its own deferred calls come first; the pool ends the sessions of the project, or
\* removes them when it failed.
Return ==
    /\ At("main", "finish")
    /\ result = "none"
    /\ \A s \in Sessions : <<"main", s>> \notin deferred
    /\ result' = IF "main" \in failed THEN "error" ELSE "ok"
    /\ state' = [s \in Sessions |->
                    IF s \in context
                    THEN IF "main" \in failed THEN "removed" ELSE "ended"
                    ELSE state[s]]
    /\ context' = {}
    /\ UNCHANGED <<plan, at, failed, channels, deferred, written, missing, export,
                   faults>>

LeftOpen == {s \in written : state[s] = "open"}

\* The agent ends the export, whatever the integration returned, and later the
\* integration: what still runs does not matter any more.
CheckFiles ==
    /\ result # "none" /\ export = "none"
    /\ export' = IF LeftOpen = {} THEN "accepted" ELSE "refused"
    /\ UNCHANGED <<plan, at, failed, channels, files, result, faults>>

ThreadStep(t) ==
    \/ Ask(t) \/ Open(t) \/ OpenFails(t) \/ Defer(t) \/ Fill(t) \/ End(t) \/ Pool(t)
    \/ Give(t) \/ Close(t) \/ Receive(t) \/ ReceiveEnds(t) \/ Answer(t) \/ Take(t)
    \/ EndDeferred(t)
MainStep == Start \/ Wait \/ Return \/ CheckFiles
Next == MainStep \/ \E t \in Threads : ThreadStep(t)

\* Each goroutine goes on while it can.
Fairness == WF_vars(MainStep) /\ \A t \in Threads : WF_vars(ThreadStep(t))
Spec == Init /\ [][Next]_vars /\ Fairness

----------------------------------------------------------------------------
(* What is required of a plan, so that nothing is left whatever fails. *)

Main(p) == p.threads["main"]
Opens(step, s) == step.op \in {"open", "context"} /\ step.session = s
Ends(step, s) == step.op \in {"end", "defer"} /\ step.session = s
Writes(step, s) == step.op \in {"fill", "pool", "receive"} /\ step.session = s
\* Objects of the session are left out when the step fails.
Touches(step, s) ==
    /\ step.op \in {"ask", "git", "open", "context", "fill", "receive"}
    /\ s \in {step.session, step.under}

\* Each step can be taken: it is about a session, helpers start once, and what an error
\* leads to exists.  An error of the function itself ends it.
Possible(p) ==
    /\ \A t \in Threads : \A n \in DOMAIN p.threads[t] :
         LET step == p.threads[t][n]
         IN /\ step.op \in {"open", "context", "fill", "end", "defer"}
                => step.session \in Sessions
            /\ step.op = "finish" <=> n = Len(p.threads[t])
            /\ "close" \in step.errors =>
                 \E m \in (n + 1) .. Len(p.threads[t]) : p.threads[t][m].op = "close"
            /\ "leave" \in step.errors => n + 2 <= Len(p.threads[t])
    /\ \A n \in DOMAIN Main(p) :
         Main(p)[n].op # "answer" /\ "close" \notin Main(p)[n].errors
    /\ \A m, n \in DOMAIN Main(p) :
         Main(p)[m].op = "start" /\ Main(p)[n].op = "start" => m = n

\* From its step n on the function can only go on to where it waits for the helpers.
Steady(step) ==
    \/ step.op \in {"give", "close"}
    \/ step.op \in {"ask", "git", "fill"} /\ step.errors = {"log"}
Joins(p, n) ==
    \E w \in n .. Len(Main(p)) :
        /\ Main(p)[w].op = "wait"
        /\ \A m \in n .. (w - 1) : Steady(Main(p)[m])

\* The function does not return before the helper has ended.
Awaited(p, t) ==
    /\ \A n \in DOMAIN p.threads[t] : p.threads[t][n].op # "answer"
    /\ \A n \in DOMAIN Main(p) : Main(p)[n].op = "start" => Joins(p, n + 1)

Quiet(p) ==
    \A t \in Threads \ {"main"} :
        /\ Awaited(p, t)
        /\ \A n \in DOMAIN p.threads[t] : p.threads[t][n].op # "defer"

\* The function opens the session itself, and ends it unless it returns an error.
Closes(p, s) ==
    /\ ~ p.project
    /\ \A t \in Threads : \A n \in DOMAIN p.threads[t] :
         Opens(p.threads[t][n], s) =>
            /\ t = "main" /\ p.threads[t][n].op = "open"
            /\ \E m \in (n + 1) .. Len(Main(p)) : Ends(Main(p)[m], s)
    /\ \A n \in DOMAIN Main(p) :
         /\ "stop" \in Main(p)[n].errors =>
              \A m \in (n + 1) .. Len(Main(p)) : ~ Ends(Main(p)[m], s)
         /\ "leave" \in Main(p)[n].errors => ~ Ends(Main(p)[n + 1], s)

\* The helper may open the session after the function has returned, but then nothing
\* was given to it and nothing will be.
Late(p, s, t, n) ==
    /\ p.room = 0
    /\ \A u \in Threads : \A m \in DOMAIN p.threads[u] :
         LET step == p.threads[u][m]
         IN /\ step.op = "receive" => u = t /\ m > n
            /\ step.op = "give" => u = "main" \/ Awaited(p, u)
            /\ step.op \in {"fill", "pool"} => step.session # s

\* The pool ends the session.
Pools(p, s) ==
    \A t \in Threads : \A n \in DOMAIN p.threads[t] :
        Opens(p.threads[t][n], s) =>
            /\ p.threads[t][n].op = "context"
            /\ t = "main" \/ Awaited(p, t) \/ Late(p, s, t, n)

Unused(p, s) ==
    \A t \in Threads : \A n \in DOMAIN p.threads[t] : ~ Writes(p.threads[t][n], s)

\* When objects of the session are left out the function fails, and does not end it.
Fails(p, s) ==
    \A t \in Threads : \A n \in DOMAIN p.threads[t] :
        LET step == p.threads[t][n]
        IN /\ Touches(step, s) => t = "main" /\ step.errors \subseteq {"return"}
           /\ step.op \in {"pool", "defer"} => step.session # s
           /\ step.op = "end" /\ step.session = s =>
                t = "main" /\ \A m \in (n + 1) .. Len(Main(p)) : ~ Touches(Main(p)[m], s)

Settles(p) ==
    /\ Possible(p)
    /\ p.leaks \/ Quiet(p)
    /\ \A s \in Sessions \ p.leaves : Closes(p, s) \/ Pools(p, s) \/ Unused(p, s)
    /\ \A s \in Sessions \ p.misses : Fails(p, s)

----------------------------------------------------------------------------
(* Properties. *)

TypeOK ==
    /\ plan \in Plans
    /\ at \in [Threads -> Nat] /\ \A t \in Threads : at[t] <= Len(plan.threads[t])
    /\ failed \subseteq Threads
    /\ queue \in 0 .. plan.room + 1 /\ closed \in BOOLEAN
    /\ answer \in {"none", "ok", "error"}
    /\ state \in [Sessions -> {"none", "open", "ended", "removed"}]
    /\ context \subseteq Sessions /\ deferred \subseteq Threads \X Sessions
    /\ written \subseteq Sessions /\ missing \subseteq Sessions
    /\ result \in {"none", "ok", "error"}
    /\ export \in {"none", "accepted", "refused"}
    /\ faults \in 0 .. MaxFaults

\* An integration that returns no error has ended each session that has a file, so
\* that the agent does not refuse the whole export (cmdexport/export.go); and what
\* is done for a project leaves none even when it fails, since the pool only rolls
\* its own sessions back.  The exceptions are those that the plan names.
NothingLeft ==
    export = "refused" =>
        (result = "error" /\ ~ plan.project) \/ LeftOpen \subseteq plan.leaves

\* An export that the agent accepts has not moved the checkpoint of a session past
\* objects that were not sent; and when there was no error, nothing is left out.  The
\* exceptions are those that the plan names.
AcceptedIsComplete ==
    export = "accepted" =>
        {s \in missing : result = "ok" \/ state[s] = "ended"} \subseteq plan.misses

\* When the function has returned, its goroutines have too, so that they do not use
\* sessions that are already rolled back, or the next project's.
QuietAfterReturn ==
    result # "none" =>
        plan.leaks \/ \A t \in Helpers : Ended(t) /\ \A s \in Sessions : <<t, s>> \notin deferred

\* What an export leaves behind: no session, no gap, and nothing that runs on.
SessionsSettled == TypeOK /\ NothingLeft /\ AcceptedIsComplete /\ QuietAfterReturn

\* The integration returns, and the agent ends the export.
Returns == <>(export # "none" \/ plan.hangs)
=============================================================================
