--------------------------- MODULE ExportAnswers ----------------------------
(***************************************************************************)
(* What becomes of an export request: the integrations that are started    *)
(* for it, and what the backend is told (exporter/exporter.go, events.go). *)
(*                                                                         *)
(* One goroutine takes requests from the backend and puts them on the      *)
(* queue; another one exports them in turn.  A request that was not marked *)
(* as done is exported again after a restart.  The export itself is        *)
(* IncrementalExport, the file of the queue FsQueue.                       *)
(***************************************************************************)
EXTENDS Naturals, Sequences, Functions

CONSTANTS
    Bodies,      \* what a request may ask for: sequences of integrations
    Extra,       \* the integrations of the configuration file
    NoToken,
    MaxRequests, \* bound on requests
    MaxFailures  \* bound on steps that fail, and crashes

IsList(s) == s \in Seq(Range(s))
IsIntegration(in) ==
    /\ in = [def |-> in.def, access |-> in.access, refresh |-> in.refresh,
             inclusions |-> in.inclusions]
    /\ IsList(in.inclusions)

\* What is assumed of the constants.
AnswersAssumption ==
    /\ MaxRequests \in Nat /\ MaxFailures \in Nat
    /\ \A body \in Bodies \cup {Extra} :
         IsList(body) /\ \A k \in DOMAIN body : IsIntegration(body[k])

Numbers == 1 .. MaxRequests

VARIABLES
    requests,  \* by number: the integrations, and whether it has an upload url
    status,    \* "new", "rejected", "queued", "done"
    running,   \* the request that is exported, 0 if none is
    step,      \* and where its export is
    started,   \* the integrations that were passed to the subcommand
    delivered, \* requests whose upload is complete
    answers,   \* how often each was answered "completed", with or without success,
               \* and how often publishing failed
    crashes,   \* how often it was interrupted by an end of the process
    failures

vars == <<requests, status, running, step, started, delivered, answers, crashes,
          failures>>

Steps == {"idle", "taken", "announced", "export", "upload", "clean", "succeeded",
          "failed", "answered"}
Answers == {"success", "failure", "lost"}

TypeOK ==
    /\ requests \in [Numbers -> [body: Bodies, url: BOOLEAN]]
    /\ status \in [Numbers -> {"new", "rejected", "queued", "done"}]
    /\ running \in {0} \cup {r \in Numbers : status[r] = "queued"}
    /\ step \in Steps /\ (step = "idle" <=> running = 0)
    /\ \A k \in DOMAIN started :
         DOMAIN started[k] = {"def", "access", "refresh", "inclusions"}
    /\ delivered \subseteq Numbers
    /\ answers \in [Numbers -> [Answers -> 0 .. MaxFailures + 1]]
    /\ crashes \in [Numbers -> 0 .. MaxFailures]
    /\ failures \in 0 .. MaxFailures

Init ==
    /\ requests \in [Numbers -> [body: Bodies, url: BOOLEAN]]
    /\ status = [r \in Numbers |-> "new"]
    /\ running = 0 /\ step = "idle" /\ started = <<>>
    /\ delivered = {}
    /\ answers = [r \in Numbers |-> [a \in Answers |-> 0]]
    /\ crashes = [r \in Numbers |-> 0]
    /\ failures = 0

----------------------------------------------------------------------------
(* The integrations of an export.  A list of them is gone through in its   *)
(* order; what is taken from it is a function from where it was in it.     *)

\* The k-th integration asks for its i-th project at the place <<k, i>>.
Places(ins) == UNION {{<<k, i>> : i \in DOMAIN ins[k].inclusions} : k \in DOMAIN ins}
Project(ins, x) == ins[x[1]].inclusions[x[2]]
Earlier(x, y) == x[1] < y[1] \/ (x[1] = y[1] /\ x[2] < y[2])

\* export: an integration without inclusions is ignored.
Wanted(body) == {k \in DOMAIN body : body[k].inclusions # <<>>}

\* dedupInclusions: a project is left out that was asked for before with the same
\* definition, and an integration that has no others.
Seen(ins, x) ==
    \E y \in Places(ins) :
        /\ Earlier(y, x)
        /\ ins[y[1]].def = ins[x[1]].def /\ Project(ins, y) = Project(ins, x)
Deduped(ins) == {x \in Places(ins) : ~ Seen(ins, x)}
Left(ins) == {x[1] : x \in Deduped(ins)}

\* A bug to catch: access tokens are compared although the refresh token is the same.
AuthToString_Access(in) == <<in.access, in.refresh>>

\* authToString: the access token may differ if the refresh token is the same.
AuthToString(in) == <<IF in.refresh = NoToken THEN in.access ELSE NoToken, in.refresh>>

\* mergeUsers: the first integration with an authorization gets the projects of all.
Same(in1, in2) == in1.def = in2.def /\ AuthToString(in1) = AuthToString(in2)
Firsts(ins) == {k \in Left(ins) : \A j \in Left(ins) : Same(ins[j], ins[k]) => k <= j}
Collected(ins, k) ==
    [x \in {y \in Deduped(ins) : Same(ins[y[1]], ins[k])} |-> Project(ins, x)]
Merged(ins) ==
    [k \in Firsts(ins) |-> [ins[k] EXCEPT !.inclusions = Collected(ins, k)]]

\* Those of the configuration come first, then those of the request, of which the ones
\* that are ignored have no place.
Started(body) == Merged(Extra \o body)

----------------------------------------------------------------------------
Fault == failures < MaxFailures /\ failures' = failures + 1

\* Publishing may fail, which is logged; the backend may have the answer nevertheless.
Publishes(r, a) ==
    \/ /\ answers' = [answers EXCEPT ![r][a] = @ + 1]
       /\ UNCHANGED failures
    \/ /\ Fault
       /\ answers' \in {[answers EXCEPT ![r].lost = @ + 1],
                        [answers EXCEPT ![r].lost = @ + 1, ![r][a] = @ + 1]}

(* Run: the requests, as they come. *)

NewOnes == {r \in Numbers : status[r] = "new"}
Queued == {r \in Numbers : status[r] = "queued"}
First(r, S) == r \in S /\ \A q \in S : r <= q

\* A request that is older than five minutes is answered at once.
Reject(r) ==
    /\ First(r, NewOnes) /\ Publishes(r, "failure")
    /\ status' = [status EXCEPT ![r] = "rejected"]
    /\ UNCHANGED <<requests, running, step, started, delivered, crashes>>

Accept(r) ==
    /\ First(r, NewOnes)
    /\ status' = [status EXCEPT ![r] = "queued"]
    /\ UNCHANGED <<requests, running, step, started, delivered, answers, crashes,
                   failures>>

(* export: one request. *)

Goes(next) == step' = next

\* A bug to catch: nothing is answered when there is nothing to export.
Take_Waits(r) ==
    /\ step = "idle" /\ First(r, Queued)
    /\ Wanted(requests[r].body) # {}
    /\ running' = r /\ Goes("taken")
    /\ UNCHANGED <<requests, status, started, delivered, answers, crashes, failures>>

Take(r) ==
    /\ step = "idle" /\ First(r, Queued)
    /\ running' = r
    /\ Goes(IF Wanted(requests[r].body) = {} THEN "failed" ELSE "taken")
    /\ UNCHANGED <<requests, status, started, delivered, answers, crashes, failures>>

\* sendStartExportEvent
Announce ==
    /\ step = "taken"
    /\ \/ Goes("announced") /\ UNCHANGED failures
       \/ Fault /\ Goes("failed")
    /\ UNCHANGED <<requests, status, running, started, delivered, answers, crashes>>

\* The state is saved or restored, authorizations are decrypted, and what is left of
\* the last upload is removed.
Prepare ==
    /\ step = "announced"
    /\ \/ /\ Goes("export") /\ started' = Started(requests[running].body)
          /\ UNCHANGED failures
       \/ Fault /\ Goes("failed") /\ UNCHANGED started
    /\ UNCHANGED <<requests, status, running, delivered, answers, crashes>>

\* execExport: errors of single integrations do not fail it; a cancellation does.
Export ==
    /\ step = "export"
    /\ \/ Goes("upload") /\ UNCHANGED failures
       \/ Fault /\ Goes("failed")
    /\ UNCHANGED <<requests, status, running, started, delivered, answers, crashes>>

\* That there is nothing to upload is no error.
Upload ==
    /\ step = "upload" /\ requests[running].url
    /\ \/ /\ Goes("clean") /\ delivered' = delivered \cup {running}
          /\ UNCHANGED failures
       \/ /\ Fault /\ Goes("failed")
          /\ delivered' \in {delivered, delivered \cup {running}}
    /\ UNCHANGED <<requests, status, running, started, answers, crashes>>

\* The url is read before it is checked: the service ends, and is started again.
UploadPanics ==
    /\ step = "upload" /\ ~requests[running].url
    /\ running' = 0 /\ Goes("idle")
    /\ UNCHANGED <<requests, status, started, delivered, answers, crashes, failures>>

\* deleteBackupStateDir
Clean ==
    /\ step = "clean"
    /\ \/ Goes("succeeded") /\ UNCHANGED failures
       \/ Fault /\ Goes("failed")
    /\ UNCHANGED <<requests, status, running, started, delivered, answers, crashes>>

\* A bug to catch: an answer whose publishing has failed is published again.
Answer_Again ==
    /\ step \in {"succeeded", "failed"}
    /\ Publishes(running, IF step = "failed" THEN "failure" ELSE "success")
    /\ Goes(IF failures' = failures THEN "answered" ELSE step)
    /\ UNCHANGED <<requests, status, running, started, delivered, crashes>>

Answer ==
    /\ step \in {"succeeded", "failed"}
    /\ Publishes(running, IF step = "failed" THEN "failure" ELSE "success")
    /\ Goes("answered")
    /\ UNCHANGED <<requests, status, running, started, delivered, crashes>>

\* The queue is told, and the request will not be exported again.
Done ==
    /\ step = "answered" /\ Goes("idle") /\ running' = 0
    /\ status' = [status EXCEPT ![running] = "done"]
    /\ UNCHANGED <<requests, started, delivered, answers, crashes, failures>>

\* The process ends, and is started again.
Crash ==
    /\ running # 0 /\ Fault
    /\ crashes' = [crashes EXCEPT ![running] = @ + 1]
    /\ running' = 0 /\ Goes("idle")
    /\ UNCHANGED <<requests, status, started, delivered, answers>>

Exporting ==
    \/ \E r \in Numbers : Take(r)
    \/ Announce \/ Prepare \/ Export \/ Upload \/ UploadPanics \/ Clean \/ Answer
    \/ Done

Next == Exporting \/ Crash \/ \E r \in Numbers : Reject(r) \/ Accept(r)

\* The goroutine that exports goes on; an export ends, as does publishing, which has a
\* deadline of fifteen minutes.
Fairness == WF_vars(Exporting)
Spec == Init /\ [][Next]_vars
FairSpec == Spec /\ Fairness

----------------------------------------------------------------------------
(* Properties. *)

\* Two integrations that use the same account.
SameAccount(a, b) ==
    /\ a.def = b.def
    /\ a.refresh = b.refresh
    /\ a.refresh = NoToken => a.access = b.access

\* Every project that a request, or the configuration, asks for is exported by one of
\* the integrations that are started, once, with the authorization of one that asked
\* for it; and nothing else is (exporter.go:295, 336).
EachProjectOnce ==
    step = "export" =>
        LET asked == Extra \o requests[running].body
            Asks(ins, k, def, p) == ins[k].def = def /\ p \in Range(ins[k].inclusions)
            Projects(ins) == UNION {{<<ins[k].def, p>> : p \in Range(ins[k].inclusions)}
                                        : k \in DOMAIN ins}
            places == UNION {{<<k, i>> : i \in DOMAIN started[k].inclusions}
                                : k \in DOMAIN started}
            At(place) == <<started[place[1]].def, started[place[1]].inclusions[place[2]]>>
        IN /\ Projects(started) = Projects(asked)
           /\ \A x, y \in places : At(x) = At(y) => x = y
           /\ \A x \in places : \E k \in DOMAIN asked :
                 /\ Asks(asked, k, At(x)[1], At(x)[2])
                 /\ SameAccount(asked[k], started[x[1]])

\* No two of them use the same account: they would share its rate limit, and export its
\* users twice (exporter.go:336).
AccountsApart ==
    \A j, k \in DOMAIN started : SameAccount(started[j], started[k]) => j = k

\* What is started for a request is what it asks for (exporter.go:295); the types with it.
StartedRight == TypeOK /\ EachProjectOnce /\ AccountsApart

\* A request is answered once, and again only if the process was interrupted in
\* between; when it is taken from the queue it was answered, or publishing has failed
\* (exporter.go:108).
AnsweredOnce ==
    \A r \in Numbers :
        LET a == answers[r]
        IN /\ a.success + a.failure <= 1 + crashes[r]
           /\ status[r] \in {"rejected", "done"} => a.success + a.failure + a.lost > 0

\* Success is answered when the upload is complete, and then no failure without a new
\* attempt (exporter.go:139).
SuccessIsDelivered ==
    \A r \in Numbers : answers[r].success > 0 =>
        r \in delivered /\ (answers[r].failure > 0 => crashes[r] > 0)

\* The backend is told of each request, once, and what has become of it.
AnswersTrue == AnsweredOnce /\ SuccessIsDelivered

\* Each request is taken from the queue, whatever fails, unless it or one before has no
\* upload url: the service meets that one again after each restart.
ExportRequestsEnd ==
    \A r \in Numbers :
        status[r] = "queued" /\ (\A q \in 1 .. r : requests[q].url) ~> status[r] = "done"
=============================================================================
