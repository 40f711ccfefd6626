------------------------------ MODULE Requests ------------------------------
(***************************************************************************)
(* Calls of the integrations to the apis of the services: what a client    *)
(* does with each answer.  It may try again, at once or after a pause that *)
(* the backend is told of, get a new oauth token first, return the error,  *)
(* or return nothing as if it were an answer.  Calls share the token, the  *)
(* slots that limit how many run, and what the backend knows of pauses.    *)
(*                                                                         *)
(* The service answers as it likes, for as long as it likes, and refuses   *)
(* tokens that have expired and others: what bounds the number of requests *)
(* is what the clients count, and two of them do not count everything (see *)
(* CallsEnd).  The clients are records, see IntegrationClients.            *)
(***************************************************************************)
EXTENDS Naturals, FiniteSets

CONSTANTS
    Clients,     \* records, as IntegrationClients describes them
    Calls,       \* calls that are made at the same time
    Slots,       \* how many of them may run in a client that limits them
    MaxExpiries  \* bound on how often a token expires

\* What comes back: an answer, one that cannot be decoded, one that breaks off, none
\* at all, an http status, or github's messages for too many requests.
Outcomes == {"ok", "garbled", "cut", "none", "throttled", "abuse", "unauthorized",
             "forbidden", "missing", "unavailable", "error"}
\* Those that another request may not meet.
Transient == {"cut", "none", "throttled", "abuse", "unavailable"}

RequestsAssumption ==
    /\ Slots \in Nat \ {0} /\ MaxExpiries \in Nat /\ IsFiniteSet(Calls)
    /\ \A c \in Clients :
        /\ c.retry \cup c.again \cup c.throttles \cup c.pauses \cup c.panics \cup c.empty
             \subseteq Outcomes
        /\ c.retries \in Nat /\ c.mostThrottled \in Nat
        /\ c.oauth \in {"", "manager", "user"}

VARIABLES
    client,    \* whose calls these are
    phase,     \* of each call: "idle", "checking" the quota, "waiting" for a slot,
               \* "sent", "paused", "refreshing", "done", "failed", "panicked"
    then,      \* the phase after the pause
    retried,   \* how often it was tried again for an error
    throttled, \* ... and since then for too many requests
    renewed,   \* it was tried again with a new token
    outcome,   \* of a call that has ended
    data,      \* the answer was returned
    fresh,     \* of each holder of a token: it is valid
    recent,    \* ... it is less than a minute old
    accepted,  \* the service will accept the token that the request has
    refused,   \* no new token could be got for the call
    denied,    \* history: the service refused a token of the call that had not expired
    expiries,
    announced  \* the backend was last told of a pause

counts == <<retried, throttled, renewed>>
tokens == <<fresh, recent, accepted, expiries>>
result == <<outcome, data, refused, denied>>
vars == <<client, phase, then, counts, result, tokens, announced>>

\* One token for all calls, or one for those of each user.
Holder(w) == IF client.oauth = "user" THEN w ELSE "all"
Holders == Calls \cup {"all"}

Ended == {"done", "failed", "panicked"}
Phases == {"idle", "checking", "waiting", "sent", "paused", "refreshing"} \cup Ended

TypeOK ==
    /\ client \in Clients
    /\ phase \in [Calls -> Phases]
    /\ then \in [Calls -> {"", "checking", "waiting", "sent"}]
    /\ retried \in [Calls -> 0 .. client.retries]
    /\ throttled \in [Calls -> 0 .. client.mostThrottled]
    /\ renewed \in [Calls -> BOOLEAN] /\ data \in [Calls -> BOOLEAN]
    /\ accepted \in [Calls -> BOOLEAN] /\ refused \in [Calls -> BOOLEAN]
    /\ denied \in [Calls -> BOOLEAN]
    /\ outcome \in [Calls -> Outcomes \cup {""}]
    /\ fresh \in [Holders -> BOOLEAN] /\ recent \in [Holders -> BOOLEAN]
    /\ expiries \in 0 .. MaxExpiries
    /\ announced \in BOOLEAN

\* A client that uses oauth gets its token when it is made.
Init ==
    /\ client \in Clients
    /\ phase = [w \in Calls |-> "idle"] /\ then = [w \in Calls |-> ""]
    /\ retried = [w \in Calls |-> 0] /\ throttled = [w \in Calls |-> 0]
    /\ renewed = [w \in Calls |-> FALSE]
    /\ outcome = [w \in Calls |-> ""] /\ data = [w \in Calls |-> FALSE]
    /\ fresh = [h \in Holders |-> TRUE] /\ recent = [h \in Holders |-> TRUE]
    /\ accepted = [w \in Calls |-> TRUE] /\ refused = [w \in Calls |-> FALSE]
    /\ denied = [w \in Calls |-> FALSE]
    /\ expiries = 0 /\ announced = FALSE

----------------------------------------------------------------------------
(* The parts of an action. *)

Goes(w, to) == phase' = [phase EXCEPT ![w] = to]
Ends(w, how, o) ==
    /\ Goes(w, how)
    /\ outcome' = [outcome EXCEPT ![w] = o]
    /\ data' = [data EXCEPT ![w] = how = "done" /\ o = "ok"]

\* With the token of now.
Sends(w) ==
    /\ Goes(w, "sent")
    /\ accepted' = [accepted EXCEPT ![w] = fresh[Holder(w)]]

\* The backend is told, and the call sleeps.
Pauses(w, next) ==
    /\ Goes(w, "paused")
    /\ then' = [then EXCEPT ![w] = next]
    /\ announced' = TRUE

\* Again, after a pause if there is one for this answer.
Again(w, o) ==
    IF o \in client.pauses
    THEN Pauses(w, "sent") /\ UNCHANGED accepted
    ELSE Sends(w) /\ UNCHANGED <<then, announced>>

----------------------------------------------------------------------------
(* The calls. *)

\* github looks at its quota before every hundredth call.
Call(w) ==
    /\ phase[w] = "idle"
    /\ Goes(w, "waiting") \/ (client.checks /\ Goes(w, "checking"))
    /\ UNCHANGED <<client, then, counts, result, tokens, announced>>

\* This request has no slot.  What it says, or that it fails, delays the call.
CheckQuota(w, o) ==
    /\ phase[w] = "checking"
    /\ IF o \in client.again THEN Pauses(w, "checking")
       ELSE \/ Goes(w, "waiting") /\ UNCHANGED <<then, announced>>
            \/ o = "ok" /\ Pauses(w, "waiting")
    /\ UNCHANGED <<client, counts, result, tokens>>

InSlot == {w \in Calls : phase[w] \in {"sent", "refreshing"}
                         \/ (phase[w] = "paused" /\ then[w] = "sent")}
Take(w) ==
    /\ phase[w] = "waiting"
    /\ client.limits => Cardinality(InSlot) < Slots
    /\ Sends(w)
    /\ UNCHANGED <<client, then, counts, result, fresh, recent, expiries, announced>>

\* A bug to catch: a pause ends unannounced.
Resume_Unannounced(w) ==
    /\ phase[w] = "paused"
    /\ IF then[w] = "sent" THEN Sends(w) ELSE Goes(w, then[w]) /\ UNCHANGED accepted
    /\ then' = [then EXCEPT ![w] = ""]
    /\ UNCHANGED <<client, counts, result, fresh, recent, expiries, announced>>

Resume(w) ==
    /\ phase[w] = "paused"
    /\ IF then[w] = "sent" THEN Sends(w) ELSE Goes(w, then[w]) /\ UNCHANGED accepted
    /\ then' = [then EXCEPT ![w] = ""]
    /\ announced' = FALSE
    /\ UNCHANGED <<client, counts, result, fresh, recent, expiries>>

\* An answer that is taken for one, with the data or as if there were none.  After a
\* refresh gcal and office365 decode it into the request, which cannot be done.
Accepted(w, o) ==
    /\ o \in client.empty \cup {"ok"}
    /\ IF renewed[w] /\ client.loses THEN Ends(w, "failed", o) ELSE Ends(w, "done", o)
    /\ UNCHANGED <<then, counts, refused, denied, tokens, announced>>

\* A bug to catch: the retries are not counted.
Retried_Uncounted(w, o) ==
    /\ o \in client.retry
    /\ Again(w, o)
    /\ UNCHANGED <<counts, outcome, data, refused, denied, fresh, recent,
                   expiries>>

Retried(w, o) ==
    /\ o \in client.retry
    /\ IF retried[w] = client.retries
       THEN Ends(w, "failed", o) /\ UNCHANGED <<then, counts, accepted, announced>>
       ELSE /\ retried' = [retried EXCEPT ![w] = @ + 1]
            /\ throttled' = [throttled EXCEPT ![w] = 0]
            /\ Again(w, o)
            /\ UNCHANGED <<renewed, outcome, data>>
    /\ UNCHANGED <<refused, denied, fresh, recent, expiries>>

\* Too many requests, which github counts for themselves; what it takes for abuse it
\* does not count.
Throttled(w, o) ==
    /\ o \in client.throttles \cup client.again
    /\ IF o \in client.throttles /\ throttled[w] = client.mostThrottled
       THEN Ends(w, "failed", o) /\ UNCHANGED <<then, counts, accepted, announced>>
       ELSE /\ throttled' = [throttled EXCEPT ![w] =
                                IF o \in client.throttles \/ @ < client.mostThrottled
                                THEN @ + 1 ELSE @]
            /\ Again(w, o)
            /\ UNCHANGED <<retried, renewed, outcome, data>>
    /\ UNCHANGED <<refused, denied, fresh, recent, expiries>>

\* The token has expired, or the service refuses it all the same: its access was revoked,
\* or is not enough for the request.  The client cannot tell which.
Unauthorized(w) ==
    /\ denied' = [denied EXCEPT ![w] = @ \/ accepted[w]]
    /\ IF renewed[w] /\ client.renewsOnce
       THEN Ends(w, "failed", "unauthorized")
       ELSE Goes(w, "refreshing") /\ UNCHANGED <<outcome, data>>
    /\ UNCHANGED <<then, counts, refused, tokens, announced>>

Failed(w, o) ==
    /\ o \notin client.empty \cup client.retry \cup client.throttles \cup client.again
                  \cup client.panics \cup {"ok"}
    /\ Ends(w, "failed", o)
    /\ UNCHANGED <<then, counts, refused, denied, tokens, announced>>

\* The response that is not there is read.
Panics(w, o) ==
    /\ o \in client.panics
    /\ Ends(w, "panicked", o)
    /\ UNCHANGED <<then, counts, refused, denied, tokens, announced>>

\* Of a token that has expired the service says nothing else.
Answered(w, o) ==
    /\ phase[w] = "sent"
    /\ IF client.oauth # ""
       THEN \/ o = "unauthorized" /\ Unauthorized(w)
            \/ /\ o # "unauthorized" /\ (accepted[w] \/ o \in {"none", "cut"})
               /\ \/ Accepted(w, o) \/ Retried(w, o) \/ Throttled(w, o)
                  \/ Failed(w, o) \/ Panics(w, o)
       ELSE \/ Accepted(w, o) \/ Retried(w, o) \/ Throttled(w, o)
            \/ Failed(w, o) \/ Panics(w, o)
    /\ UNCHANGED client

----------------------------------------------------------------------------
(* Tokens. *)

\* A bug to catch: the new token is not kept.
Refresh_NotKept(w) ==
    LET h == Holder(w) IN
    /\ phase[w] = "refreshing"
    /\ \/ /\ recent' = [recent EXCEPT ![h] = TRUE]
          /\ IF client.refreshCounts /\ retried[w] = client.retries
             THEN Ends(w, "failed", "unauthorized") /\ UNCHANGED <<retried, renewed, accepted>>
             ELSE /\ renewed' = [renewed EXCEPT ![w] = TRUE]
                  /\ retried' = [retried EXCEPT ![w] =
                                    IF client.refreshCounts THEN @ + 1 ELSE @]
                  /\ Sends(w) /\ UNCHANGED <<outcome, data>>
          /\ UNCHANGED refused
       \/ /\ \E how \in {"failed", "panicked"} : Ends(w, how, "unauthorized")
          /\ refused' = [refused EXCEPT ![w] = TRUE]
          /\ UNCHANGED <<retried, renewed, recent, accepted>>
    /\ UNCHANGED <<client, then, throttled, denied, fresh, expiries, announced>>

\* The manager has a lock, and keeps a token that it has got less than a minute ago:
\* another call has just refreshed it.  The request for a new one may fail, and takes
\* the agent with it when there is no response.  Then the call is tried again; for
\* bitbucket that is a retry like others.
Refresh(w) ==
    LET h == Holder(w) IN
    /\ phase[w] = "refreshing"
    /\ \/ /\ \/ client.oauth = "manager" /\ recent[h] /\ UNCHANGED <<fresh, recent>>
             \/ /\ client.oauth = "user" \/ ~ recent[h]
                /\ fresh' = [fresh EXCEPT ![h] = TRUE]
                /\ recent' = [recent EXCEPT ![h] = TRUE]
          /\ IF client.refreshCounts /\ retried[w] = client.retries
             THEN Ends(w, "failed", "unauthorized") /\ UNCHANGED <<retried, renewed, accepted>>
             ELSE /\ renewed' = [renewed EXCEPT ![w] = TRUE]
                  /\ retried' = [retried EXCEPT ![w] =
                                    IF client.refreshCounts THEN @ + 1 ELSE @]
                  /\ Goes(w, "sent")
                  /\ accepted' = [accepted EXCEPT ![w] = fresh'[h]]
                  /\ UNCHANGED <<outcome, data>>
          /\ UNCHANGED refused
       \/ /\ client.oauth = "user" \/ ~ recent[h]
          /\ \E how \in {"failed", "panicked"} : Ends(w, how, "unauthorized")
          /\ refused' = [refused EXCEPT ![w] = TRUE]
          /\ UNCHANGED <<retried, renewed, fresh, recent, accepted>>
    /\ UNCHANGED <<client, then, throttled, denied, expiries, announced>>

\* A token is valid for more than a minute.  Requests that have it are not accepted
\* any more.
Expire(h) ==
    /\ client.oauth # "" /\ fresh[h] /\ ~ recent[h]
    /\ h \in {Holder(w) : w \in Calls}
    /\ expiries < MaxExpiries /\ expiries' = expiries + 1
    /\ fresh' = [fresh EXCEPT ![h] = FALSE]
    /\ accepted' = [w \in Calls |-> accepted[w] /\ Holder(w) # h]
    /\ UNCHANGED <<client, phase, then, counts, result, recent, announced>>

MinutePasses(h) ==
    /\ client.oauth # "" /\ recent[h]
    /\ h \in {Holder(w) : w \in Calls}
    /\ recent' = [recent EXCEPT ![h] = FALSE]
    /\ UNCHANGED <<client, phase, then, counts, result, fresh, accepted, expiries, announced>>

----------------------------------------------------------------------------
Next ==
    \/ \E w \in Calls :
        \/ Call(w) \/ Take(w) \/ Resume(w) \/ Refresh(w)
        \/ \E o \in Outcomes : CheckQuota(w, o) \/ Answered(w, o)
    \/ \E h \in Holders : Expire(h) \/ MinutePasses(h)

\* Every request is answered, and not always by calling it abuse.
Answers(w) == \E o \in Outcomes \ client.again : CheckQuota(w, o) \/ Answered(w, o)
Fairness ==
    \A w \in Calls : /\ SF_vars(Take(w)) /\ SF_vars(Answers(w))
                     /\ WF_vars(Resume(w)) /\ WF_vars(Refresh(w))
                     /\ WF_vars(\E o \in Outcomes : CheckQuota(w, o) \/ Answered(w, o))
Spec == Init /\ [][Next]_vars /\ Fairness

----------------------------------------------------------------------------
(* Properties. *)

\* A call that returns without an error returns what the service has.  bitbucket's
\* clients return nothing instead for what is not found, and for a page that cannot be
\* decoded or breaks off, which ends the listing; sonarqube's for an answer that breaks
\* off before it begins (bitbucket/api/requester.go:153, 163; sonarqube/api/common.go:126).
Complete ==
    \A w \in Calls : phase[w] = "done" /\ ~ data[w] =>
        \/ client.name = "BitbucketPages" /\ outcome[w] \in {"missing", "garbled", "cut"}
        \/ client.name = "Bitbucket" /\ outcome[w] = "missing"
        \/ client.name = "Sonarqube" /\ outcome[w] = "cut"

\* A call is not given up for what another request may not meet before it has been
\* tried as often as allowed: three times, four each for too many requests to github.
\* Clients built on pkg/requests never try again, although nine retries are allowed:
\* the retries end after half a second, and the delay before the first is longer
\* (requests.go:112).  bitbucket does not try again without an answer.
GivenUpLate ==
    \A w \in Calls : phase[w] = "failed" /\ outcome[w] \in Transient =>
        \/ client.retries > 0 /\ retried[w] = client.retries
        \/ outcome[w] \in client.throttles /\ throttled[w] = client.mostThrottled
        \/ renewed[w] /\ client.loses
        \/ client.name = "GithubOnce" /\ outcome[w] # "none"
        \/ client.name \in {"JiraCloud", "JiraHosted"} /\ outcome[w] # "none"
        \/ client.name \in {"BitbucketPages", "Bitbucket"} /\ outcome[w] \in {"none", "cut"}
        \/ client.name \in {"Azure", "Sonarqube", "Gcal", "Office365"}

\* Only the clients built on pkg/requests panic, when there is no response
\* (requests.go:186), and whoever asks for a token, which is the agent.
PanicsWithoutResponse ==
    \A w \in Calls : phase[w] = "panicked" =>
        \/ outcome[w] = "none" /\ client.name \in {"GithubOnce", "JiraCloud", "JiraHosted"}
        \/ refused[w]

\* A token that expires once fails no call, whichever calls meet it at the same time:
\* one of them gets a new one and all are tried again.  The exceptions: no new token
\* is to be had, the retries were used up by other errors (bitbucket), gcal and office365,
\* where the call that gets the new token fails because of that, and a second expiry, or
\* a token that is refused although it is valid, which jira does not get another one for.
ExpiryFailsNoCall ==
    \A w \in Calls : phase[w] = "failed" /\ (outcome[w] = "unauthorized" \/ renewed[w]) =>
        \/ client.oauth = ""
        \/ refused[w]
        \/ outcome[w] \notin {"unauthorized", "ok"}
        \/ client.refreshCounts /\ retried[w] = client.retries
        \/ client.loses
        \/ client.renewsOnce /\ (expiries > 1 \/ denied[w])

\* However calls interleave, each returns what the service has, or fails for a reason.
EndsForAReason ==
    TypeOK /\ Complete /\ GivenUpLate /\ PanicsWithoutResponse /\ ExpiryFailsNoCall

\* When no call sleeps the backend has been told that the integration goes on.  The
\* converse is not so: the first call that wakes up says it for all.
Resumed == (\A w \in Calls : phase[w] # "paused") => ~ announced

\* A call ends, whatever the service answers, and gives its slot to another.  Two clients
\* may go on for as long as they get one answer, which they do not count: github's while
\* they are told to wait for what is taken for abuse (requests.go:299), which the fairness
\* leaves out, and office365's, which then gets one new token after the other, while each
\* is refused (api/common.go:97-101).  A call that has begun is never idle again.
CallsEnd ==
    \A w \in Calls :
        []<>(\/ phase[w] \in Ended \cup {"idle"}
             \/ client.name = "Office365" /\ phase[w] = "refreshing")
=============================================================================
