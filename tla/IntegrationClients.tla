------------------------- MODULE IntegrationClients -------------------------
(***************************************************************************)
(* The clients of the integrations, as the module Requests describes them. *)
(* What is not named is returned as an error.                              *)
(***************************************************************************)
EXTENDS Naturals

Base ==
    [name |-> "",
     limits |-> FALSE,        \* the number of requests at a time
     checks |-> FALSE,        \* the quota before some calls
     retries |-> 0,           \* how often a call is tried again for an error
     mostThrottled |-> 0,     \* ... and each time for too many requests
     retry |-> {},            \* what is tried again and counts as a retry
     throttles |-> {},        \* ... and counts as too many requests
     again |-> {},            \* ... and does not count
     pauses |-> {},           \* what is paused for before
     empty |-> {},            \* what is returned as if nothing were there
     panics |-> {},
     oauth |-> "",            \* one manager for all calls, or a token for each user
     refreshCounts |-> FALSE, \* a new token is a retry like others
     renewsOnce |-> FALSE,    \* there is one new token for a call
     loses |-> FALSE]         \* what comes after a new token is not decoded

\* github.  A 502 is retried, other statuses are not.
Github ==
    [Base EXCEPT !.name = "Github", !.limits = TRUE, !.checks = TRUE,
        !.retries = 2, !.mostThrottled = 3,
        !.retry = {"none", "cut", "unavailable"}, !.throttles = {"throttled"},
        !.again = {"abuse"}, !.pauses = {"throttled", "abuse"}]

\* pkg/requests.  With retries there is time for one request: the delay before the next
\* one is cut to what is left of the duration.  What it would have retried it has read
\* and closed, and cannot be read again.
MaxAttempts == 10
MaxDuration == 5     \* in tenths of a second
RetryDelay == 3000
PkgRequests(oauth) ==
    LET delay == IF MaxDuration < RetryDelay THEN MaxDuration ELSE RetryDelay IN
    [Base EXCEPT !.panics = {"none"}, !.oauth = oauth,
        !.retry = {"throttled", "unavailable"},
        !.retries = IF delay < MaxDuration THEN MaxAttempts - 1 ELSE 0]

\* Validation, mutations and webhooks of github, once.
GithubOnce == [PkgRequests("") EXCEPT !.name = "GithubOnce"]
JiraHosted == [PkgRequests("") EXCEPT !.name = "JiraHosted"]
JiraCloud == [PkgRequests("manager") EXCEPT !.name = "JiraCloud", !.renewsOnce = TRUE]

\* gitlab.  Whatever is not forbidden is retried, at once.
Gitlab ==
    [Base EXCEPT !.name = "Gitlab", !.limits = TRUE, !.retries = 2,
        !.retry = {"none", "cut", "throttled", "abuse", "unauthorized", "missing",
                   "unavailable", "error"},
        !.pauses = {"throttled"}]

\* bitbucket.
Bitbucket ==
    [Base EXCEPT !.name = "Bitbucket", !.retries = 2,
        !.retry = {"throttled", "abuse", "forbidden", "unavailable", "error"},
        !.pauses = {"throttled"}, !.empty = {"missing"},
        !.oauth = "manager", !.refreshCounts = TRUE]
\* The error of decoding a page is in another variable than the one that is returned.
BitbucketPages ==
    [Bitbucket EXCEPT !.name = "BitbucketPages", !.empty = {"missing", "garbled", "cut"}]

\* Clients with the retries of an external library, after which these get the rest.
Azure == [Base EXCEPT !.name = "Azure"]
Sonarqube == [Base EXCEPT !.name = "Sonarqube", !.empty = {"cut"}]
Office365 == [Base EXCEPT !.name = "Office365", !.oauth = "user", !.loses = TRUE]
Gcal == [Office365 EXCEPT !.name = "Gcal", !.renewsOnce = TRUE]

AllClients ==
    {Github, GithubOnce, JiraHosted, JiraCloud, Gitlab, Bitbucket, BitbucketPages,
     Azure, Sonarqube, Office365, Gcal}
=============================================================================
