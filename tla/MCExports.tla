----------------------------- MODULE MCExports ------------------------------
(* Small instances for TLC of what an export consists of: the listings of  *)
(* the integrations, of Listing, their plans, of ExportPlan, and the       *)
(* requests of ExportAnswers.                                              *)
(* The three share no state.  ListingSpec is of the first, MCSpec of one   *)
(* of the others, as `part' tells; what they are not of stays as it is.    *)
EXTENDS Listing, Sequences

CONSTANTS Plans, Sessions, MaxStops
CONSTANTS Bodies, Extra, NoToken, MaxRequests, MaxFailures

VARIABLES part, plan, at, failed, queue, closed, answer, state, context, deferred,
          written, missing, result, export, faults
VARIABLES requests, status, running, step, started, delivered, answers, crashes, failures

planVars == <<plan, at, failed, queue, closed, answer, state, context, deferred,
              written, missing, result, export, faults>>
answerVars == <<requests, status, running, step, started, delivered, answers, crashes,
                failures>>
allVars == <<part, vars, planVars, answerVars>>

D == INSTANCE IntegrationListings
P == INSTANCE ExportPlan WITH MaxFaults <- MaxStops
I == INSTANCE IntegrationPlans
A == INSTANCE ExportAnswers

MCPlans ==
    {I!GithubExport, I!GithubOrgUsers, I!GithubRepo,
     I!GitlabUsersEmails, I!GitlabExport, I!GitlabRepo, I!GitlabProject,
     I!BitbucketExport, I!BitbucketRepo,
     I!JiraCloudExport, I!JiraHostedExport, I!JiraProject,
     I!AzureCodeExport, I!AzureWorkExport, I!AzureRepo, I!AzureProject,
     I!SonarqubeExport,
     I!GcalExport, I!Office365Export, I!CalendarEvents}

MCSessions ==
    {"users", "users2", "repos", "repos2", "group", "commitusers", "pulls", "prcommits",
     "comments", "reviews", "issues", "sprints", "statuses", "projects", "boards",
     "types", "priorities", "org", "metrics", "metrics2", "calendars", "events"}

----------------------------------------------------------------------------
\* A host in UTC, one behind it and one ahead of it.
MCZones == -1 .. 1
MCListings == D!AllListings(MCZones)

ASSUME PlansAssumption == P!PlansAssumption
ASSUME AnswersAssumption == A!AnswersAssumption
\* Every listing of the integrations is written soundly.
ASSUME SoundAssumption == \A l \in Listings : Sound(l)
\* Every plan is written so that it leaves nothing.
ASSUME SettlesAssumption == \A p \in Plans : P!Settles(p)

----------------------------------------------------------------------------
\* Two accounts of a definition, one of them with a token that is renewed; another
\* definition; a project twice; and no project at all.
Integration(def, access, refresh, inclusions) ==
    [def |-> def, access |-> access, refresh |-> refresh, inclusions |-> inclusions]
MCIntegrations ==
    {Integration("code", "a1", "r1", <<"p", "q">>),
     Integration("code", "a2", "r1", <<"q", "s", "q">>),
     Integration("code", "a1", NoToken, <<"s", "p">>),
     Integration("work", "a1", NoToken, <<"p">>),
     Integration("work", "a2", NoToken, <<>>)}
MCBodies ==
    UNION {[1 .. n -> MCIntegrations] : n \in 0 .. 2}
MCLater == {<<>>, <<Integration("work", "a1", NoToken, <<"p">>)>>}
MCExtra == <<Integration("code", "a1", NoToken, <<"x">>)>>

NoRequests == [r \in 1 .. MaxRequests |-> [body |-> <<>>, url |-> TRUE]]

MCInit ==
    /\ \/ /\ part = "plans" /\ requests = NoRequests
       \/ /\ part = "requests" /\ plan = I!GithubExport
    /\ A!Init /\ P!Init
    /\ part = "requests" =>
         \A r \in 2 .. MaxRequests : requests[r].url /\ requests[r].body \in MCLater
    /\ listing = D!GithubRepos /\ unsent = {} /\ Init

MCNext ==
    \/ part = "plans" /\ P!Next /\ UNCHANGED <<part, vars, answerVars>>
    \/ part = "requests" /\ A!Next /\ UNCHANGED <<part, planVars, vars>>

\* What is fair in each part.
MCFairness ==
    /\ WF_planVars(part = "plans" /\ P!MainStep)
    /\ \A t \in P!Threads : WF_planVars(part = "plans" /\ P!ThreadStep(t))
    /\ WF_answerVars(part = "requests" /\ A!Exporting)
MCSpec == MCInit /\ [][MCNext]_allVars /\ MCFairness

ListingInit ==
    /\ part = "listing" /\ Init
    /\ requests = NoRequests /\ A!Init
    /\ plan = I!GithubExport /\ P!Init
ListingNext == Next /\ UNCHANGED <<part, answerVars, planVars>>
ListingSpec == ListingInit /\ [][ListingNext]_allVars /\ WF_vars(ExportStep)

\* The properties of ExportPlan and ExportAnswers, which speak of them.
SessionsSettled == P!SessionsSettled
PlanReturns == part = "plans" => P!Returns
StartedRight == A!StartedRight
AnswersTrue == A!AnswersTrue
ExportRequestsEnd == A!ExportRequestsEnd
=============================================================================
