---------------------------- MODULE MCSubcommand ----------------------------
(* Small instances for TLC of what the service runs subcommands for: of    *)
(* Subcommand, an export and its cancellation, or else of BackendRequests, *)
(* the other requests.  The two share no state: `part' tells which of them *)
(* a behaviour is of, and the other one stays as it is.                    *)
EXTENDS Subcommand, Sequences

CONSTANTS MaxRequests, MaxFaults

VARIABLES part, op, at, pos, changed, problem, running, log, torn, reported,
          output, answer, service, faults

requestVars == <<op, at, pos, changed, problem, running, log, torn, reported,
                 output, answer, service, faults>>

I == INSTANCE IntegrationRequests

\* All operations of the integrations.
Operations ==
    I!GithubValidations \cup I!GitlabValidations \cup I!AzureValidations
    \cup {I!BitbucketValidation, I!JiraCloudValidation, I!JiraHostedValidation,
          I!SonarqubeValidation, I!GcalValidation, I!Office365Validation}
    \cup I!GithubOnboarding \cup I!GitlabOnboarding \cup I!BitbucketOnboarding
    \cup I!JiraCloudOnboarding \cup I!JiraHostedOnboarding
    \cup I!AzureOnboarding \cup I!SonarqubeOnboarding
    \cup I!GcalOnboarding \cup I!Office365Onboarding
    \cup I!JiraMutations("jira-cloud", I!AssignUserCloud)
    \cup I!JiraMutations("jira-hosted", I!AssignUserOnPremise)
    \cup I!GithubMutations
    \cup {I!NoMutation(t) : t \in {"gitlab", "bitbucket", "azure"}}
    \cup {I!IssueComment, I!PullRequest, I!Push, I!OtherEvent, I!UnnamedEvent}

\* Two that use the log file of github's id 0, and two that use the one of
\* an id of azure.
Together ==
    {o \in I!AzureOnboarding : o.handler \in {"workconfig", "calendars"}}
    \cup {o \in I!GithubMutations : Len(o.steps) = 3}
    \cup {o \in I!GithubValidations : o.git /\ Len(o.steps) = 4}

B == INSTANCE BackendRequests

ASSUME RequestsAssumption == B!OperationsAssumption

MCInit == Init /\ B!Init /\ part \in {"exports", "requests"}

MCNext ==
    \/ part = "exports" /\ Next /\ UNCHANGED <<part, requestVars>>
    \/ part = "requests" /\ B!Next /\ UNCHANGED <<part, vars>>

MCSpec ==
    /\ MCInit /\ [][MCNext]_<<part, vars, requestVars>>
    /\ WF_vars(part = "exports" /\ ExporterStep)
    /\ WF_vars(part = "exports" /\ CancellerStep)
    /\ B!Fairness

\* The properties of BackendRequests, which speaks of them.
OutcomeTrue == B!OutcomeTrue
RequestsEnd == B!RequestsEnd
=============================================================================
