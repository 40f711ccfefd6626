------------------------ MODULE IntegrationRequests -------------------------
(***************************************************************************)
(* What the integrations do for the requests of the backend that are not   *)
(* exports: the calls they make to their service, in order, and how they   *)
(* tell of a call that failed.                                             *)
(*                                                                         *)
(*   ValidateConfig   is the configuration right; the clone url of a repo  *)
(*   OnboardExport    the repos, projects, calendars or states to choose   *)
(*                    from                                                 *)
(*   Mutate           change an issue or a pull request                    *)
(*   Webhook          read again what an event of the service is about     *)
(*                                                                         *)
(* A list that is read page by page, or once per org, is one step.  A      *)
(* failure is returned as an error of the call ("rpc"), is put into its    *)
(* result ("result"), or is only written to the log ("logged").            *)
(***************************************************************************)
EXTENDS Sequences

Read(error) == [does |-> "read", error |-> error]
Change(error) == [does |-> "change", error |-> error]
Refuse(error) == [does |-> "refuse", error |-> error]

Validation(type, steps, clones) ==
    [kind |-> "validate", handler |-> "validate", type |-> type,
     steps |-> steps, git |-> clones]
Onboarding(list, type, steps) ==
    [kind |-> "onboard", handler |-> list, type |-> type,
     steps |-> steps, git |-> FALSE]
Mutation(type, steps) ==
    [kind |-> "mutate", handler |-> "mutate", type |-> type,
     steps |-> steps, git |-> FALSE]
\* Events are taken for those of github, whatever they are of.
Event(steps, exportsGit) ==
    [kind |-> "webhook", handler |-> "webhook", type |-> "github",
     steps |-> steps, git |-> exportsGit]

\* The configuration is checked; with oauth this asks the backend for a token.
Configured(error) == <<Read(error)>>

-----------------------------------------------------------------------------
(* Validation.  If there is a repo, its clone url is in the answer.        *)

\* The version of an enterprise server may be missing.
GithubVersions == {<< >>, <<Read("logged")>>}
GithubTokenScopes == <<Read("result")>>
\* Without an org no personal repo is looked for.
GithubValidations ==
    LET Start(v) == Configured("result") \o v \o GithubTokenScopes
                    \o <<Read("result")>>
    IN  {Validation("github", Start(v), FALSE) : v \in GithubVersions}
        \cup {Validation("github", Start(v) \o <<Read("result")>>, c) :
              v \in GithubVersions, c \in BOOLEAN}

GitlabValidations ==
    {Validation("gitlab", Configured("result") \o
        <<Read("result"), Read("result"), Read("result")>>, c) : c \in BOOLEAN}

BitbucketValidation ==
    Validation("bitbucket", Configured("result") \o <<Read("result")>>, FALSE)

\* Only the first page of the projects is read.
JiraCloudValidation ==
    Validation("jira-cloud", Configured("result") \o <<Read("result")>>, FALSE)

JiraHostedValidation ==
    Validation("jira-hosted", Configured("result") \o <<Read("result")>>, FALSE)

AzureValidations ==
    {Validation("azure", Configured("rpc") \o <<Read("rpc")>>, c) :
     c \in BOOLEAN}

SonarqubeValidation ==
    Validation("sonarqube", Configured("rpc") \o <<Read("rpc"), Read("result")>>,
               FALSE)

GcalValidation ==
    Validation("gcal", Configured("rpc") \o <<Read("rpc")>>, FALSE)

Office365Validation ==
    Validation("office365", Configured("rpc") \o <<Read("rpc")>>, FALSE)

-----------------------------------------------------------------------------
(* Onboarding                                                              *)

\* An integration has not got every list.
NotSupported(list, type, steps) ==
    Onboarding(list, type, steps \o <<Refuse("result")>>)

\* The hooks of every repo are read for the permission to have one.
ReposForOnboardPage == <<Read("rpc"), Read("logged")>>
GithubOnboarding ==
    {Onboarding("repos", "github",
        Configured("rpc") \o <<Read("rpc")>> \o ReposForOnboardPage),
     NotSupported("projects", "github", << >>)}

GitlabGroupRepos == <<Read("rpc"), Read("rpc")>>
GitlabOnboarding ==
    {Onboarding(list, "gitlab", Configured("rpc") \o GitlabGroupRepos) :
     list \in {"repos", "projects"}}
    \cup {Onboarding("workconfig", "gitlab", Configured("rpc")),
          NotSupported("calendars", "gitlab", Configured("rpc"))}

BitbucketOnboarding ==
    {Onboarding("repos", "bitbucket", Configured("rpc") \o <<Read("rpc")>>),
     NotSupported("projects", "bitbucket", Configured("rpc"))}

\* The states of issues: its error is in the result.
GetWorkConfig == <<Read("result")>>

JiraCloudProjects == <<Read("rpc")>>
JiraCloudOnboarding ==
    {Onboarding("projects", "jira-cloud", Configured("rpc") \o JiraCloudProjects),
     Onboarding("workconfig", "jira-cloud", Configured("rpc") \o GetWorkConfig),
     NotSupported("repos", "jira-cloud", << >>)}

JiraHostedProjects == <<Read("rpc")>>
JiraHostedOnboarding ==
    {Onboarding("projects", "jira-hosted", Configured("rpc") \o JiraHostedProjects),
     Onboarding("workconfig", "jira-hosted", Configured("rpc") \o GetWorkConfig),
     NotSupported("repos", "jira-hosted", << >>)}

AzureRepos == <<Read("rpc")>>
AzureProjects == <<Read("rpc")>>
\* The projects, and the types of the work items of each.
AzureWorkConfig == <<Read("result"), Read("result")>>
AzureOnboarding ==
    {Onboarding("repos", "azure", Configured("rpc") \o AzureRepos),
     Onboarding("projects", "azure", Configured("rpc") \o AzureProjects),
     Onboarding("workconfig", "azure", Configured("rpc") \o AzureWorkConfig),
     NotSupported("calendars", "azure", Configured("rpc"))}

SonarqubeOnboarding == {NotSupported("projects", "sonarqube", << >>)}

GcalOnboarding ==
    {Onboarding("calendars", "gcal", Configured("rpc") \o <<Read("rpc")>>)}

Office365Onboarding ==
    {Onboarding("calendars", "office365", Configured("rpc") \o <<Read("rpc")>>)}

-----------------------------------------------------------------------------
(* Mutations.  After a change the changed object is read again.            *)

EditTitle == <<Change("result")>>
EditPriority == <<Change("result")>>
EditStatus == <<Change("result")>>
AssignUserCloud == <<Change("result")>>
AssignUserOnPremise == <<Read("result"), Change("result")>>
GetIssueTransitions == <<Read("result")>>

\* The keys of the issue are read for the comment that is returned.
AddComment == <<Change("result"), Read("result")>>

\* The issue could not be read again: an error of the call.
ReturnUpdatedIssue == <<Read("rpc")>>

JiraMutations(type, AssignUser) ==
    {Mutation(type, Configured("rpc") \o edit \o ReturnUpdatedIssue) :
     edit \in {EditTitle, EditStatus, EditPriority, AssignUser}}
    \cup {Mutation(type, Configured("rpc") \o other) :
          other \in {AddComment, GetIssueTransitions, <<Refuse("result")>>}}

PREditTitle == <<Change("result")>>
PREditBody == <<Change("result")>>
ReturnUpdatedPR == <<Read("rpc")>>

GithubMutations ==
    {Mutation("github", Configured("result") \o edit \o ReturnUpdatedPR) :
     edit \in {PREditTitle, PREditBody}}
    \cup {Mutation("github", Configured("result") \o <<Refuse("result")>>)}

\* The other integrations change nothing.
NoMutation(type) == Mutation(type, <<Refuse("rpc")>>)

-----------------------------------------------------------------------------
(* Events of github                                                        *)

IssueComment == Event(Configured("result") \o <<Read("result")>>, FALSE)

\* The pull request, its reviews, its commits, and the repo again.
WebhookPullRequest == <<Read("result"), Read("result"), Read("result")>>
PullRequest == Event(Configured("result") \o WebhookPullRequest, TRUE)

Push == Event(Configured("result"), TRUE)

\* An event of another kind is skipped; one without a kind is refused.
OtherEvent == Event(Configured("result"), FALSE)
UnnamedEvent == Event(Configured("result") \o <<Refuse("result")>>, FALSE)
=============================================================================
