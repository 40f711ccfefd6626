-------------------------- MODULE IntegrationPlans --------------------------
(***************************************************************************)
(* What each integration does in an Export, and for one of its projects,   *)
(* in the terms of ExportPlan: its steps in order, which of its goroutines *)
(* takes them, and what it does with an error of each.                     *)
(*                                                                         *)
(* Loops over organizations, groups, teams and pages are unrolled once, or *)
(* twice where an iteration opens sessions of its own.  The requests       *)
(* before the first session are one step.  An error of `open' that the     *)
(* code does not look at (jira's users, statuses and types, the issues of  *)
(* gitlab) is followed by a nil pointer; here it is returned.              *)
(***************************************************************************)
EXTENDS Sequences

Do(op, session) ==
    [op |-> op, session |-> session, under |-> "none", errors |-> {"return"}]
Call == Do("ask", "none")
Git == Do("git", "none")
Open(session) == Do("open", session)
Context(session) == Do("context", session)
Fill(session) == Do("fill", session)
End(session) == Do("end", session)
Defer(session) == Do("defer", session)
Pool(session) == Do("pool", session)
Receive(session) == Do("receive", session)
Start == Do("start", "none")
Give == Do("give", "none")
Close == Do("close", "none")
Answer == Do("answer", "none")
Take == Do("take", "none")
Wait == Do("wait", "none")

On(errors, step) == [step EXCEPT !.errors = errors]
Logged(step) == On({"log"}, step)
Under(session, step) == [step EXCEPT !.under = session]

One(session) == <<Open(session), Fill(session), End(session)>>

Thread(steps) == Append(steps, Do("finish", "none"))
Export(steps) ==
    [threads |-> [t \in {"main", "first", "second", "third"} |->
                    IF t = "main" THEN Thread(steps) ELSE Thread(<<>>)],
     project |-> FALSE, room |-> 0, waits |-> FALSE,
     leaves |-> {}, misses |-> {}, leaks |-> FALSE, hangs |-> FALSE]
Project(steps) == [Export(steps) EXCEPT !.project = TRUE]

----------------------------------------------------------------------------
(* GitHub *)

\* A user is marked as exported before it is sent, so that one whose project failed
\* there is not sent for another project.
GithubUsers == <<Open("users"), Fill("users")>>
GithubWebhooks == <<Logged(Call)>>
GithubExport ==
    [Export(<<Call>> \o GithubUsers \o <<Call>> \o GithubWebhooks
            \o <<Open("repos"), Fill("repos"), Pool("users"),
                 End("repos"), End("users")>>)
        EXCEPT !.misses = {"users"}]

\* The users of an organization: another goroutine lists them.  It is an error when
\* there are none; then, or when one cannot be sent, the goroutine is left behind.
GithubOrgUsers ==
    [Export(<<Open("users"), Start, Receive("users"), Call, Take, End("users")>>)
        EXCEPT !.threads["first"] =
                    Thread(<<On({"close"}, Call), Give, On({"close"}, Call), Give,
                             Close, Answer>>),
               !.waits = TRUE, !.leaks = TRUE]

GithubCommitUsers == <<Context("commitusers"), Fill("commitusers")>>
GithubComments ==
    <<Open("comments"), Under("pulls", Fill("comments")), End("comments")>>
GithubReviews == <<Open("reviews"), Under("pulls", Fill("reviews")), End("reviews")>>
GithubCommits == <<Fill("pulls"), Under("pulls", Fill("prcommits"))>>

\* What follows the list of pull requests is concurrent, see PullRequestPipeline.
GithubRepo ==
    [Project(GithubCommitUsers
             \o <<Context("pulls"), Context("prcommits"), Under("pulls", Call)>>
             \o GithubComments \o GithubReviews \o GithubCommits \o <<Git>>)
        EXCEPT !.leaves = {"comments", "reviews"}]

----------------------------------------------------------------------------
(* GitLab *)

GitlabUsersEmails ==
    Export(<<Open("users"), Open("commitusers"), Fill("commitusers"), Fill("users"),
             End("commitusers"), End("users")>>)

GitlabGroup(repos) == <<Call, Open(repos), Fill(repos), Pool("none"), End(repos)>>
GitlabExport ==
    Export(<<Call, Open("group")>> \o GitlabGroup("repos") \o GitlabGroup("repos2")
           \o <<End("group")>>)

GitlabUsers == <<Context("users"), Fill("users")>>

\* Goroutines of gitlab: of a repository's pull requests,
GitlabComments ==
    <<Under("pulls", Open("comments")), Under("pulls", Receive("comments")),
      End("comments")>>
GitlabReviews ==
    <<Under("pulls", Open("reviews")), Under("pulls", Fill("reviews")), End("reviews")>>
GitlabCommits == <<Logged(Under("pulls", Fill("prcommits"))), Logged(Fill("pulls"))>>

\* and of a project: the one of the issues starts the one of their comments, and ends
\* its channel whether it has failed or not.
GitlabIssues ==
    <<Context("issues"),
      On({"close"}, Fill("issues")), Give, On({"close"}, Fill("issues")), Give,
      Close, Take>>
GitlabIssueComments ==
    <<Under("issues", Context("comments")), Under("issues", Receive("comments")),
      Answer>>
GitlabSprints == <<Context("sprints"), Fill("sprints")>>

\* Comments, reviews and commits are fetched by goroutines whose errors are only
\* logged; what they do not take from their channels stays there, and more does not
\* fit.  The room of 10 pages is 1 here.
GitlabRepo ==
    [Project(GitlabUsers
             \o <<Context("pulls"), Context("prcommits"), Start,
                  Give, Logged(Under("pulls", Call)), Give, Give, Close,
                  Wait, Git>>)
        EXCEPT !.threads["first"] = Thread(GitlabComments),
               !.threads["second"] = Thread(GitlabReviews),
               !.threads["third"] = Thread(GitlabCommits),
               !.room = 1,
               !.leaves = {"comments", "reviews"},
               !.misses = {"pulls", "prcommits", "comments", "reviews"},
               !.hangs = TRUE]

\* Whichever of the goroutine of the issues and that of their comments fails, it may
\* leave the other waiting.
GitlabProject ==
    [Project(GitlabUsers \o <<Start, Wait>>)
        EXCEPT !.threads["first"] = Thread(GitlabIssues),
               !.threads["second"] = Thread(GitlabSprints),
               !.threads["third"] = Thread(GitlabIssueComments),
               !.waits = TRUE,
               !.misses = {"issues", "sprints", "comments"},
               !.leaks = TRUE, !.hangs = TRUE]

----------------------------------------------------------------------------
(* Bitbucket *)

\* Users of a workspace that may not be read are left out, and their session is left.
BitbucketUsers(users) ==
    <<Open(users), On({"return", "leave"}, Fill(users)), End(users)>>
BitbucketExport ==
    [Export(<<Call>> \o BitbucketUsers("users") \o BitbucketUsers("users2")
            \o <<Open("repos"), Fill("repos"), Pool("none"), End("repos")>>)
        EXCEPT !.leaves = {"users", "users2"}, !.misses = {"users", "users2"}]

BitbucketCommitUsers == <<Context("commitusers"), Fill("commitusers")>>
BitbucketComments == <<Under("pulls", Fill("comments"))>>
BitbucketPullRequests ==
    <<Context("pulls"), Context("comments"), Context("prcommits"), Context("reviews"),
      Fill("reviews")>>
    \o BitbucketComments
    \o <<Fill("pulls"), Under("pulls", Fill("prcommits"))>>
BitbucketRepo == Project(BitbucketCommitUsers \o BitbucketPullRequests \o <<Git>>)

----------------------------------------------------------------------------
(* Jira *)

JiraProjectList == <<Call, Fill("projects")>>

\* Sprints are told by the fields of issues, which are read in the pool; a user is
\* marked as exported before it is sent.
JiraIssues == <<Pool("users"), Open("sprints"), Fill("sprints"), End("sprints")>>

\* The types and the priorities of issues are lists of one page.
JiraOnes == One("types") \o One("priorities")

\* A board is sent when one of its projects is exported.
JiraBoards == <<Open("boards"), Call, Fill("boards"), End("boards")>>

JiraCloudExport ==
    [Export(<<Call, Open("users")>> \o One("statuses")
            \o <<Call, Open("projects")>> \o JiraProjectList \o JiraIssues
            \o <<End("projects")>> \o JiraBoards \o JiraOnes \o <<End("users")>>)
        EXCEPT !.misses = {"users"}]

JiraHostedExport ==
    [Export(<<Call, Open("users"), Call, Open("projects")>>
            \o JiraProjectList \o JiraIssues
            \o <<End("projects")>> \o JiraOnes \o <<End("users")>>)
        EXCEPT !.misses = {"users"}]

\* Each issue has a session of comments of its own, which is left on an error.
JiraComments ==
    <<Open("comments"), Under("issues", Fill("comments")), End("comments")>>
JiraProject ==
    [Project(<<Context("issues"), Fill("issues")>> \o JiraComments
             \o <<Fill("issues")>>)
        EXCEPT !.leaves = {"comments"}]

----------------------------------------------------------------------------
(* Azure DevOps, SonarQube *)

\* The session of the organization has no file and is never ended.
AzureRepos ==
    <<Call, Open("repos"), Fill("repos"), Pool("none"), End("repos")>>
AzureUsers == <<Call, Open("users"), Logged(Fill("users")), End("users")>>
AzureCodeExport ==
    [Export(<<Call, Open("org")>> \o AzureRepos \o AzureUsers)
        EXCEPT !.misses = {"users"}]

AzureProjects ==
    <<Open("projects"), Fill("projects"), Pool("none"), End("projects")>>
AzureWorkExport == Export(<<Call, Open("org")>> \o AzureProjects)

\* Errors of what belongs to a pull request are only logged.
AzureComments ==
    <<Logged(Under("pulls", Fill("reviews"))), Logged(Under("pulls", Fill("comments")))>>
AzureCommits == <<Logged(Under("pulls", Fill("prcommits")))>>

\* A pull request without commits ends the list of them.
AzureRepo ==
    [Project(<<Call, Context("pulls"), On({"return", "stop"}, Under("pulls", Call)),
               Open("prcommits")>> \o AzureCommits
             \o <<End("prcommits"), Logged(Fill("pulls")),
                  Open("comments"), Open("reviews")>> \o AzureComments
             \o <<End("comments"), End("reviews"), Git>>)
        EXCEPT !.leaves = {"prcommits", "comments", "reviews"},
               !.misses = {"pulls", "prcommits", "comments", "reviews"}]

AzureWorkUsers == <<Context("users"), Call, Fill("users")>>
AzureWorkItems == <<Context("issues"), Call, Fill("issues")>>
AzureSprints == <<Context("sprints"), Call, Fill("sprints")>>
AzureProject == Project(<<Call>> \o AzureWorkUsers \o AzureWorkItems \o AzureSprints)

SonarqubeMetrics(metrics) ==
    <<Fill("projects"), Open(metrics), Under("projects", Fill(metrics)), End(metrics)>>
SonarqubeExport ==
    Export(<<Call, Open("projects")>>
           \o SonarqubeMetrics("metrics") \o SonarqubeMetrics("metrics2")
           \o <<End("projects")>>)

----------------------------------------------------------------------------
(* Calendars *)

\* The users of the events are merged by a goroutine, which ends their session after
\* it has answered; its error and those of the deferred Done are lost, and an error
\* of the pool leaves it waiting.
CalendarUsers ==
    <<Receive("none"), Open("users"), Defer("users"), Fill("users"), Answer>>
Calendars(fetched) ==
    [Export(<<Open("calendars"), Defer("calendars"), fetched, Fill("calendars"),
              Start, Give, Pool("none"), Close, Logged(Take)>>)
        EXCEPT !.threads["first"] = Thread(CalendarUsers),
               !.room = 1,
               !.leaves = {"users"}, !.misses = {"calendars", "users"},
               !.leaks = TRUE]

\* The calendars of a user that cannot be read are left out, unless it is the only one.
GcalExport == Calendars(On({"return", "log"}, Under("calendars", Call)))
Office365Export == Calendars(On({"log"}, Under("calendars", Call)))
CalendarEvents == Project(<<Context("events"), Call, Fill("events")>>)
=============================================================================
