------------------------ MODULE IntegrationListings ------------------------
(***************************************************************************)
(* The listings of the integrations, as the module Listing describes them. *)
(* Each is named after the objects it lists, and stands for the function   *)
(* that asks for a page and the loop around it.  Objects that belong to    *)
(* another one (the comments of a pull request) are listed in full         *)
(* whenever that one is.                                                   *)
(***************************************************************************)
EXTENDS Integers

\* An error that is returned fails the project or the whole export.
Kept == {"keeps"}

\* Everything is listed by each export.
Full(order, paging) ==
    [first |-> order, next |-> order, pages |-> paging, since |-> "nothing",
     dates |-> "exact", fails |-> Kept, shift |-> 0]

\* Objects changed since the last export are listed, in one order.
Since(order, paging, how) ==
    [Full(order, paging) EXCEPT !.since = how]

----------------------------------------------------------------------------
(* github: cursors, and dates in seconds. *)

GithubPaginateRegular == Full("createdUp", "cursor")
GithubPaginateV3 == Full("createdUp", "offset")

\* The first export goes forwards, so that what is updated meanwhile is seen
\* again; later ones go backwards to what the last export has.
GithubPaginateNewerThan ==
    [first |-> "updatedUp", next |-> "updatedDown", pages |-> "cursor",
     since |-> "stops", dates |-> "seconds", fails |-> Kept, shift |-> 0]
GithubPaginateCommits ==
    [Since("updatedDown", "cursor", "from") EXCEPT !.dates = "given"]

GithubOrgs == Full("createdUp", "first")
GithubEnterpriseOrgs == GithubPaginateV3
GithubOrgUsers == GithubPaginateRegular
GithubEnterpriseUsers == GithubPaginateRegular
GithubRepos == GithubPaginateRegular
GithubRepoMetadata == GithubPaginateRegular
GithubPullRequests == GithubPaginateNewerThan
GithubPullRequestComments == GithubPaginateRegular
GithubPullRequestCommits == GithubPaginateRegular
GithubPullRequestReviews == GithubPaginateRegular
GithubCommitUsers == GithubPaginateCommits

----------------------------------------------------------------------------
(* jira: offsets. *)

JiraPaginateStartAt == Full("createdUp", "offset")
JiraIssues == Since("createdUp", "offset", "window")
JiraComments == JiraPaginateStartAt
JiraCloudProjects == JiraPaginateStartAt
JiraHostedProjects == Full("createdUp", "one")
JiraBoards == JiraPaginateStartAt
JiraBoardProjects == JiraPaginateStartAt

----------------------------------------------------------------------------
(* azure: offsets, in pages of a fixed size. *)

AzurePages == Full("createdUp", "offset")
AzureRepos == AzurePages
AzureProjects == AzurePages
AzureSprints == AzurePages
AzureTeams == AzurePages
AzureUsers == [AzurePages EXCEPT !.fails = {"swallows"}]
\* The ids are asked for first, and the work items in batches of two hundred.  The
\* checkpoint, in the time of a host that is `zone' ticks ahead of UTC, is sent as UTC.
AzureWorkItems(zone) ==
    [Since("createdUp", "ids", "after") EXCEPT !.shift = zone]
\* Requests with their own size of a page have no second one.
AzureChanges == Full("createdUp", "first")
AzurePullRequestCommits == Full("createdUp", "first")
\* The checkpoint is that of the root session, and the project may still fail.
AzurePullRequests ==
    [Since("createdDown", "first", "created") EXCEPT !.fails = {"moves"}]
AzurePullRequestComments == [AzurePages EXCEPT !.fails = {"swallows"}]

----------------------------------------------------------------------------
(* gitlab: numbered pages, by default the newest object first. *)

GitlabPaginateStartAt == Full("createdDown", "offset")
GitlabPaginateNewerThan ==
    [first |-> "createdDown", next |-> "updatedDown", pages |-> "offset",
     since |-> "skips", dates |-> "exact", fails |-> Kept, shift |-> 0]
GitlabGroups == GitlabPaginateStartAt
GitlabRepos == GitlabPaginateStartAt
GitlabRepoMetadata == GitlabPaginateStartAt
GitlabUsers == GitlabPaginateStartAt
GitlabRepoUsers == GitlabPaginateStartAt
\* Errors of the pull requests, and of what belongs to projects, are only logged.
Logged(listing) == [listing EXCEPT !.fails = {"swallows"}]
GitlabPullRequests == Logged(GitlabPaginateNewerThan)
GitlabPullRequestComments == Logged(GitlabPaginateStartAt)
GitlabPullRequestCommits == Logged(GitlabPaginateStartAt)
GitlabPullRequestReviews == Logged(GitlabPaginateStartAt)
GitlabIssues == Logged(Since("createdDown", "offset", "from"))
GitlabDiscussions == Logged(GitlabPaginateStartAt)
GitlabSprints == Logged(Since("createdDown", "offset", "from"))

----------------------------------------------------------------------------
(* bitbucket: numbered pages.  An answer that is not found or cannot be read is *)
(* an empty last page; other errors are returned.                                *)

BitbucketRequest(listing) == [listing EXCEPT !.fails = {"keeps", "swallows"}]
BitbucketPaginate == BitbucketRequest(Full("createdUp", "offset"))
BitbucketRepos == BitbucketPaginate
BitbucketUsers == BitbucketPaginate
\* After an old repo the code leaves out the rest of the page, and goes on.
BitbucketRepoMetadata == BitbucketRequest(Since("updatedDown", "offset", "skips"))
BitbucketCommitUsers ==
    BitbucketRequest(
        [Since("updatedDown", "offset", "stops") EXCEPT !.dates = "given"])
BitbucketPullRequests == BitbucketRequest(Since("createdUp", "offset", "after"))
BitbucketPullRequestComments ==
    BitbucketRequest(Since("createdUp", "offset", "after"))
BitbucketPullRequestCommits == BitbucketPaginate

----------------------------------------------------------------------------
(* sonarqube: the first page of five hundred. *)

SonarqubeProjects == Full("createdUp", "first")
\* A zone that begins with "+0", which those up to nine hours ahead of UTC do, becomes
\* one that is as many hours behind.
SonarqubeMetrics(zone) ==
    [Since("createdUp", "first", "from") EXCEPT !.shift = IF zone > 0 THEN 2 * zone ELSE 0]

----------------------------------------------------------------------------
(* The calendars: a token or a link for the next page; the answers are joined. *)

GcalPages == Full("createdUp", "cursor")
GcalCalendars == GcalPages
GcalEvents == GcalPages
Office365Pages == Full("createdUp", "offset")
Office365Calendars == Office365Pages
Office365Events == Office365Pages

----------------------------------------------------------------------------
\* On hosts in any of the zones.
AllListings(zones) ==
    {AzureWorkItems(z) : z \in zones} \cup {SonarqubeMetrics(z) : z \in zones} \cup
    {GithubOrgs, GithubEnterpriseOrgs, GithubOrgUsers, GithubEnterpriseUsers,
     GithubRepos, GithubRepoMetadata, GithubPullRequests,
     GithubPullRequestComments, GithubPullRequestCommits,
     GithubPullRequestReviews, GithubCommitUsers,
     JiraIssues, JiraComments, JiraCloudProjects, JiraHostedProjects, JiraBoards,
     JiraBoardProjects,
     AzureRepos, AzureProjects, AzureSprints, AzureTeams, AzureUsers,
     AzureChanges, AzurePullRequestCommits, AzurePullRequests,
     AzurePullRequestComments,
     GitlabGroups, GitlabRepos, GitlabRepoMetadata, GitlabUsers, GitlabRepoUsers,
     GitlabPullRequests, GitlabPullRequestComments, GitlabPullRequestCommits,
     GitlabPullRequestReviews, GitlabIssues, GitlabDiscussions, GitlabSprints,
     BitbucketRepos, BitbucketUsers, BitbucketRepoMetadata, BitbucketCommitUsers,
     BitbucketPullRequests, BitbucketPullRequestComments,
     BitbucketPullRequestCommits,
     SonarqubeProjects,
     GcalCalendars, GcalEvents, Office365Calendars, Office365Events}
=============================================================================
