----------------------------- MODULE RepoState -----------------------------
(***************************************************************************)
(* The state of a repo, of its checkpoint and of what was sent of its      *)
(* branch, and what holds of them (RepoCommits, History): for TLC, and for *)
(* the proofs.                                                             *)
(***************************************************************************)

CONSTANTS
    MaxCommits,  \* bound on the commits of the repo
    MaxInVain,   \* ... on how often a commit is sent by exports that fail
    Failing,     \* ... and the commits that these may read
    PRs          \* pull requests

VARIABLES
    repo,     \* the parents of each commit; a commit is the number of its creation
    default,  \* the last commit of the default branch
    branch,   \* ... of the other branch, or None
    seen,     \* the checkpoint: commits that were seen,
    graph,    \* and the parents of commits
    branches, \* the heads at the last export, as the checkpoint has them
    prCommit, \* the commit at which each pull request was seen, or None
    sent,     \* how often each commit was sent,
    inVain,   \* and how often by an export that failed
    prTold,   \* the commit for which an export has just sent each pull request's branch,
    told      \* what was sent of the branch

H == INSTANCE History

\* From export to export, however the branches move, each commit is sent once, apart
\* from exports that fail.
CommitsTrue == H!CommitsTrue

\* A pull request is only noted as seen at a commit of the repo by an export that sends
\* the branch that ends there: for it, or for one with the same last commit, which of
\* them is any (exportrepo.go:246).
PullRequestsSent == H!PullRequestsSent

\* What is said of a branch is what its definition says, without the shortcuts of the
\* code, and stays true until the branch moves.
BranchTrue == H!BranchTrue
=============================================================================
