---------------------------- MODULE RepoCommits ----------------------------
(***************************************************************************)
(* The commits of a git repo from export to export (slimrippy and          *)
(* exportrepo): which of them an export sends, and what it keeps in the    *)
(* checkpoint.                                                             *)
(*                                                                         *)
(* A repo grows between the exports: commits and merges on the default     *)
(* branch and on another one, which may also be created, moved to any      *)
(* commit, and deleted.  An export goes through the commits that were not  *)
(* seen before, and adds their parents to the graph that is kept in the    *)
(* checkpoint.  When no branch has moved it does nothing.  What is made of *)
(* the graph is History.                                                   *)
(***************************************************************************)
EXTENDS Naturals, Sequences, Functions

CONSTANTS
    MaxCommits,  \* bound on the commits of the repo
    MaxInVain,   \* ... on how often a commit is sent by exports that fail
    Failing,     \* ... and the commits that these may read
    PRs          \* pull requests

None == 0
RepoAssumption == MaxCommits \in Nat \ {0} /\ MaxInVain \in Nat

VARIABLES
    repo,     \* the parents of each commit; a commit is the number of its creation
    default,  \* the last commit of the default branch
    branch,   \* ... of the other branch, or None
    seen,     \* the checkpoint: commits that were seen,
    graph,    \* and the parents of commits
    branches, \* the heads at the last export, as the checkpoint has them
    prCommit, \* the commit at which each pull request was seen, or None
    sent,     \* how often each commit was sent,
    inVain,   \* and how often by an export that failed
    prTold    \* the commit for which an export has just sent each pull request's branch

kept == <<seen, graph, branches, prCommit, sent, inVain>>
vars == <<repo, default, branch, kept, prTold>>

Commits == 1 .. MaxCommits

\* What a walk goes on with: at each commit with its parents,
Parents(gr) == [c \in DOMAIN gr |-> Range(gr[c])]

\* but not from the commits in `at'.
StopAt(gr, at) == [c \in DOMAIN gr |-> IF c \in at THEN {} ELSE Range(gr[c])]

\* The commits from which going on does not lead out.
Closed(next, S) == \A c \in S : next[c] \cap DOMAIN next \subseteq S

\* What a walk visits that starts at one commit, in whichever order.
Reach(next, from) ==
    LET around == {S \in SUBSET DOMAIN next : from \in S /\ Closed(next, S)}
    IN {c \in DOMAIN next : \A S \in around : c \in S}

----------------------------------------------------------------------------
(* The repo. *)

TypeOK ==
    /\ repo \in Seq(Seq(Commits)) /\ Len(repo) <= MaxCommits
    /\ \A c \in DOMAIN repo :
         Len(repo[c]) <= 2 /\ \A p \in Range(repo[c]) : p < c
    /\ default \in DOMAIN repo /\ branch \in DOMAIN repo \cup {None}
    /\ seen \subseteq DOMAIN repo /\ DOMAIN graph \subseteq DOMAIN repo
    /\ branches \in {<<>>} \cup [{"default", "branch"} -> DOMAIN repo \cup {None}]
    /\ prCommit \in [PRs -> DOMAIN repo \cup {None}]
    /\ prTold \in [PRs -> DOMAIN repo \cup {None}]
    /\ sent \in [Commits -> Nat] /\ inVain \in [Commits -> Nat]

NoneTold == [p \in PRs |-> None]

Init ==
    /\ repo = <<<<>>>> /\ default = 1 /\ branch = None
    /\ seen = {} /\ graph = <<>> /\ branches = <<>>
    /\ prCommit = [p \in PRs |-> None]
    /\ sent = [c \in Commits |-> 0] /\ inVain = [c \in Commits |-> 0]
    /\ prTold = NoneTold

New == Len(repo) + 1
Heads == {default, branch} \ {None}

\* A commit, or a merge of the other branch.
Commit(onDefault) ==
    LET head == IF onDefault THEN default ELSE branch
        other == IF onDefault THEN branch ELSE default
    IN
    /\ New <= MaxCommits /\ head # None
    /\ \E ps \in {<<head>>} \cup (IF other # None THEN {<<head, other>>} ELSE {}) :
        repo' = Append(repo, ps)
    /\ IF onDefault THEN default' = New /\ UNCHANGED branch
       ELSE branch' = New /\ UNCHANGED default
    /\ UNCHANGED kept

\* A branch without a common history.
Orphan ==
    /\ New <= MaxCommits /\ branch = None
    /\ repo' = Append(repo, <<>>)
    /\ branch' = New
    /\ UNCHANGED <<default, kept>>

Create(c) ==
    /\ branch = None
    /\ branch' = c
    /\ UNCHANGED <<repo, default, kept>>
Move(c) ==
    /\ branch # None /\ branch' = c
    /\ UNCHANGED <<repo, default, kept>>
Delete ==
    /\ branch # None
    /\ branch' = None
    /\ UNCHANGED <<repo, default, kept>>

----------------------------------------------------------------------------
(* The export. *)

NewBranches == [b \in {"default", "branch"} |-> IF b = "default" THEN default ELSE branch]

\* Pull requests at their last commits.
Given == UNION {[given -> DOMAIN repo] : given \in SUBSET PRs}

skipRipsrc(prs) ==
    /\ branches = NewBranches
    /\ \A p \in DOMAIN prs : prCommit[p] = prs[p]

\* A bug to catch: the walk does not stop at the commits that were seen.
RepoAllCommits_FromHeads == UNION {Reach(Parents(repo), h) : h \in Heads \ seen}

\* The commits that were not seen, from each branch.
RepoAllCommits ==
    (UNION {Reach(StopAt(repo, seen), h) : h \in Heads \ seen}) \ seen

\* The parents of every commit that was seen.
NewGraph(new) == [c \in DOMAIN graph \cup new |-> repo[c]]

\* One of those with the same commit, if the commit is known.
PRsKept(prs, known) ==
    {ps \in SUBSET {p \in DOMAIN prs : prs[p] \in known} :
        /\ \A p, q \in ps : p # q => prs[p] # prs[q]
        /\ \A p \in DOMAIN prs : prs[p] \in known => \E q \in ps : prs[q] = prs[p]}

\* A bug to catch: the commits that this export has read are not looked at.
PRsBySHA_Before(prs, new) == PRsKept(prs, DOMAIN graph)

\* The pull requests are kept by their commits: of two with the same one the branch of
\* only one is sent.
PRsBySHA(prs, new) == PRsKept(prs, DOMAIN graph \cup new)

NewPRCommits(prs) == [p \in PRs |-> IF p \in DOMAIN prs THEN prs[p] ELSE prCommit[p]]

Skip(prs) ==
    /\ skipRipsrc(prs)
    /\ UNCHANGED vars

Run(prs, new) ==
    /\ ~ skipRipsrc(prs)
    /\ sent' = [c \in Commits |-> sent[c] + IF c \in new THEN 1 ELSE 0]
    /\ seen' = seen \cup new
    /\ graph' = NewGraph(new)
    /\ \E ps \in PRsBySHA(prs, new) :
          prTold' = [p \in PRs |-> IF p \in ps THEN prs[p] ELSE None]
    /\ branches' = NewBranches
    /\ prCommit' = NewPRCommits(prs)
    /\ UNCHANGED <<repo, default, branch, inVain>>

\* The branches cannot be listed.  The commits were sent and their sessions are ended;
\* the checkpoint stays as it was.
Fail(new) ==
    /\ ~ \A prs \in Given : skipRipsrc(prs)
    /\ \A c \in new : inVain[c] < MaxInVain /\ c \in Failing
    /\ sent' = [c \in Commits |-> sent[c] + IF c \in new THEN 1 ELSE 0]
    /\ inVain' = [c \in Commits |-> inVain[c] + IF c \in new THEN 1 ELSE 0]
    /\ prTold' = NoneTold
    /\ UNCHANGED <<repo, default, branch, seen, graph, branches, prCommit>>

Export ==
    LET new == RepoAllCommits
    IN (\E prs \in Given : Skip(prs) \/ Run(prs, new)) \/ Fail(new)

\* The repo changes.
Grow ==
    /\ \/ \E d \in BOOLEAN : Commit(d)
       \/ Orphan \/ Delete
       \/ \E c \in DOMAIN repo : Create(c) \/ Move(c)
    /\ prTold' = NoneTold

Next == Grow \/ Export
Spec == Init /\ [][Next]_vars

----------------------------------------------------------------------------
(* Properties. *)

Exported == branches = NewBranches

\* After an export the graph has every commit of every branch with all that is behind
\* it, whatever was seen before and however the branches have moved since: no walk
\* fails because a commit is not there, which would drop the branch (process.go:178).
GraphComplete ==
    /\ \A c \in DOMAIN graph : graph[c] = repo[c] /\ Range(graph[c]) \subseteq DOMAIN graph
    /\ Exported => \A h \in Heads : Reach(Parents(repo), h) \subseteq DOMAIN graph

\* Every commit of a branch is sent, and none is sent twice but by an export that fails,
\* also when another branch comes to it later (commits.go:84).
SentOnce ==
    /\ \A c \in Commits : sent[c] <= 1 + inVain[c]
    /\ Exported => \A h \in Heads : \A c \in Reach(Parents(repo), h) : sent[c] = 1 + inVain[c]

\* An export that finds nothing to do has nothing to do: every commit was sent.
SkipsNothingNew ==
    (\E prs \in Given : skipRipsrc(prs)) => RepoAllCommits = {}

\* From export to export, however the branches move, each commit is sent once, apart
\* from exports that fail.
CommitsTrue == TypeOK /\ GraphComplete /\ SentOnce /\ SkipsNothingNew

\* A pull request is only noted as seen at a commit of the repo by an export that sends
\* the branch that ends there: for it, or for one with the same last commit, which of
\* them is any (exportrepo.go:246).
PullRequestsSent ==
    [][\A p \in PRs : prCommit'[p] # prCommit[p] /\ prCommit'[p] \in DOMAIN graph' =>
        \E q \in PRs : prTold'[q] = prCommit'[p] /\ prCommit'[q] = prCommit'[p]]_vars
=============================================================================
