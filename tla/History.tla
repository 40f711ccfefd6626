------------------------------ MODULE History ------------------------------
(***************************************************************************)
(* What an export says of the branches of a repo (slimrippy, branches): it *)
(* goes through the graph that RepoCommits keeps, for each branch that it  *)
(* is given.  All its walks go on with the parents of a commit that was    *)
(* not visited yet; what they visit is Reach, whatever their order.  The   *)
(* walks themselves, with their order, are Walks.                          *)
(***************************************************************************)
EXTENDS RepoCommits, FiniteSets

VARIABLE told  \* what was sent of the branch

----------------------------------------------------------------------------
(* A branch in the graph. *)

reachableFromHead(gr, head) == Reach(Parents(gr), head)

\* A bug to catch: a merged branch is looked at like others.
ReachForBranch_Merged(gr, defaultHead, head) == reachableFromHead(gr, defaultHead)

\* For a merged branch, what is reachable without passing its last commit.
ReachForBranch(gr, defaultHead, head) ==
    LET reach == reachableFromHead(gr, defaultHead) IN
    IF head \in reach THEN Reach(StopAt(gr, {head}), defaultHead) ELSE reach

\* The parents that are not on the default branch.
BranchParents(gr, reach) == [c \in DOMAIN gr |-> Range(gr[c]) \ reach]

branchCommits(gr, reach, head) == Reach(BranchParents(gr, reach), head)

\* A walk comes to a commit that the graph does not have: the branch is given up.
CommitNotFound(gr, defaultHead, head) ==
    LET reach == ReachForBranch(gr, defaultHead, head)
    IN \/ head \notin DOMAIN gr
       \/ head \in reach /\ \E c \in reach \ {head} : ~ Range(gr[c]) \subseteq DOMAIN gr
       \/ \E c \in branchCommits(gr, reach, head) :
             ~ Range(gr[c]) \ reach \subseteq DOMAIN gr

\* Where the walk has met the default branch.
ForkPoints(gr, reach, head) ==
    {p \in reach : \E c \in branchCommits(gr, reach, head) : p \in Range(gr[c])}

\* The fork points that have no other one behind them.
dedupLinearFromHead(gr, points) ==
    {c \in points : \A p \in Range(gr[c]) : Reach(Parents(gr), p) \cap points = {}}

behindBranch(gr, defaultHead, head) ==
    LET rfb == Reach(StopAt(gr, reachableFromHead(gr, defaultHead)), head)
    IN Cardinality(Reach(StopAt(gr, rfb), defaultHead) \ rfb)

\* The first child that is on the default branch, by the order of hashes: any order.
getMergeCommit(gr, defaultHead, head) ==
    {c \in reachableFromHead(gr, defaultHead) : head \in Range(gr[c])}

\* What is sent of a branch.  The id is made of its name and the first fork point.
processBranch(gr, defaultHead, head) ==
    LET reach == ReachForBranch(gr, defaultHead, head)
        from == dedupLinearFromHead(gr, ForkPoints(gr, reach, head))
        merged == head \in reachableFromHead(gr, defaultHead)
    IN [head |-> head, default |-> defaultHead, merged |-> merged,
        commits |-> branchCommits(gr, reach, head), from |-> from,
        mergeCommits |-> IF merged THEN getMergeCommit(gr, defaultHead, head) ELSE {},
        behind |-> IF ~ merged /\ from # {} THEN behindBranch(gr, defaultHead, head) ELSE 0]

----------------------------------------------------------------------------
(* The export. *)

NoBranch == [head |-> None]

HistoryInit == Init /\ told = NoBranch

\* The branch is gone through when the commits were read.
BranchSent(gr) ==
    IF branch = None \/ CommitNotFound(gr, default, branch) THEN NoBranch
    ELSE processBranch(gr, default, branch)

\* Export, with the branch.  (The sets of one let TLC evaluate their elements once.)
ExportBranch ==
    \E new \in {RepoAllCommits} : \E data \in {BranchSent(NewGraph(new))} :
        \/ \E prs \in Given : Run(prs, new) /\ told' = data
        \/ (Fail(new) \/ \E prs \in Given : Skip(prs)) /\ UNCHANGED told

HistoryNext == (Grow /\ UNCHANGED told) \/ ExportBranch
HistorySpec == HistoryInit /\ [][HistoryNext]_<<vars, told>>

----------------------------------------------------------------------------
(* What is to be sent of a branch. *)

Ancestors(c) == Reach(Parents(repo), c)

\* Reachable from the one without passing the other.
Without(from, not) == Reach(StopAt(repo, {not}), from)

Linear(c) == \A x \in Ancestors(c) : Len(repo[x]) < 2

----------------------------------------------------------------------------
(* Properties. *)

Elsewhere == IF told.merged THEN Without(told.default, told.head) ELSE Ancestors(told.default)

\* The commits of a branch are those that the default branch does not have, with the last
\* one in any case; of a merged one those that it would not have without it.
OwnCommits ==
    told # NoBranch => told.commits = (Ancestors(told.head) \ Elsewhere) \cup {told.head}

\* The branch was made from the oldest commits in which it meets the default branch: it
\* has none of the others behind it.
OldestForks ==
    told # NoBranch =>
        LET met == {p \in Elsewhere : \E c \in told.commits : p \in Range(repo[c])}
        IN told.from = {p \in met : Ancestors(p) \cap met = {p}}

\* A branch is behind by the commits that it lacks.  Merges in the default branch may
\* add commits that it does have, behind the one at which the walk has stopped.
BehindByMissing ==
    told # NoBranch /\ ~ told.merged /\ told.from # {} =>
        LET missing == Ancestors(told.default) \ Ancestors(told.head)
        IN /\ told.behind >= Cardinality(missing)
           /\ Linear(told.default) => told.behind = Cardinality(missing)

\* When an export finds nothing to do, what was sent of the branch is what would be
\* sent now.
ToldIsCurrent ==
    Exported => told = IF branch = None THEN NoBranch
                       ELSE processBranch(repo, default, branch)

\* What is said of a branch is what its definition says, without the shortcuts of the
\* code, and stays true until the branch moves.
BranchTrue == OwnCommits /\ OldestForks /\ BehindByMissing /\ ToldIsCurrent
=============================================================================
