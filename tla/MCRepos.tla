------------------------------ MODULE MCRepos -------------------------------
(* Small instances for TLC of what an export does with one repo: its pull  *)
(* requests, of PullRequestPipeline, or its commits, of RepoCommits and    *)
(* History with the walks beneath them.  The two share no state: `part'    *)
(* tells which of them a behaviour is of, and the other stays as it is.    *)
EXTENDS PullRequestPipeline, RepoState, Walks

VARIABLE part

commitVars == <<repo, default, branch, seen, graph, branches, prCommit, sent, inVain,
                prTold, told>>

ASSUME HistoryAssumption == H!RepoAssumption

\* The code's walks visit what Reach says that they visit, each commit once, for every
\* graph.  The last commit of a branch comes last, and its fork points are those that
\* the code finds by marking the commits that have a fork point behind them.
ASSUME WalksAssumption ==
    \A gr \in Graphs(MaxCommits) : \A head \in DOMAIN gr :
        /\ \A at \in SUBSET DOMAIN gr :
             ToSet(StoppedWalk(gr, at, head)) = H!Reach(H!StopAt(gr, at), head)
        /\ \A defaultHead \in DOMAIN gr :
             LET reach == H!ReachForBranch(gr, defaultHead, head)
                 walk == BranchWalk(gr, reach, head)
                 points == H!ForkPoints(gr, reach, head)
             IN /\ ToSet(walk) = H!branchCommits(gr, reach, head)
                /\ IsInjective(walk) /\ Last(walk) = head
                /\ Dedup(gr, points) = H!dedupLinearFromHead(gr, points)

MCInit == Init /\ H!HistoryInit /\ part \in {"pulls", "commits"}

MCNext ==
    \/ part = "pulls" /\ Next /\ UNCHANGED <<part, commitVars>>
    \/ part = "commits" /\ H!HistoryNext /\ UNCHANGED <<part, vars>>

\* Nothing is asked of the pull requests in a behaviour of the commits.
MCSpec ==
    /\ MCInit /\ [][MCNext]_<<part, vars, commitVars>>
    /\ WF_vars(part = "pulls" /\ (ListPage \/ ListingEnds))
    /\ WF_vars(part = "pulls" /\ FeederStep)
    /\ \A c \in Channel : WF_vars(part = "pulls" /\ ExporterStep(c))
    /\ \A g \in Caller : WF_vars(part = "pulls" /\ SetErrStep(g))
    /\ WF_vars(part = "pulls" /\ Return)

\* In a behaviour of the pull requests the function returns or is stuck as Blocked says.
PullRequestsReturn == part = "pulls" => ReturnsOrBlocks
=============================================================================
