------------------------------- MODULE Walks -------------------------------
(***************************************************************************)
(* The walks through the graph of commits as the code does them, by        *)
(* recursion with a set of what was visited (slimrippy, branches).         *)
(***************************************************************************)
EXTENDS Naturals, SequencesExt

\* All go on with the parents of a commit that was not visited yet, in the order of
\* `next', and give the commits in the order of the visits.
RECURSIVE Visit(_, _, _)
Visit(next, todo, done) ==
    IF todo = <<>> THEN done
    ELSE IF Head(todo) \in ToSet(done) THEN Visit(next, Tail(todo), done)
    ELSE Visit(next, next[Head(todo)] \o Tail(todo), Append(done, Head(todo)))

Walk(next, from) == Visit(next, <<from>>, <<>>)

\* A walk that does not go on from the commits in `at'.
StoppedWalk(gr, at, from) ==
    Walk([c \in DOMAIN gr |-> IF c \in at THEN <<>> ELSE gr[c]], from)

\* The commits of a branch: the last parent first, and not into `reach'.
BranchWalk(gr, reach, head) ==
    Reverse(Walk([c \in DOMAIN gr |->
        Reverse(SelectSeq(gr[c], LAMBDA p : p \notin reach))], head))

\* Without those that have another one behind them.
Dedup(gr, points) ==
    LET hasDeep[c \in DOMAIN gr] ==
            c \in points \/ \E p \in ToSet(gr[c]) : hasDeep[p]
    IN {c \in points : \A p \in ToSet(gr[c]) : ~ hasDeep[p]}

\* Every graph in which each commit has up to two parents, which are earlier.
Graphs(n) ==
    {gr \in [1 .. n -> BoundedSeq(1 .. n, 2)] : \A c \in 1 .. n : \A p \in ToSet(gr[c]) : p < c}
=============================================================================
