--------------------------- MODULE MCRuntimeJobs ---------------------------
(* Small instances of RuntimeJobs for TLC. *)
EXTENDS RuntimeJobs, TLC

\* A worker that has ended is never read by an action again: of its record only
\* what the properties look at tells states apart, the changes that are in the tree
\* or may come back to it.  Of one that edits in a worktree, only whether it has
\* changed anything.
InReach == primary \cup UNION {worker[w].snap : w \in {v \in Workers : Live(v)}}
Kept(a) == [at |-> a.at, j |-> a.j, passed |-> a.passed,
            left |-> IF a.undone THEN Owed(a) \cap InReach ELSE {}]
Apart(a) == [a EXCEPT !.made = IF @ = {} THEN {} ELSE Mark, !.light = FALSE, !.snap = {}]
View == <<job, beat, service, pending, worktree, primary,
          [w \in Workers |-> IF ~Live(w) THEN Kept(worker[w])
                             ELSE IF InWorktree THEN Apart(worker[w]) ELSE worker[w]]>>

Symmetry == Permutations(Workers)

\* A plan-only job, a job with everything on, and a non-code job that neither
\* commits nor pushes.
SomeWishes == {{"planOnly"}, {"gated", "commits", "pushes"}, {}}
FullWishes == {{"gated", "commits", "pushes"}}

AfterRecovery == {"waiting_approval"}
AnyStatus == Status
=============================================================================
