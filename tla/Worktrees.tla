------------------------------- MODULE Worktrees -------------------------------
(* ACFSWorktreeManager (agents/core/acfs.py): managers that share one git
   repository and, in one process, a class-level count of worktrees. A worktree
   is known by its branch, which git checks out at most once. The steps of a
   call are its git commands and its accesses to the shared count. *)
EXTENDS Naturals, FiniteSets

CONSTANTS WtManagers, WtBranches,
          WtTargets,    \* branches merge_worktree merges into
          MaxOwn,       \* max_worktrees
          GlobalMax     \* _GLOBAL_MAX
ASSUME WtAssumption == IsFiniteSet(WtManagers) /\ GlobalMax \in Nat \ {0}

VARIABLES wtGit,        \* worktrees git knows
          wtOwn,        \* per manager: _worktrees
          wtCount, wtRegistry,      \* _global_count and _global_registry
          wtHead, wtMerging,        \* of the main checkout: its branch, a merge in progress
          wtClamped,    \* history: how often the count was held at 0 instead of lowered
          wtJob         \* per manager: the call in progress; into: where git merged, alone: nobody else merged
wtVars == <<wtGit, wtOwn, wtCount, wtRegistry, wtHead, wtMerging, wtClamped, wtJob>>

Rests == [at |-> "", todo |-> {}, target |-> "", into |-> "", alone |-> TRUE]
WtInit ==
  /\ wtGit = {} /\ wtOwn = [m \in WtManagers |-> {}] /\ wtCount = 0 /\ wtRegistry = {}
  /\ wtHead \in WtTargets /\ wtMerging = FALSE /\ wtClamped = 0
  /\ wtJob = [m \in WtManagers |-> Rests]

Does(m, j) == wtJob' = [wtJob EXCEPT ![m] = j]
MergeVars == <<wtHead, wtMerging>>
TreeVars == <<wtGit, wtOwn, wtCount, wtRegistry, wtClamped>>

MayCreate(m) == Cardinality(wtOwn[m]) < MaxOwn /\ wtCount < GlobalMax
CreateWorktree(m, b) ==
  /\ wtJob[m] = Rests /\ MayCreate(m) /\ Does(m, [Rests EXCEPT !.at = "add", !.todo = {b}])
  /\ UNCHANGED <<TreeVars, MergeVars>>
\* git worktree add, with -b and then without: refused for a branch checked out.
AddWorktree(m) ==
  /\ wtJob[m].at = "add"
  /\ IF wtJob[m].todo \cap (wtGit \cup {wtHead}) = {}
     THEN /\ wtGit' = wtGit \cup wtJob[m].todo /\ Does(m, [wtJob[m] EXCEPT !.at = "count"])
          /\ wtOwn' = [wtOwn EXCEPT ![m] = @ \cup wtJob[m].todo]
     ELSE Does(m, Rests) /\ UNCHANGED <<wtGit, wtOwn>>
  /\ UNCHANGED <<wtCount, wtRegistry, wtClamped, MergeVars>>
CountWorktree(m) ==
  /\ wtJob[m].at = "count" /\ wtCount' = wtCount + 1
  /\ wtRegistry' = wtRegistry \cup wtJob[m].todo /\ Does(m, Rests)
  /\ UNCHANGED <<wtGit, wtOwn, wtClamped, MergeVars>>

\* destroy_worktree takes any path, its own or not; cleanup_stale goes through
\* those of its own that are old enough.
DestroyWorktrees(m, todo) ==
  /\ wtJob[m] = Rests /\ todo # {} /\ (Cardinality(todo) = 1 \/ todo \subseteq wtOwn[m])
  /\ Does(m, [Rests EXCEPT !.at = "remove", !.todo = todo])
  /\ UNCHANGED <<TreeVars, MergeVars>>
\* The slot of a worktree git does not have stays taken.
Drops(m, b) == IF b \in wtGit THEN wtOwn[m] \ {b} ELSE wtOwn[m]
After(j, b) == IF j.todo = {b} THEN Rests ELSE [j EXCEPT !.at = "remove", !.todo = @ \ {b}]
RemoveWorktree(m) ==
  /\ wtJob[m].at = "remove"
  /\ \E b \in wtJob[m].todo :
       /\ wtOwn' = [wtOwn EXCEPT ![m] = Drops(m, b)] /\ wtGit' = wtGit \ {b}
       /\ Does(m, IF b \in wtGit THEN [wtJob[m] EXCEPT !.at = "uncount", !.target = b]
                                 ELSE After(wtJob[m], b))
  /\ UNCHANGED <<wtCount, wtRegistry, wtClamped, MergeVars>>
\* Mutant: only a worktree in the registry is counted down.
LoweredIfListed(b) == IF b \in wtRegistry /\ wtCount > 0 THEN wtCount - 1 ELSE wtCount
Lowered(b) == IF wtCount > 0 THEN wtCount - 1 ELSE 0
UncountWorktree(m) ==
  LET b == wtJob[m].target IN
  /\ wtJob[m].at = "uncount" /\ wtCount' = Lowered(b) /\ wtRegistry' = wtRegistry \ {b}
  /\ wtClamped' = wtClamped + (IF wtCount = 0 THEN 1 ELSE 0)
  /\ Does(m, [After(wtJob[m], b) EXCEPT !.target = ""])
  /\ UNCHANGED <<wtGit, wtOwn, MergeVars>>

\* merge_worktree: checkout, merge, and abort on any failure, all in the one main
\* checkout. The branch of a path the manager does not list is "unknown".
MergesOf(j) == j.at \in {"checkout", "merge", "abort"}
Overlap(m) == \E n \in WtManagers \ {m} : MergesOf(wtJob[n])
MergeWorktree(m, b, t) ==
  /\ wtJob[m] = Rests
  /\ wtJob' = [n \in WtManagers |->
       IF n = m THEN [at |-> "checkout", todo |-> {b} \cap wtOwn[m], target |-> t, into |-> "", alone |-> ~Overlap(m)]
       ELSE IF MergesOf(wtJob[n]) THEN [wtJob[n] EXCEPT !.alone = FALSE] ELSE wtJob[n]]
  /\ UNCHANGED <<TreeVars, MergeVars>>
Refuses(t) == wtMerging \/ t \in wtGit
MergeCheckout(m) ==
  LET t == wtJob[m].target IN
  /\ wtJob[m].at = "checkout"
  /\ Does(m, [wtJob[m] EXCEPT !.at = IF Refuses(t) THEN "abort" ELSE "merge"])
  /\ wtHead' = IF Refuses(t) THEN wtHead ELSE t
  /\ UNCHANGED <<wtMerging, TreeVars>>
\* git merge: refused during another merge, else it succeeds or conflicts.
GitMerge(m) ==
  /\ wtJob[m].at = "merge"
  /\ \/ /\ ~wtMerging /\ wtJob[m].todo # {} /\ UNCHANGED wtMerging
        /\ Does(m, [wtJob[m] EXCEPT !.at = "merged", !.into = wtHead])
     \/ /\ Does(m, [wtJob[m] EXCEPT !.at = "abort"])
        /\ wtMerging' = (wtMerging \/ wtJob[m].todo # {})
  /\ UNCHANGED <<wtHead, TreeVars>>
AbortMerge(m) ==
  /\ wtJob[m].at = "abort" /\ wtMerging' = FALSE /\ Does(m, Rests)
  /\ UNCHANGED <<wtHead, TreeVars>>
MergeReturns(m) == wtJob[m].at = "merged" /\ Does(m, Rests) /\ UNCHANGED <<TreeVars, MergeVars>>

WtNext ==
  \E m \in WtManagers :
    \/ \E b \in WtBranches : CreateWorktree(m, b) \/ \E t \in WtTargets : MergeWorktree(m, b, t)
    \/ AddWorktree(m) \/ CountWorktree(m)
    \/ \E todo \in SUBSET WtBranches : DestroyWorktrees(m, todo)
    \/ RemoveWorktree(m) \/ UncountWorktree(m)
    \/ MergeCheckout(m) \/ GitMerge(m) \/ AbortMerge(m) \/ MergeReturns(m)

WtSpec == WtInit /\ [][WtNext]_wtVars
-----------------------------------------------------------------------------
\* The count passes its ceiling by no more than the managers that looked at it
\* before another one counted ("Prevents exceeding system limits").
OvershootIsBounded == wtCount <= GlobalMax + Cardinality(WtManagers) - 1

\* Between the calls of creating and destroying, the count is that of git's
\* worktrees, but for destroys that came between a git command and its count.
CountTracksGit ==
  (\A m \in WtManagers : wtJob[m].at \notin {"count", "uncount"}) => wtCount = Cardinality(wtGit) + wtClamped

\* A merge reported as done is in the branch it was asked for, unless
\* another manager moved the main checkout meanwhile.
MergedWhereAsked ==
  \A m \in WtManagers :
    wtJob[m].at = "merged" /\ wtJob[m].alone => wtJob[m].into = wtJob[m].target

\* No merge is left half done in the main checkout: some caller is about to abort it.
MergeIsEnded == wtMerging => \E m \in WtManagers : wtJob[m].at = "abort"

\* The managers' shared count and the main checkout they share stay in order.
WorktreesAddUp == OvershootIsBounded /\ CountTracksGit /\ MergedWhereAsked /\ MergeIsEnded
=============================================================================
