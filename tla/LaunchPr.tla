------------------------------- MODULE LaunchPr -------------------------------
(***************************************************************************)
(* prepare_launch_pr.py: an exact list of changed paths is committed on a  *)
(* new branch, pushed and offered as a pull request.                       *)
(*                                                                         *)
(* A tree gives each path its contents.  While the tool runs (it waits for *)
(* a typed confirmation) files may be edited, main may move on GitHub,     *)
(* another program may fetch it, and somebody may create the branch.       *)
(***************************************************************************)
EXTENDS Naturals, FiniteSets

CONSTANTS
  EXPECTED_CHANGES,      \* the paths of the pull request, each "A", "M" or "D"
  PRESERVED_UNTRACKED,   \* paths that are there and stay untracked
  FirstMain, FirstWork,  \* main's tree, and the working tree prepared for the change
  Edits,             \* for each path, what it may be edited to
  MainTrees,             \* the trees main may move to
  MaxPrEvents            \* bound: what happens around the tool

NoFile == 0
NoCommit == [of |-> "none"]

VARIABLES
  main, branch,   \* GitHub: main's commit, and the commit of the branch or NoCommit
  tracking,       \* the local refs/remotes/origin/main
  head,           \* the checked-out commit
  switched,       \* is the checked-out branch the new one?
  index, work,
  pr,             \* the pull request: its commit, or NoCommit
  step,
  happened

prVars == <<main, branch, tracking, head, switched, index, work, pr, step, happened>>
repository == <<tracking, head, switched, index, work>>

Paths == DOMAIN FirstMain
Main(tree) == [of |-> "main", base |-> tree, tree |-> tree]

(* Name and status of what differs between two trees. *)
Status(old, new, p) ==
  IF old[p] = NoFile THEN "A" ELSE IF new[p] = NoFile THEN "D" ELSE "M"
name_status(old, new) == [p \in {k \in Paths : old[k] # new[k]} |-> Status(old, new, p)]
Untracked(p) == head.tree[p] = NoFile /\ index[p] = NoFile /\ work[p] # NoFile

(* Fault: a change that is missing is not missed. *)
only_expected(changes) ==
  \A p \in DOMAIN changes : p \in DOMAIN EXPECTED_CHANGES /\ changes[p] = EXPECTED_CHANGES[p]
exactly_expected(changes) == changes = EXPECTED_CHANGES

parse_status == name_status(head.tree, work)
verify_expected_changes ==
  /\ index = head.tree
  /\ DOMAIN parse_status = DOMAIN EXPECTED_CHANGES \cup PRESERVED_UNTRACKED
  /\ \A p \in DOMAIN parse_status :
       parse_status[p] = IF p \in PRESERVED_UNTRACKED THEN "A" ELSE EXPECTED_CHANGES[p]
verify_branch_name == ~switched
verify_remote_branch_absent == branch = NoCommit
verify_base_tree == head.tree = tracking.tree
verify_staged_changes == exactly_expected(name_status(head.tree, index))
verify_committed == exactly_expected(name_status(tracking.tree, head.tree))
verify_preserved_untracked ==
  /\ index = head.tree
  /\ \A p \in Paths : p \in PRESERVED_UNTRACKED <=> work[p] # head.tree[p]
  /\ \A p \in PRESERVED_UNTRACKED : Untracked(p)

-----------------------------------------------------------------------------
(* Each step succeeds and the tool goes on, or it stops where it is: what it *)
(* has done by then stays done.                                              *)
Goes(from, to, ok) == step = from /\ step' = IF ok THEN to ELSE "stopped"

preflight ==
  /\ Goes("start", "fetch",
       verify_branch_name /\ verify_remote_branch_absent /\ verify_expected_changes)
  /\ UNCHANGED <<main, branch, repository, pr, happened>>
fetch ==
  /\ Goes("fetch", "base", TRUE)
  /\ tracking' = main
  /\ UNCHANGED <<main, branch, head, switched, index, work, pr, happened>>
check_base ==
  /\ Goes("base", "confirm", verify_base_tree)
  /\ UNCHANGED <<main, branch, repository, pr, happened>>

(* git switch takes the tracked commit as it is now.  Paths that differ in   *)
(* it are brought up to date, and a local change of one of them is refused.  *)
CanSwitch == \A p \in Paths : head.tree[p] # tracking.tree[p] => work[p] = head.tree[p]
switch_branch ==
  /\ Goes("confirm", "add", CanSwitch)
  /\ IF CanSwitch
     THEN /\ head' = tracking /\ index' = tracking.tree /\ switched' = TRUE
          /\ work' = [p \in Paths |->
                        IF head.tree[p] # tracking.tree[p] THEN tracking.tree[p] ELSE work[p]]
     ELSE UNCHANGED <<head, index, switched, work>>
  /\ UNCHANGED <<main, branch, tracking, pr, happened>>
decline ==
  /\ Goes("confirm", "stopped", TRUE)
  /\ UNCHANGED <<main, branch, repository, pr, happened>>

(* git add of the expected paths only; a path that is nowhere is an error. *)
Addable == \A p \in DOMAIN EXPECTED_CHANGES : work[p] # NoFile \/ index[p] # NoFile
add_paths ==
  /\ Goes("add", "staged", Addable)
  /\ index' = IF Addable THEN [p \in Paths |-> IF p \in DOMAIN EXPECTED_CHANGES THEN work[p] ELSE index[p]]
              ELSE index
  /\ UNCHANGED <<main, branch, tracking, head, switched, work, pr, happened>>
check_staged_paths ==
  /\ Goes("staged", "commit", verify_staged_changes)
  /\ UNCHANGED <<main, branch, repository, pr, happened>>
commit_paths ==
  /\ Goes("commit", "committed", TRUE)
  /\ head' = [of |-> "launch", base |-> head.tree, tree |-> index]
  /\ UNCHANGED <<main, branch, tracking, switched, index, work, pr, happened>>
check_committed ==
  /\ Goes("committed", "kept", verify_committed)
  /\ UNCHANGED <<main, branch, repository, pr, happened>>
check_preserved ==
  /\ Goes("kept", "push", verify_preserved_untracked)
  /\ UNCHANGED <<main, branch, repository, pr, happened>>

(* Fault: a push without the empty lease moves a branch forward that         *)
(* somebody has created at the commit this one is based on.                  *)
lease_fast_forward == branch = NoCommit \/ branch.tree = head.base
lease_holds == branch = NoCommit
push_branch ==
  /\ Goes("push", "offer", lease_holds)
  /\ branch' = IF lease_holds THEN head ELSE branch
  /\ UNCHANGED <<main, repository, pr, happened>>
open_pull_request ==
  /\ Goes("offer", "done", TRUE)
  /\ pr' = branch
  /\ UNCHANGED <<main, branch, repository, happened>>

-----------------------------------------------------------------------------
(* The surroundings. *)
Meanwhile == happened < MaxPrEvents /\ happened' = happened + 1 /\ step \notin {"stopped", "done"}

edit_path(p, contents) ==
  /\ Meanwhile /\ work[p] # contents
  /\ work' = [work EXCEPT ![p] = contents]
  /\ UNCHANGED <<main, branch, tracking, head, switched, index, pr, step>>
move_main(tree) ==
  /\ Meanwhile /\ main.tree # tree /\ main' = Main(tree)
  /\ UNCHANGED <<branch, repository, pr, step>>
fetched_elsewhere ==
  /\ Meanwhile /\ tracking # main /\ tracking' = main
  /\ UNCHANGED <<main, branch, head, switched, index, work, pr, step>>
branch_elsewhere ==
  /\ Meanwhile /\ branch = NoCommit /\ branch' = main
  /\ UNCHANGED <<main, repository, pr, step>>
(* A command fails, or the tool is interrupted. *)
pr_fault ==
  /\ Meanwhile /\ step' = "stopped"
  /\ UNCHANGED <<main, branch, repository, pr>>

(* The tool is started again as things stand. *)
start_again ==
  /\ step = "stopped" /\ step' = "start"
  /\ UNCHANGED <<main, branch, repository, pr, happened>>

PrInit ==
  /\ main = Main(FirstMain) /\ branch = NoCommit /\ tracking = main
  /\ head = main /\ switched = FALSE /\ index = FirstMain /\ work = FirstWork
  /\ pr = NoCommit /\ step = "start" /\ happened = 0

PrNext ==
  \/ preflight \/ fetch \/ check_base \/ switch_branch \/ decline \/ add_paths
  \/ check_staged_paths \/ commit_paths \/ check_committed \/ check_preserved
  \/ push_branch \/ open_pull_request
  \/ \E p \in Paths : \E contents \in Edits[p] : edit_path(p, contents)
  \/ \E tree \in MainTrees : move_main(tree)
  \/ fetched_elsewhere \/ branch_elsewhere \/ pr_fault \/ start_again

-----------------------------------------------------------------------------
(* What is offered is one commit on a tree that main had, and it changes the *)
(* listed paths in the listed way and no other: whatever was edited, fetched *)
(* or merged while the tool waited, nothing else has slipped in or out.      *)
PrIsExact ==
  pr # NoCommit =>
    /\ pr.base \in MainTrees \cup {FirstMain}
    /\ name_status(pr.base, pr.tree) = EXPECTED_CHANGES
    /\ \A p \in PRESERVED_UNTRACKED : pr.tree[p] = NoFile
=============================================================================
