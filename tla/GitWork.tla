------------------------------- MODULE GitWork -------------------------------
(***************************************************************************)
(* What git holds of one mission, and who changes it: the webhook's        *)
(* Git-as-SSOT step, the git endpoints of the control dashboard, and the   *)
(* worker's coding tasks.  The first two work in the mission's clone, the  *)
(* tasks in a worktree of it that all of them share.  Each git command is  *)
(* a step; the row is written in a step after it.  The name of the branch  *)
(* is the one the row has when a request loads it, and requests may change *)
(* it.                                                                     *)
(***************************************************************************)
EXTENDS Naturals, FiniteSets

CONSTANTS
  Calls,          \* requests of the webhook and of the control dashboard
  Tasks,          \* attempts of coding tasks
  Names,          \* names that the branch of the mission may be given
  ParallelTasks,  \* TRUE when the tasks of a layer may run at once
  NoName,         \* no name is on record, or was needed
  NoTree          \* the worktree does not exist

ASSUME GitAssumption ==
  /\ ParallelTasks \in BOOLEAN
  /\ Calls \cap Tasks = {}
  /\ NoName \notin Names \cup {"main"}
  /\ NoTree \notin [branch: Names, work: SUBSET Tasks]

VARIABLES
  branches,       \* the local branches of the clone; none before it exists
  head,           \* the branch that is checked out in the clone
  commits,        \* commits[b]: the work that branch b contains
  staged,         \* work in the index of the clone and not committed
  dirty,          \* work in the files of the clone and not staged
  tree,           \* the branch of the worktree and the uncommitted work in
                  \* it, or NoTree
  row,            \* the mission's row: the name for its branch, the branch
                  \* on record, and whether it is merged
  op,             \* op[c]: what call c was asked
  name,           \* name[p]: the branch that call or task p read in the row
  pc              \* pc[p]: where call or task p stands

vars == <<branches, head, commits, staged, dirty, tree, row, op, name, pc>>
cloneVars == <<branches, head, commits, staged, dirty>>

(* A piece of work is named for the call or the task that made it.         *)
Work == Calls \cup Tasks
Branches == Names \cup {"main"}
Ops == {"webhook", "branch", "commit", "squash", "merge", "auto_run"}
Outcomes == {"done", "merged", "error", "failed", "no_worktree", "completed", "dead"}
Locations == {"idle", "clone", "switch", "spec", "record_branch", "load", "create",
              "agent", "commit", "checkout", "merge", "record_merge", "worktree",
              "push", "record"} \cup Outcomes

Goto(p, location) == pc' = [pc EXCEPT ![p] = location]

Active(p) == pc[p] \notin {"idle"} \cup Outcomes

(* Git checks a branch out in one place at a time.                         *)
InWorktree(b) == tree # NoTree /\ tree.branch = b

(* What a commit would add to the branch that is checked out.              *)
InIndex == staged \ commits[head]
Uncommitted == (staged \cup dirty) \ commits[head]

(* Commit work to the branch that is checked out.                          *)
CommitToHead(work) == commits' = [commits EXCEPT ![head] = @ \cup work]

(* There may be a clone, of an earlier request that got no further.        *)
Init ==
  /\ branches \in {{}, {"main"}} /\ head = "main"
  /\ commits = [b \in Branches |-> {}]
  /\ staged = {} /\ dirty = {}
  /\ tree = NoTree
  /\ \E b \in Names : row = [prefix |-> b, branch |-> NoName, merged |-> FALSE]
  /\ op = [c \in Calls |-> "commit"]
  /\ name = [p \in Work |-> NoName]
  /\ pc = [p \in Work |-> "idle"]

-----------------------------------------------------------------------------
(* Calls.  A merge needs the branch on record when it loads the row.       *)
FirstStep(o) ==
  LET merging == IF row.branch = NoName THEN "error" ELSE "checkout"
  IN  [webhook |-> "clone", branch |-> "create", auto_run |-> "load",
       commit |-> "commit", squash |-> merging, merge |-> merging][o]

(* The branch that a call reads in the row it loads.                       *)
NameFor(o) ==
  [webhook |-> row.prefix, branch |-> row.prefix, auto_run |-> NoName,
   commit |-> NoName, squash |-> row.branch, merge |-> row.branch][o]

(* The webhook works on the event loop, so that deliveries follow each     *)
(* other; the other requests begin and go on in their threads.             *)
LoopIsFree == \A d \in Calls : op[d] = "webhook" => ~Active(d)

(* Give the branch of the mission a name.                                  *)
Rename == \E b \in Names : row' = [row EXCEPT !.prefix = b]

(* An autonomous run begins by writing the name it was sent, if any.       *)
Begin(c) ==
  /\ pc[c] = "idle"
  /\ \E o \in Ops :
       /\ o = "webhook" => LoopIsFree
       /\ op' = [op EXCEPT ![c] = o]
       /\ name' = [name EXCEPT ![c] = NameFor(o)]
       /\ UNCHANGED row \/ (o = "auto_run" /\ Rename)
       /\ Goto(c, FirstStep(o))
  /\ UNCHANGED <<cloneVars, tree>>

(* The row is read again after it was written, by whomever.                *)
LoadName(c) ==
  /\ pc[c] = "load"
  /\ name' = [name EXCEPT ![c] = row.prefix]
  /\ Goto(c, "create")
  /\ UNCHANGED <<cloneVars, tree, row, op>>

(* The PUT endpoint changes the name at any time.                          *)
PutName == Rename /\ UNCHANGED <<cloneVars, tree, op, name, pc>>

(* A git command of call c fails and leaves the repository as it was.      *)
GitRefuses(c, location) ==
  /\ pc[c] = location
  /\ Goto(c, "error")
  /\ UNCHANGED <<cloneVars, tree, row, op, name>>

(* create_branch_and_spec(): clone unless there is a clone.                *)
Clone(c) ==
  /\ pc[c] = "clone"
  /\ branches' = branches \cup {"main"}
  /\ Goto(c, "switch")
  /\ UNCHANGED <<head, commits, staged, dirty, tree, row, op, name>>

(* Check the branch out, created at HEAD when there is none.               *)
SwitchBranch(c) ==
  /\ pc[c] = "switch"
  /\ ~InWorktree(name[c])
  /\ branches' = branches \cup {name[c]}
  /\ commits' = IF name[c] \in branches THEN commits
                ELSE [commits EXCEPT ![name[c]] = commits[head]]
  /\ head' = name[c]
  /\ Goto(c, "spec")
  /\ UNCHANGED <<staged, dirty, tree, row, op, name>>

(* Commit the specification, with what is in the index, to what is checked *)
(* out now.                                                                *)
CommitSpec(c) ==
  /\ pc[c] = "spec"
  /\ CommitToHead(InIndex \cup {c})
  /\ staged' = {}
  /\ Goto(c, "record_branch")
  /\ UNCHANGED <<branches, head, dirty, tree, row, op, name>>

(* Faulty variant: a branch that exists already is taken over.             *)
CheckoutBranch(c) ==
  /\ pc[c] = "create"
  /\ branches # {} /\ ~InWorktree(name[c])
  /\ branches' = branches \cup {name[c]}
  /\ commits' = [commits EXCEPT ![name[c]] = commits[head]]
  /\ head' = name[c]
  /\ Goto(c, "record_branch")
  /\ UNCHANGED <<staged, dirty, tree, row, op, name>>

(* checkout -b: in an existing clone, and only when there is no branch of  *)
(* that name.                                                              *)
CreateBranch(c) ==
  /\ pc[c] = "create"
  /\ branches # {} /\ name[c] \notin branches
  /\ branches' = branches \cup {name[c]}
  /\ commits' = [commits EXCEPT ![name[c]] = commits[head]]
  /\ head' = name[c]
  /\ Goto(c, "record_branch")
  /\ UNCHANGED <<staged, dirty, tree, row, op, name>>

(* Faulty variant: the name is read again, and may have been changed.      *)
RecordLatestName(c) ==
  /\ pc[c] = "record_branch"
  /\ row' = [row EXCEPT !.branch = row.prefix]
  /\ Goto(c, IF op[c] = "auto_run" THEN "agent" ELSE "done")
  /\ UNCHANGED <<cloneVars, tree, op, name>>

(* The name goes into the row.  The webhook may have loaded a row that had *)
(* it: then nothing is sent, and what others recorded since stays.         *)
RecordBranch(c) ==
  /\ pc[c] = "record_branch"
  /\ \/ row' = [row EXCEPT !.branch = name[c]]
     \/ op[c] = "webhook" /\ row.branch # NoName /\ UNCHANGED row
  /\ Goto(c, IF op[c] = "auto_run" THEN "agent" ELSE "done")
  /\ UNCHANGED <<cloneVars, tree, op, name>>

(* The autonomous run goes on whether its agent succeeds, fails or raises. *)
RunAgent(c) ==
  /\ pc[c] = "agent" /\ c \in Calls
  /\ dirty' \in {dirty, dirty \cup {c}}
  /\ Goto(c, "commit")
  /\ UNCHANGED <<branches, head, commits, staged, tree, row, op, name>>

(* add -A and commit, which fails when there is nothing to commit.  Only   *)
(* the autonomous run goes on, when it was asked to merge.                 *)
CommitAll(c) ==
  /\ pc[c] = "commit"
  /\ branches # {} /\ Uncommitted # {}
  /\ CommitToHead(Uncommitted)
  /\ staged' = {} /\ dirty' = {}
  /\ \/ Goto(c, "done")
     \/ op[c] = "auto_run" /\ Goto(c, "checkout")
  /\ UNCHANGED <<branches, head, tree, row, op, name>>

(* merge_branch(): check main out; uncommitted work is carried along.      *)
CheckoutTarget(c) ==
  /\ pc[c] = "checkout"
  /\ ~InWorktree("main")
  /\ head' = "main"
  /\ Goto(c, "merge")
  /\ UNCHANGED <<branches, commits, staged, dirty, tree, row, op, name>>

(* What the branch of the call has and the one that is checked out lacks.  *)
Unmerged(c) == commits[name[c]] \ commits[head]

(* Faulty variant: a merge that failed is taken for one that was made.     *)
MergeAnyway(c) ==
  /\ pc[c] = "merge"
  /\ Goto(c, "record_merge")
  /\ UNCHANGED <<cloneVars, tree, row, op, name>>

(* Merge into what is checked out now.  A squash fails when it leaves      *)
(* nothing to commit; a merge is then up to date.                          *)
MergeBranch(c) ==
  /\ pc[c] = "merge"
  /\ op[c] # "merge" => Unmerged(c) \cup InIndex # {}
  /\ IF op[c] = "merge"
       THEN CommitToHead(Unmerged(c)) /\ UNCHANGED staged
       ELSE CommitToHead(Unmerged(c) \cup InIndex) /\ staged' = {}
  /\ Goto(c, "record_merge")
  /\ UNCHANGED <<branches, head, dirty, tree, row, op, name>>

(* A conflict, or a commit that fails after the squash: the work stays in  *)
(* the index.                                                              *)
MergeConflicts(c) ==
  /\ pc[c] = "merge"
  /\ Unmerged(c) # {}
  /\ staged' = staged \cup Unmerged(c)
  /\ Goto(c, "error")
  /\ UNCHANGED <<branches, head, commits, dirty, tree, row, op, name>>

RecordMerge(c) ==
  /\ pc[c] = "record_merge"
  /\ row' = [row EXCEPT !.merged = TRUE]
  /\ Goto(c, "merged")
  /\ UNCHANGED <<cloneVars, tree, op, name>>

-----------------------------------------------------------------------------
(* Tasks of a coder agent, once the branch is on record.                   *)
StartTask(t) ==
  /\ pc[t] = "idle"
  /\ row.branch # NoName
  /\ ParallelTasks \/ \A u \in Tasks : ~Active(u)
  /\ name' = [name EXCEPT ![t] = row.branch]
  /\ Goto(t, "worktree")
  /\ UNCHANGED <<cloneVars, tree, row, op>>

(* git worktree add.                                                       *)
AddWorktree(t) == tree' = [branch |-> name[t], work |-> {}] /\ Goto(t, "agent")

(* Faulty variant: the worktree of an earlier task is used again.          *)
ReuseWorktree(t) ==
  /\ pc[t] = "worktree"
  /\ IF InWorktree(name[t]) THEN UNCHANGED tree /\ Goto(t, "agent")
     ELSE IF head = name[t] THEN UNCHANGED tree /\ Goto(t, "no_worktree")
     ELSE AddWorktree(t)
  /\ UNCHANGED <<cloneVars, row, op, name>>

(* create_worktree(): a worktree left behind is removed with what is in it *)
(* and a new one is made, unless the clone has the branch checked out.     *)
CreateWorktree(t) ==
  /\ pc[t] = "worktree"
  /\ IF head = name[t] THEN tree' = NoTree /\ Goto(t, "no_worktree")
     ELSE AddWorktree(t)
  /\ UNCHANGED <<cloneVars, row, op, name>>

AgentWrites(t) ==
  /\ pc[t] = "agent" /\ t \in Tasks
  /\ tree # NoTree /\ t \notin tree.work
  /\ tree' = [tree EXCEPT !.work = @ \cup {t}]
  /\ UNCHANGED <<cloneVars, row, op, name, pc>>

(* It fails, exceeds its time or is not found, or ends with exit code 0.   *)
AgentEnds(t) ==
  /\ pc[t] = "agent" /\ t \in Tasks
  /\ \E location \in {"failed", "push"} : Goto(t, location)
  /\ UNCHANGED <<cloneVars, tree, row, op, name>>

(* commit_and_push(): add -A and commit in the worktree.                   *)
CommitAndPush(t) ==
  /\ pc[t] = "push"
  /\ tree # NoTree
  /\ commits' = [commits EXCEPT ![tree.branch] = @ \cup tree.work]
  /\ tree' = [tree EXCEPT !.work = {}]
  /\ Goto(t, "record")
  /\ UNCHANGED <<branches, head, staged, dirty, row, op, name>>

(* A commit that raises is logged, and the task goes on.                   *)
CommitRaises(t) ==
  /\ pc[t] = "push"
  /\ Goto(t, "record")
  /\ UNCHANGED <<cloneVars, tree, row, op, name>>

(* The task is recorded as completed.  No pull request has been opened:    *)
(* open_pr() starts gh in the directory named after the branch, while      *)
(* clones are named after missions, and what that raises is logged.        *)
RecordSuccess(t) ==
  /\ pc[t] = "record"
  /\ Goto(t, "completed")
  /\ UNCHANGED <<cloneVars, tree, row, op, name>>

(* The process dies; files stay as they are.                               *)
Crash ==
  /\ \E p \in Work : Active(p)
  /\ pc' = [p \in Work |-> IF Active(p) THEN "dead" ELSE pc[p]]
  /\ UNCHANGED <<cloneVars, tree, row, op, name>>

CallStep(c) ==
  \/ Begin(c)
  \/ LoadName(c)
  \/ \E location \in {"clone", "switch", "spec", "create", "commit", "checkout", "merge"} :
       GitRefuses(c, location)
  \/ Clone(c) \/ SwitchBranch(c) \/ CommitSpec(c)
  \/ CreateBranch(c) \/ RecordBranch(c)
  \/ RunAgent(c) \/ CommitAll(c)
  \/ CheckoutTarget(c) \/ MergeBranch(c) \/ MergeConflicts(c) \/ RecordMerge(c)

TaskStep(t) ==
  \/ StartTask(t) \/ CreateWorktree(t)
  \/ AgentWrites(t) \/ AgentEnds(t)
  \/ CommitAndPush(t) \/ CommitRaises(t) \/ RecordSuccess(t)

Next ==
  \/ \E c \in Calls : CallStep(c)
  \/ \E t \in Tasks : TaskStep(t)
  \/ PutName
  \/ Crash

Spec == Init /\ [][Next]_vars

-----------------------------------------------------------------------------
(* Only requests leave work in the files of the clone, and only tasks in   *)
(* the worktree; what is checked out exists.                               *)
TypeOK ==
  /\ branches \in SUBSET Branches /\ (branches # {} => "main" \in branches)
  /\ head \in branches \cup {"main"}
  /\ commits \in [Branches -> SUBSET Work]
  /\ staged \in SUBSET Work /\ dirty \in SUBSET Calls
  /\ tree \in [branch: Names, work: SUBSET Tasks] \cup {NoTree}
  /\ row \in [prefix: Names, branch: Names \cup {NoName}, merged: BOOLEAN]
  /\ op \in [Calls -> Ops]
  /\ name \in [Work -> Names \cup {NoName}]
  /\ pc \in [Work -> Locations]

(* The work of an attempt that failed stays out of every branch, although  *)
(* it is left in a directory that later attempts commit whole.             *)
FailedWorkStaysOut ==
  \A t \in Tasks : pc[t] \in {"failed", "no_worktree"} =>
    \A b \in Branches : t \notin commits[b]

(* An autonomous run whose agent may be in the clone, or that has yet to   *)
(* commit or merge what the agent made.                                    *)
RunsIn(c) == op[c] = "auto_run" /\ pc[c] \in {"agent", "commit", "checkout", "merge"}

(* Two autonomous runs are never at work for the same branch: creating it  *)
(* is all that keeps the second one out.                                   *)
OneRunPerBranch ==
  \A c, d \in Calls : RunsIn(c) /\ RunsIn(d) /\ name[c] = name[d] => c = d

(* The branch on record is one that the clone has, and so is the one that  *)
(* a task or a merge goes on to use, although the name for it is changed   *)
(* and the process dies between the git command and the record of it.      *)
RecordedBranchExists ==
  /\ row.branch # NoName => row.branch \in branches
  /\ \A t \in Tasks : pc[t] = "worktree" => name[t] \in branches
  /\ \A c \in Calls : pc[c] \in {"checkout", "merge"} => name[c] \in branches

(* So far the requests have all been about one branch.                     *)
OneName ==
  \A c, d \in Calls : name[c] # NoName /\ name[d] # NoName => name[c] = name[d]

(* While the branch keeps its name, what the agent of an autonomous run    *)
(* made is in main when the run reports a merge, or is nowhere, whoever    *)
(* has committed it or checked another branch out meanwhile.               *)
AutoRunWorkIsMerged ==
  OneName => \A c \in Calls : op[c] = "auto_run" /\ pc[c] = "merged" =>
    \/ c \in commits["main"]
    \/ c \notin staged \cup dirty /\ \A b \in Branches : c \notin commits[b]

(* A coding task whose mission has its clone and its branch gets a         *)
(* worktree of that branch, as the steps listed above the dispatch say.    *)
WorktreeIsGranted == \A t \in Tasks : pc[t] # "no_worktree"

=============================================================================
