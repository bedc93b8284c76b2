------------------------------- MODULE Control -------------------------------
(***************************************************************************)
(* The control dashboard of api/v1/control.py and the escalation of the    *)
(* worker, beside the mission endpoints.  None of them locks the row: each *)
(* loads it, works (for minutes, when it dispatches an agent), and writes  *)
(* back what it derived from the copy it loaded.                           *)
(***************************************************************************)
EXTENDS Missions

CONSTANTS
  Serves,         \* Serves[p]: names of the operations request p may be for
  ReviewModel     \* TRUE when SOY_REVIEW_MODEL is set

ASSUME ControlAssumption == ReviewModel \in BOOLEAN

ControlOps == {"refine", "research", "verify", "review_plan", "commit_changes",
               "start_execution", "create_branch", "merge_branch", "record_git"}

ControlCalls ==
  [op: ControlOps \cup {"escalate"}]
    \cup [op: {"auto_run"}, step: {"branch", "commit", "merge"}]

(* What a client may send: an autonomous run starts with its branch.       *)
NewCalls(p) ==
  {c \in ControlCalls : c.op \in Serves[p] /\ (c.op = "auto_run" => c.step = "branch")}

-----------------------------------------------------------------------------
Start(p, c) ==
  /\ OpenUnlocked(p, c)
  /\ UNCHANGED <<row, approvals, rejections>>

(* Commit what p made of its copy of the row, and end the request.         *)
WriteBack(p, new, mark) ==
  /\ MayWrite(p)
  /\ row' = Flush(p, new, mark)
  /\ Close(p)
  /\ UNCHANGED <<approvals, rejections>>

(* The blob was copied before an agent, or git, was called and is written  *)
(* whole after it returned, with its outcome, good or bad, added.          *)
StoreOutcome(p, md) == WriteBack(p, [read[p] EXCEPT !.md = md], TRUE)

Refine(p) == call[p].op = "refine" /\ StoreOutcome(p, read[p].md)

Research(p) == call[p].op = "research" /\ StoreOutcome(p, read[p].md)

CommitChanges(p) == call[p].op = "commit_changes" /\ StoreOutcome(p, read[p].md)

(* Its verdict, audit_passed, is asked for by no guard.                    *)
Verify(p) == call[p].op = "verify" /\ StoreOutcome(p, read[p].md)

(* The verdict PASS sets the flag; another verdict leaves it as it was.    *)
ReviewPlan(p) ==
  /\ call[p].op = "review_plan"
  /\ \/ StoreOutcome(p, read[p].md)
     \/ StoreOutcome(p, [read[p].md EXCEPT !.review_passed = TRUE])

(* The worker's, or the webhook's, git step records what it did in the     *)
(* blob, unless all it changed is inside a value it shares with its copy.  *)
RecordGit(p) ==
  /\ call[p].op = "record_git"
  /\ \E replaced \in BOOLEAN, branch \in {read[p].branch, TRUE} :
       WriteBack(p, [read[p] EXCEPT !.branch = branch], replaced)

(* POST /start-execution: approves the planning and enters execution.  A   *)
(* call in execution commits nothing; other statuses, or a missing review, *)
(* are refused.                                                            *)
StartExecution(p) ==
  /\ call[p].op = "start_execution"
  /\ LET r == read[p]
     IN  IF ReviewModel => r.md.review_passed
           THEN \/ /\ r.status \in {"created", "planning"}
                   /\ WriteBack(p, [r EXCEPT !.status = "execution",
                                             !.md.planning_complete = TRUE], TRUE)
                \/ /\ r.status = "approved"
                   /\ WriteBack(p, [r EXCEPT !.status = "execution"], FALSE)
                \/ /\ r.status \notin {"created", "planning", "approved"}
                   /\ Refuse(p)
           ELSE Refuse(p)

(* POST /branch, when the git command succeeds.                            *)
CreateBranch(p) ==
  /\ call[p].op = "create_branch"
  /\ WriteBack(p, [read[p] EXCEPT !.branch = TRUE], FALSE)

(* POST /merge: once git has merged the branch the mission is merged,      *)
(* whatever its status and approvals.                                      *)
MergeBranch(p) ==
  /\ call[p].op = "merge_branch"
  /\ IF read[p].branch
       THEN WriteBack(p, [read[p] EXCEPT !.status = "merged"], TRUE)
       ELSE Refuse(p)

(* POST /auto-run commits three times in one session, whose copy of the    *)
(* row follows only its own writes; the run ends when a commit fails.      *)
AutoRunStep(p, new, mark, next) ==
  /\ row.exists
  /\ MayWrite(p)
  /\ row' = Flush(p, new, mark)
  /\ read' = [read EXCEPT ![p] = new]
  /\ call' = [call EXCEPT ![p].step = next]
  /\ UNCHANGED <<lock, approvals, rejections>>

AutoRunBranch(p) ==
  /\ call[p].op = "auto_run" /\ call[p].step = "branch"
  /\ AutoRunStep(p, [read[p] EXCEPT !.branch = TRUE], FALSE, "commit")

AutoRunCommit(p) ==
  /\ call[p].op = "auto_run" /\ call[p].step = "commit"
  /\ AutoRunStep(p, read[p], TRUE, "merge")

(* It ends there unless it was asked to merge.                             *)
AutoRunMerge(p) ==
  /\ call[p].op = "auto_run" /\ call[p].step = "merge"
  /\ \/ WriteBack(p, [read[p] EXCEPT !.status = "merged"], TRUE)
     \/ Refuse(p)

(* The worker, when a task has used up its attempts: it looks at its own   *)
(* copy of the mission and escalates it unless that copy is terminal.      *)
Escalate(p) ==
  /\ call[p].op = "escalate"
  /\ IF read[p].status \in {"merged", "escalated"}
       THEN Refuse(p)
       ELSE WriteBack(p, [read[p] EXCEPT !.status = "escalated"], FALSE)

ControlStep(p) ==
  \/ \E c \in NewCalls(p) : Start(p, c)
  \/ Refine(p) \/ Research(p) \/ CommitChanges(p)
  \/ Verify(p) \/ ReviewPlan(p)
  \/ RecordGit(p)
  \/ StartExecution(p)
  \/ CreateBranch(p)
  \/ MergeBranch(p)
  \/ AutoRunBranch(p)
  \/ AutoRunCommit(p)
  \/ AutoRunMerge(p)
  \/ Escalate(p)

ApiStep(p) ==
  \/ \E c \in {c \in LockedCalls : c.op \in Serves[p]} : Request(p, c)
  \/ Transition(p)
  \/ Reject(p)
  \/ Approve(p)
  \/ Update(p)
  \/ "delete" \in Serves[p] /\ Delete(p)
  \/ Abort(p)

ControlNext == \E p \in Requests : ControlStep(p) \/ ApiStep(p)

ControlSpec == Init /\ [][ControlNext]_vars

-----------------------------------------------------------------------------
(* Writers that never lock can lose rejections but not invent them: the    *)
(* counter stays at or below the rejections answered, so no mission is     *)
(* escalated by the threshold before its fourth rejection.                 *)
NeverOverCounted == row.md.rejection_count <= rejections

(* A merged mission has a branch on record that was merged, or an approval *)
(* of the merge.  Dashboard requests that merge have looked at a copy of   *)
(* the row only, and others write the row back meanwhile; none of them     *)
(* takes the branch away again.                                            *)
MergedForCause ==
  row.exists /\ row.status = "merged" => row.branch \/ "merge" \in approvals

(* While a locked session is deciding, the status moves only by its own    *)
(* write, along an edge and through the gates, whatever the unlocked       *)
(* endpoints and the worker are doing meanwhile.                           *)
LockedChangeIsLegal ==
  [][lock # NoRequest /\ row'.status # row.status
       => /\ call'[lock] = NoCall
          /\ LegalChange(row.status, row'.status)
          /\ row'.status = "execution" => row.md.planning_complete
          /\ row'.status = "merged" => "merge" \in approvals]_vars

=============================================================================
