----------------------------- MODULE TaskRetry -----------------------------
(***************************************************************************)
(* execute_task of services/praisonai_worker.py on one task: attempts with *)
(* a persisted budget, execution rows, retry or escalation, and the events *)
(* published on the way.  A run is one call of execute_task (one POST of   *)
(* /execute); a fault is the death of the process with all its runs, or an  *)
(* exception that ends one of them.                                        *)
(***************************************************************************)
EXTENDS Naturals, Sequences, FiniteSets

CONSTANTS
  Runs,           \* calls of execute_task for the task
  Overlapping,    \* TRUE when a run may start before the previous one ended
  AgentsVanish,   \* TRUE: the agent row may be gone, which no endpoint causes
  MaxFaults,      \* bound of the model: crashes and exceptions
  NoCopy          \* the copy of the task a run has not loaded

ASSUME RetryAssumption ==
  /\ Overlapping \in BOOLEAN /\ AgentsVanish \in BOOLEAN
  /\ MaxFaults \in Nat

VARIABLES
  task,           \* the committed tasks row: status and attempt_count
  mission,        \* the committed status of the parent mission, abstracted
  rows,           \* the executions rows, in the order they were committed
  events,         \* what was published, in order
  pc,             \* pc[r]: where run r stands
  attempt,        \* attempt[r]: the loop index of r
  seen,           \* seen[r]: the tasks row as the current session of r loaded it
  spared,         \* spared[r]: that session found the mission merged or escalated
  faults,         \* crashes and exceptions so far
  deleted         \* the mission was deleted, with its task and the rows

vars == <<task, mission, rows, events, pc, attempt, seen, spared, faults, deleted>>

MaxAttempts == 3

Finished == {"completed", "escalated"}
TaskStatus == {"pending", "running"} \cup Finished

(* The columns of a task that change.                                      *)
Task == [status: TaskStatus, count: Nat]

Locations == {"idle", "load", "count", "work", "commit_completed", "publish",
              "commit_pending", "refresh", "refresh_missing", "commit_escalated",
              "done", "dead"}

Active(r) == pc[r] \notin {"idle", "done", "dead"}

Init ==
  /\ task = [status |-> "pending", count |-> 0]
  /\ mission = "active"
  /\ rows = <<>>
  /\ events = <<>>
  /\ pc = [r \in Runs |-> "idle"]
  /\ attempt = [r \in Runs |-> 0]
  /\ seen = [r \in Runs |-> NoCopy]
  /\ spared = [r \in Runs |-> FALSE]
  /\ faults = 0
  /\ deleted = FALSE

-----------------------------------------------------------------------------
Goto(r, location) == pc' = [pc EXCEPT ![r] = location]

(* Commit of r's session: a column is written when the value assigned      *)
(* differs from the one the session loaded.                                *)
Assigned(loaded, new, current) == IF new = loaded THEN current ELSE new

SetStatus(r, status) ==
  [task EXCEPT !.status = Assigned(seen[r].status, status, @)]

AddRow(r, status) ==
  rows' = Append(rows, [attempt |-> attempt[r], status |-> status])

Begin(r) ==
  /\ pc[r] = "idle"
  /\ Overlapping \/ \A q \in Runs : ~Active(q)
  /\ Goto(r, "load")
  /\ attempt' = [attempt EXCEPT ![r] = 1]
  /\ UNCHANGED <<task, mission, rows, events, seen, spared, faults, deleted>>

(* Faulty variant: a finished task is run again.                           *)
LoadFinished(r) ==
  /\ pc[r] = "load"
  /\ Goto(r, "count")
  /\ seen' = [seen EXCEPT ![r] = task]
  /\ UNCHANGED <<task, mission, rows, events, attempt, spared, faults, deleted>>

(* The terminal-state guard of an attempt, on the row it loads.            *)
Load(r) ==
  /\ pc[r] = "load"
  /\ IF task.status \in Finished
       THEN Goto(r, "done") /\ UNCHANGED seen
       ELSE Goto(r, "count") /\ seen' = [seen EXCEPT ![r] = task]
  /\ UNCHANGED <<task, mission, rows, events, attempt, spared, faults, deleted>>

Counted(r) == [SetStatus(r, "running") EXCEPT !.count = seen[r].count + 1]

(* Faulty variant: the count follows the index of the loop.                *)
CountByIndex(r) ==
  /\ pc[r] = "count"
  /\ task' = [Counted(r) EXCEPT !.count = attempt[r]]
  /\ Goto(r, "work")
  /\ UNCHANGED <<mission, rows, events, attempt, seen, spared, faults, deleted>>

(* The attempt is counted and committed before any work.                   *)
CountAttempt(r) ==
  /\ pc[r] = "count"
  /\ task' = Counted(r)
  /\ Goto(r, "work")
  /\ UNCHANGED <<mission, rows, events, attempt, seen, spared, faults, deleted>>

(* Faulty variant: the event has a name nobody subscribes to.              *)
MisnamedEvents == <<"task.failed", "mission.escalated">>

EscalationEvents == <<"task.escalated", "mission.escalated">>

(* Faulty variants: one attempt too few, or one too many.                  *)
BudgetShort(count) == count + 1 < MaxAttempts

BudgetLong(count) == count <= MaxAttempts

(* Asked after the attempt was counted: TRUE when another one may follow.  *)
BudgetLeft(count) == count < MaxAttempts

(* The agent row is gone: the attempt is counted and recorded as failed in *)
(* one transaction, which has flushed, and so locked, the task.            *)
AgentNotFound(r) ==
  /\ AgentsVanish
  /\ pc[r] = "count"
  /\ AddRow(r, "failed")
  /\ IF BudgetLeft(Counted(r).count)
       THEN /\ task' = [Counted(r) EXCEPT !.status = "pending"]
            /\ Goto(r, "refresh_missing")
            /\ UNCHANGED <<mission, events>>
       ELSE /\ task' = [Counted(r) EXCEPT !.status = "escalated"]
            /\ mission' = IF mission = "active" THEN "escalated" ELSE mission
            /\ events' = events \o EscalationEvents
            /\ Goto(r, "done")
  /\ UNCHANGED <<attempt, seen, spared, faults, deleted>>

(* Faulty variant: completion, like escalation, is published early.        *)
SucceedAnnounced(r) ==
  /\ pc[r] = "work"
  /\ Goto(r, "commit_completed")
  /\ seen' = [seen EXCEPT ![r] = task]
  /\ events' = Append(events, "task.completed")
  /\ UNCHANGED <<task, mission, rows, attempt, spared, faults, deleted>>

(* The workflow returned an answer: a new session loads the task.          *)
Succeed(r) ==
  /\ pc[r] = "work"
  /\ Goto(r, "commit_completed")
  /\ seen' = [seen EXCEPT ![r] = task]
  /\ UNCHANGED <<task, mission, rows, events, attempt, spared, faults, deleted>>

(* The agent failed, timed out or could not be built: a new session loads  *)
(* the task and the persisted count decides.  An escalation is published   *)
(* here, before the commit, and whatever the mission's status is.          *)
Fail(r) ==
  /\ pc[r] = "work"
  /\ seen' = [seen EXCEPT ![r] = task]
  /\ IF BudgetLeft(task.count)
       THEN Goto(r, "commit_pending") /\ UNCHANGED <<events, spared>>
       ELSE /\ Goto(r, "commit_escalated")
            /\ spared' = [spared EXCEPT ![r] = mission # "active"]
            /\ events' = events \o EscalationEvents
  /\ UNCHANGED <<task, mission, rows, attempt, faults, deleted>>

(* Faulty variants: the execution row, or the event, is forgotten.         *)
CommitUnrecorded(r) ==
  /\ pc[r] = "commit_completed"
  /\ task' = [SetStatus(r, "completed") EXCEPT
                !.count = Assigned(seen[r].count, attempt[r], @)]
  /\ Goto(r, "publish")
  /\ UNCHANGED <<mission, rows, events, attempt, seen, spared, faults, deleted>>

CommitUnannounced(r) ==
  /\ pc[r] = "commit_completed"
  /\ AddRow(r, "completed")
  /\ task' = [SetStatus(r, "completed") EXCEPT
                !.count = Assigned(seen[r].count, attempt[r], @)]
  /\ Goto(r, "done")
  /\ UNCHANGED <<mission, events, attempt, seen, spared, faults, deleted>>

CommitCompleted(r) ==
  /\ pc[r] = "commit_completed"
  /\ AddRow(r, "completed")
  /\ task' = [SetStatus(r, "completed") EXCEPT
                !.count = Assigned(seen[r].count, attempt[r], @)]
  /\ Goto(r, "publish")
  /\ UNCHANGED <<mission, events, attempt, seen, spared, faults, deleted>>

Publish(r) ==
  /\ pc[r] = "publish"
  /\ events' = Append(events, "task.completed")
  /\ Goto(r, "done")
  /\ UNCHANGED <<task, mission, rows, attempt, seen, spared, faults, deleted>>

CommitPending(r) ==
  /\ pc[r] = "commit_pending"
  /\ AddRow(r, "failed")
  /\ task' = SetStatus(r, "pending")
  /\ Goto(r, "refresh")
  /\ UNCHANGED <<mission, events, attempt, seen, spared, faults, deleted>>

(* The refreshed row says whether to retry; the loop has its own limit,    *)
(* and after a missing agent it is the only one.                           *)
Refresh(r) ==
  /\ pc[r] \in {"refresh", "refresh_missing"}
  /\ IF /\ task.status = "pending"
        /\ pc[r] = "refresh" => BudgetLeft(task.count)
        /\ attempt[r] < MaxAttempts
       THEN Goto(r, "load") /\ attempt' = [attempt EXCEPT ![r] = @ + 1]
       ELSE Goto(r, "done") /\ UNCHANGED attempt
  /\ UNCHANGED <<task, mission, rows, events, seen, spared, faults, deleted>>

CommitEscalated(r) ==
  /\ pc[r] = "commit_escalated"
  /\ AddRow(r, "failed")
  /\ task' = SetStatus(r, "escalated")
  /\ mission' = IF spared[r] THEN mission ELSE "escalated"
  /\ Goto(r, "done")
  /\ UNCHANGED <<events, attempt, seen, spared, faults, deleted>>

(* The mission is merged by a client meanwhile.                            *)
MergeMission ==
  /\ mission = "active" /\ ~deleted
  /\ mission' = "merged"
  /\ UNCHANGED <<task, rows, events, pc, attempt, seen, spared, faults, deleted>>

(* DELETE of the mission takes the task and its executions along.          *)
DeleteMission ==
  /\ ~deleted
  /\ deleted' = TRUE
  /\ task' = [status |-> "pending", count |-> 0]
  /\ rows' = <<>>
  /\ UNCHANGED <<mission, events, pc, attempt, seen, spared, faults>>

(* A session that finds no task ends the run; one that has loaded it fails *)
(* when it flushes, or when it refreshes what it has committed.            *)
MissTask(r) ==
  /\ Active(r)
  /\ \/ pc[r] \in {"load", "work"} /\ Goto(r, "done")
     \/ pc[r] # "load" /\ Goto(r, "dead")
  /\ UNCHANGED <<task, mission, rows, events, attempt, seen, spared, faults, deleted>>

(* A session that gets no connection or loses it, or a workflow that       *)
(* cannot be built: what was not committed is rolled back, and the run     *)
(* ends with the exception, wherever it stood.                             *)
Raise(r) ==
  /\ faults < MaxFaults
  /\ Active(r)
  /\ Goto(r, "dead")
  /\ faults' = faults + 1
  /\ UNCHANGED <<task, mission, rows, events, attempt, seen, spared, deleted>>

(* The process dies; nothing resumes its runs, and a new POST starts over. *)
Crash ==
  /\ faults < MaxFaults
  /\ \E r \in Runs : Active(r)
  /\ pc' = [r \in Runs |-> IF Active(r) THEN "dead" ELSE pc[r]]
  /\ faults' = faults + 1
  /\ UNCHANGED <<task, mission, rows, events, attempt, seen, spared, deleted>>

Step(r) ==
  \/ /\ ~deleted
     /\ \/ Load(r) \/ CountAttempt(r) \/ AgentNotFound(r)
        \/ Succeed(r) \/ Fail(r)
        \/ CommitCompleted(r) \/ Publish(r)
        \/ CommitPending(r) \/ Refresh(r)
        \/ CommitEscalated(r)
  \/ deleted /\ MissTask(r)

Next ==
  \/ \E r \in Runs : Begin(r) \/ Step(r) \/ Raise(r)
  \/ MergeMission
  \/ DeleteMission
  \/ Crash

Spec == Init /\ [][Next]_vars

(* A run's thread goes on by itself, and an attempt ends by its timeout at *)
(* the latest.                                                             *)
FairSpec == Spec /\ \A r \in Runs : WF_vars(Step(r))

-----------------------------------------------------------------------------
TypeOK ==
  /\ task \in Task
  /\ mission \in {"active", "merged", "escalated"}
  /\ rows \in Seq([attempt: 1 .. MaxAttempts, status: {"completed", "failed"}])
  /\ events \in Seq({"task.completed", "task.escalated", "mission.escalated"})
  /\ pc \in [Runs -> Locations]
  /\ attempt \in [Runs -> 0 .. MaxAttempts]
  /\ \A r \in Runs : seen[r] = NoCopy \/ seen[r] \in Task
  /\ spared \in [Runs -> BOOLEAN]
  /\ faults \in 0 .. MaxFaults
  /\ deleted \in BOOLEAN

Announced(event) == \E i \in 1 .. Len(events) : events[i] = event

(* What TaskLife says of a task, in terms of the row and the runs.  What   *)
(* was lost is what was counted and is not on record.                      *)
Outcome ==
  IF deleted THEN "deleted" ELSE IF task.status \in Finished THEN task.status ELSE "open"

Phase ==
  IF deleted THEN "none"
  ELSE IF \E r \in Runs : pc[r] = "commit_escalated" THEN "last"
  ELSE IF \E r \in Runs : pc[r] \in {"work", "commit_completed", "commit_pending"}
       THEN "underway"
  ELSE "none"

Record == [i \in 1 .. Len(rows) |-> rows[i].status]

Lost ==
  IF Outcome = "open" THEN task.count - Len(rows) - (IF Phase = "none" THEN 0 ELSE 1) ELSE 0

Told ==
  {o \in Finished : Announced(IF o = "completed" THEN "task.completed" ELSE "task.escalated")}

(* Runs that follow each other implement the life of a task: what they     *)
(* read in one session and write in the next, the loop index beside the    *)
(* persisted count, and a row that a fault leaves running, are invisible.  *)
Life == INSTANCE TaskLife WITH
  outcome <- Outcome, phase <- Phase, record <- Record, lost <- Lost, told <- Told,
  active  <- mission = "active"

ImplementsTaskLife == Life!Spec

(* A completed or escalated task is never re-run and keeps its status.     *)
FinishedIsFinal ==
  [][task.status \in Finished /\ ~deleted' => task'.status = task.status]_vars

(* A task is completed exactly when a completed execution row exists, and  *)
(* there is one such row at most: no fault can separate the two.           *)
CompletedOnce ==
  LET completed == {i \in 1 .. Len(rows) : rows[i].status = "completed"}
  IN  /\ task.status = "completed" <=> completed # {}
      /\ Cardinality(completed) <= 1

(* A task is escalated only with its whole budget spent and a failed       *)
(* attempt recorded last, and the mission is then no longer active.        *)
EscalatedAfterBudget ==
  task.status = "escalated" =>
    /\ task.count >= MaxAttempts
    /\ rows # <<>> /\ rows[Len(rows)].status = "failed"
    /\ mission # "active"

(* attempt_number grows from row to row, and starts again only where a     *)
(* fault has cut a run short.                                              *)
AttemptsRestartByFault ==
  Cardinality({i \in 1 .. Len(rows) - 1 : rows[i].attempt >= rows[i + 1].attempt})
    <= faults

(* Over all runs no more attempts are started than the budget, and one for *)
(* each attempt whose outcome a fault has kept from being recorded.        *)
BudgetHonoured == task.count <= MaxAttempts + faults

(* An announced outcome is the task's, whatever fails; an escalation is  *)
(* announced one commit early, and untrue for good if that commit is never *)
(* reached.                                                                *)
EventsAreTrue ==
  /\ Announced("task.completed") => task.status = "completed" \/ deleted
  /\ Announced("task.escalated") =>
       \/ task.status = "escalated"
       \/ \E r \in Runs : pc[r] = "commit_escalated"
       \/ faults > 0 \/ deleted

(* Every run that no fault cuts short comes to its end, and then the task  *)
(* has been finished, or deleted.                                          *)
EveryRunEnds ==
  \A r \in Runs :
    pc[r] = "load" ~> \/ pc[r] = "done" /\ (task.status \in Finished \/ deleted)
                      \/ pc[r] = "dead" /\ (faults > 0 \/ deleted)

(* A finished task is announced, unless a fault, or a deletion, comes      *)
(* between the commit and the event.                                       *)
EveryOutcomeIsAnnounced ==
  /\ task.status = "completed" ~> Announced("task.completed") \/ faults > 0 \/ deleted
  /\ task.status = "escalated" ~> Announced("task.escalated") \/ faults > 0 \/ deleted

=============================================================================
