--------------------------- MODULE TaskRetry_proofs ---------------------------
(***************************************************************************)
(* Proofs about the attempts of one task, for any number of runs and any   *)
(* number of faults; all but the types of runs that do not overlap.        *)
(***************************************************************************)
EXTENDS TaskRetry, FiniteSetTheorems, SequenceTheorems, TLAPS

-----------------------------------------------------------------------------
(* The inductive invariant, of runs that follow each other.                *)
OneAtATime == \A r, q \in Runs : Active(r) /\ Active(q) => r = q

(* An attempt is counted, and its outcome not recorded yet.                *)
Open == {"work", "commit_completed", "commit_pending", "commit_escalated"}
Again == {"refresh", "refresh_missing"}

Copies == seen \in [Runs -> Task \cup {NoCopy}]

(* What the row tells of where a run stands, when no other run disturbs.   *)
RowFollowsRun(r) ==
  /\ pc[r] = "count" => task.status \notin Finished
  /\ pc[r] \in Open => task.status = "running"
  /\ pc[r] \in {"count"} \cup (Open \ {"work"}) => seen[r] = task
  /\ pc[r] = "commit_pending" => BudgetLeft(task.count)
  /\ pc[r] = "commit_escalated" => ~BudgetLeft(task.count)
  /\ pc[r] = "publish" => task.status = "completed"
  /\ pc[r] \in Again => task.status = "pending"

(* A run never is ahead of the persisted count.                            *)
CountFollowsRun(r) ==
  /\ pc[r] \in {"load", "count"} => attempt[r] <= task.count + 1
  /\ pc[r] \in Open \cup Again => attempt[r] <= task.count

Fits(r) ==
  /\ Active(r) => attempt[r] >= 1
  /\ pc[r] = "commit_escalated" /\ spared[r] => mission # "active"
  /\ ~deleted => RowFollowsRun(r) /\ CountFollowsRun(r)

InStep == \A r \in Runs : Fits(r)

Emptied == deleted => task = [status |-> "pending", count |-> 0] /\ rows = <<>>

(* A task left running by nobody has had a fault.                          *)
Budget ==
  /\ task.status = "pending" => BudgetLeft(task.count)
  /\ task.status = "running" /\ (\A r \in Runs : pc[r] \notin Open)
       => task.count < MaxAttempts + faults
  /\ BudgetHonoured

IsCompleted(i) == rows[i].status = "completed"

OneCompleted ==
  /\ task.status = "completed" <=> \E i \in 1 .. Len(rows) : IsCompleted(i)
  /\ \A i, j \in 1 .. Len(rows) : IsCompleted(i) /\ IsCompleted(j) => i = j

Drops == {i \in 1 .. Len(rows) - 1 : rows[i].attempt >= rows[i + 1].attempt}

(* The next row is of a higher attempt, unless a fault has made up for it. *)
Grows(r) ==
  /\ Active(r)
  /\ \/ attempt[r] > rows[Len(rows)].attempt
     \/ pc[r] \in Again /\ attempt[r] = rows[Len(rows)].attempt

Restarts ==
  /\ Cardinality(Drops) <= faults
  /\ rows # <<>> /\ task.status \notin Finished
       => Cardinality(Drops) < faults \/ \E r \in Runs : Grows(r)

RetryInv ==
  /\ TypeOK /\ Copies /\ OneAtATime /\ InStep /\ Emptied
  /\ Budget /\ OneCompleted /\ EscalatedAfterBudget /\ Restarts /\ EventsAreTrue

-----------------------------------------------------------------------------
(* The columns a commit of the only run writes are those it assigned.      *)
LEMMA Written ==
  ASSUME TypeOK, NEW r \in Runs, seen[r] = task
  PROVE  /\ \A s \in TaskStatus :
              SetStatus(r, s) = [status |-> s, count |-> task.count]
         /\ Counted(r) = [status |-> "running", count |-> task.count + 1]
<1>1. task \in [status: TaskStatus, count: Nat]
  BY DEF TypeOK, Task
<1>2. ASSUME NEW s \in TaskStatus
      PROVE  SetStatus(r, s) = [status |-> s, count |-> task.count]
  <2>1. Assigned(seen[r].status, s, task.status) = s
    BY DEF Assigned
  <2>2. SetStatus(r, s) = [task EXCEPT !.status = s]
    BY <2>1 DEF SetStatus
  <2>3. QED
    BY <1>1, <2>2
<1>3. SetStatus(r, "running") = [status |-> "running", count |-> task.count]
  BY <1>2 DEF TaskStatus
<1>4. Counted(r) = [status |-> "running", count |-> task.count + 1]
  BY <1>3 DEF Counted
<1>5. QED
  BY <1>2, <1>4

(* Where everybody stands after a step of the only active run.             *)
LEMMA Moves ==
  ASSUME RetryInv, NEW r \in Runs, Active(r), NEW to \in Locations, Goto(r, to)
  PROVE  /\ pc' \in [Runs -> Locations] /\ pc'[r] = to
         /\ \A q \in Runs \ {r} : pc'[q] = pc[q] /\ pc[q] \in {"idle", "done", "dead"}
         /\ OneAtATime'
<1>1. /\ pc' \in [Runs -> Locations] /\ pc'[r] = to
      /\ \A q \in Runs \ {r} : pc'[q] = pc[q]
  BY DEF Goto, RetryInv, TypeOK
<1>2. \A q \in Runs \ {r} : pc[q] \in {"idle", "done", "dead"}
  BY DEF RetryInv, OneAtATime, Active
<1>3. QED
  BY <1>1, <1>2 DEF OneAtATime, Active

(* A run that is not active fits whatever the row is.                      *)
LEMMA RestFits ==
  ASSUME NEW r \in Runs
  PROVE  /\ pc[r] \in {"idle", "done", "dead"} => Fits(r)
         /\ pc'[r] \in {"idle", "done", "dead"} => Fits(r)'
BY DEF Fits, Active, RowFollowsRun, CountFollowsRun, Open, Again

(* So that after a step of the only active run only its own place counts.  *)
LEMMA OthersFit ==
  ASSUME RetryInv, NEW r \in Runs, Active(r), NEW to \in Locations, Goto(r, to),
         Fits(r)'
  PROVE  InStep'
<1>1. \A q \in Runs \ {r} : pc'[q] \in {"idle", "done", "dead"}
  BY Moves
<1>2. \A q \in Runs \ {r} : Fits(q)'
  BY <1>1, RestFits
<1>3. QED
  BY <1>2 DEF InStep

(* One more execution row.                                                 *)
LEMMA RowsGrow ==
  ASSUME TypeOK, NEW r \in Runs, attempt[r] >= 1, NEW s \in {"completed", "failed"},
         AddRow(r, s)
  PROVE  /\ rows' \in Seq([attempt: 1 .. MaxAttempts, status: {"completed", "failed"}])
         /\ Len(rows) \in Nat /\ Len(rows') = Len(rows) + 1
         /\ \A i \in 1 .. Len(rows) : rows'[i] = rows[i]
         /\ rows'[Len(rows) + 1] = [attempt |-> attempt[r], status |-> s]
<1> DEFINE Row == [attempt: 1 .. MaxAttempts, status: {"completed", "failed"}]
           new == [attempt |-> attempt[r], status |-> s]
<1>1. new \in Row
  BY DEF TypeOK, MaxAttempts
<1>2. rows \in Seq(Row)
  BY DEF TypeOK
<1>3. rows' = Append(rows, new)
  BY DEF AddRow
<1> HIDE DEF Row, new
<1>4. QED
  <2>1. Len(rows) \in Nat /\ rows' \in Seq(Row) /\ Len(rows') = Len(rows) + 1
    BY <1>1, <1>2, <1>3, AppendProperties
  <2>2. rows'[Len(rows) + 1] = new /\ \A i \in 1 .. Len(rows) : rows'[i] = rows[i]
    BY <1>1, <1>2, <1>3, AppendProperties
  <2>3. QED
    BY <2>1, <2>2 DEF Row, new

(* The last execution row has an attempt number.                           *)
LEMMA LastRow ==
  ASSUME TypeOK, rows # <<>>
  PROVE  rows[Len(rows)].attempt \in Nat
<1> DEFINE Row == [attempt: 1 .. MaxAttempts, status: {"completed", "failed"}]
<1>1. rows \in Seq(Row)
  BY DEF TypeOK
<1> HIDE DEF Row
<1>2. Len(rows) \in Nat \ {0}
  BY <1>1, EmptySeq
<1>3. rows[Len(rows)] \in Row
  BY <1>1, <1>2, ElementOfSeq
<1>4. QED
  BY <1>3 DEF Row, MaxAttempts

(* A row of the only active run, which has counted its attempt, is of a    *)
(* higher attempt than the last one, or a fault has made up for it.        *)
LEMMA DropsBounded ==
  ASSUME RetryInv, NEW r \in Runs, Active(r), pc[r] \notin Again,
         task.status \notin Finished,
         NEW s \in {"completed", "failed"}, AddRow(r, s), UNCHANGED faults
  PROVE  Cardinality(Drops') <= faults /\ IsFiniteSet(Drops')
<1> DEFINE n == Len(rows)
<1>1. /\ n \in Nat /\ Len(rows') = n + 1
      /\ \A i \in 1 .. n : rows'[i] = rows[i]
      /\ rows'[n + 1].attempt = attempt[r]
  <2>1. TypeOK /\ attempt[r] >= 1
    BY DEF RetryInv, InStep, Fits
  <2>2. rows'[n + 1] = [attempt |-> attempt[r], status |-> s]
    BY <2>1, RowsGrow
  <2>3. n \in Nat /\ Len(rows') = n + 1 /\ \A i \in 1 .. n : rows'[i] = rows[i]
    BY <2>1, RowsGrow
  <2>4. QED
    BY <2>2, <2>3
<1>2. IsFiniteSet(Drops) /\ Cardinality(Drops) \in Nat
  <2>1. IsFiniteSet(1 .. n - 1)
    BY <1>1, FS_Interval
  <2>2. QED
    BY <2>1, FS_Subset, FS_CardinalityType DEF Drops
<1>3. faults \in Nat /\ Cardinality(Drops) <= faults
  BY RetryAssumption DEF RetryInv, TypeOK, Restarts
<1>4. CASE n = 0
  <2>1. Drops' = {}
    BY <1>1, <1>4 DEF Drops
  <2>2. QED
    BY <2>1, <1>3, FS_EmptySet
<1>5. CASE n > 0 /\ attempt[r] > rows[n].attempt
  <2>1. rows[n].attempt \in Nat /\ attempt[r] \in Nat
    BY <1>1, <1>5, LastRow DEF RetryInv, TypeOK, MaxAttempts
  <2>2. Drops' = Drops
    BY <1>1, <1>5, <2>1 DEF Drops
  <2>3. QED
    BY <1>2, <1>3, <2>2
<1>6. CASE n > 0 /\ ~(attempt[r] > rows[n].attempt)
  <2>1. ~ \E q \in Runs : Grows(q)
    BY <1>6 DEF RetryInv, OneAtATime, Grows
  <2>2. Cardinality(Drops) < faults
    BY <1>6, <2>1, EmptySeq DEF RetryInv, Restarts
  <2>3. n \notin Drops /\ (Drops' = Drops \/ Drops' = Drops \cup {n})
    BY <1>1, <1>6 DEF Drops
  <2>4. /\ IsFiniteSet(Drops') /\ Cardinality(Drops') \in Nat
        /\ Cardinality(Drops') <= Cardinality(Drops) + 1
    <3>1. /\ IsFiniteSet(Drops \cup {n})
          /\ Cardinality(Drops \cup {n}) = Cardinality(Drops) + 1
      BY <1>2, <2>3, FS_AddElement
    <3>2. QED
      BY <1>2, <2>3, <3>1
  <2>5. QED
    BY <1>2, <1>3, <2>2, <2>4
<1>7. QED
  BY <1>1, <1>4, <1>5, <1>6

(* An event is added to those announced.                                   *)
LEMMA OneEvent ==
  ASSUME TypeOK, NEW e \in {"task.completed", "task.escalated", "mission.escalated"},
         events' = Append(events, e)
  PROVE  /\ events' \in Seq({"task.completed", "task.escalated", "mission.escalated"})
         /\ \A x : Announced(x)' <=> Announced(x) \/ x = e
<1> DEFINE E == {"task.completed", "task.escalated", "mission.escalated"}
<1> SUFFICES ASSUME events \in Seq(E), e \in E
             PROVE  events' \in Seq(E) /\ \A x : Announced(x)' <=> Announced(x) \/ x = e
  BY DEF TypeOK
<1> HIDE DEF E
<1>1. /\ events' \in Seq(E) /\ Len(events) \in Nat /\ Len(events') = Len(events) + 1
      /\ events'[Len(events) + 1] = e
      /\ \A i \in 1 .. Len(events) : events'[i] = events[i]
  BY AppendProperties
<1>2. QED
  BY <1>1 DEF Announced

(* An escalation announces no completion.                                  *)
LEMMA EscalationAnnounced ==
  ASSUME TypeOK, events' = events \o EscalationEvents
  PROVE  /\ events' \in Seq({"task.completed", "task.escalated", "mission.escalated"})
         /\ Announced("task.completed")' <=> Announced("task.completed")
<1> DEFINE E == {"task.completed", "task.escalated", "mission.escalated"}
<1>1. /\ events \in Seq(E) /\ EscalationEvents \in Seq(E) /\ Len(EscalationEvents) = 2
      /\ \A i \in 1 .. 2 : EscalationEvents[i] # "task.completed"
  BY DEF TypeOK, EscalationEvents
<1> HIDE DEF E
<1>2. /\ events' \in Seq(E) /\ Len(events) \in Nat /\ Len(events') = Len(events) + 2
      /\ \A i \in 1 .. Len(events) + 2 :
           events'[i] = IF i <= Len(events) THEN events[i]
                                            ELSE EscalationEvents[i - Len(events)]
  <2>1. /\ events \o EscalationEvents \in Seq(E) /\ Len(events) \in Nat
        /\ Len(events \o EscalationEvents) = Len(events) + Len(EscalationEvents)
        /\ \A i \in 1 .. Len(events) + Len(EscalationEvents) :
             (events \o EscalationEvents)[i] =
                IF i <= Len(events) THEN events[i] ELSE EscalationEvents[i - Len(events)]
    BY <1>1, ConcatProperties, LenProperties
  <2>2. QED
    BY <1>1, <2>1
<1>3. QED
  <2>1. ASSUME NEW i \in 1 .. Len(events'), events'[i] = "task.completed"
        PROVE  Announced("task.completed")
    <3>1. CASE i <= Len(events)
      BY <1>2, <2>1, <3>1 DEF Announced
    <3>2. CASE i > Len(events)
      <4>1. i - Len(events) \in 1 .. 2
        BY <1>2, <2>1, <3>2
      <4>2. QED
        BY <1>1, <1>2, <2>1, <3>2, <4>1
    <3>3. QED
      BY <1>2, <2>1, <3>1, <3>2
  <2>2. Announced("task.completed") => Announced("task.completed")'
    BY <1>2 DEF Announced
  <2>3. events' \in Seq({"task.completed", "task.escalated", "mission.escalated"})
    BY <1>2 DEF E
  <2>4. QED
    BY <2>1, <2>2, <2>3 DEF Announced

-----------------------------------------------------------------------------
(* Steps that commit nothing.                                              *)

(* What only the rows and the status of the mission bear on.               *)
LEMMA FrameInv ==
  ASSUME RetryInv, UNCHANGED <<task, rows, deleted>>, mission' \in {mission, "merged"}
  PROVE  Emptied' /\ OneCompleted' /\ EscalatedAfterBudget' /\ Drops' = Drops
BY DEF RetryInv, Emptied, OneCompleted, IsCompleted, EscalatedAfterBudget, Drops

(* A run begins when no other is under way.                                *)
LEMMA BeginInv ==
  ASSUME RetryInv, ~Overlapping, NEW r \in Runs, Begin(r)
  PROVE  RetryInv'
<1>1. /\ UNCHANGED <<task, mission, rows, events, seen, spared, faults, deleted>>
      /\ \A q \in Runs : ~Active(q)
  BY DEF Begin
<1>2. /\ pc' \in [Runs -> Locations] /\ pc'[r] = "load"
      /\ \A q \in Runs \ {r} : pc'[q] = pc[q]
      /\ attempt' \in [Runs -> 0 .. MaxAttempts] /\ attempt'[r] = 1
  BY DEF Begin, Goto, RetryInv, TypeOK, Locations, MaxAttempts
<1>3. TypeOK' /\ Copies'
  BY <1>1, <1>2 DEF RetryInv, TypeOK, Copies
<1>4. \A q \in Runs : pc[q] \in {"idle", "done", "dead"}
  BY <1>1 DEF Active
<1>5. OneAtATime'
  BY <1>2, <1>4 DEF OneAtATime, Active
<1>6. InStep'
  <2>1. task.count \in Nat
    BY DEF RetryInv, TypeOK, Task
  <2>2. Fits(r)'
    BY <1>1, <1>2, <2>1 DEF Fits, RowFollowsRun, CountFollowsRun, Open, Again
  <2>3. \A q \in Runs \ {r} : Fits(q)'
    BY <1>2, <1>4, RestFits
  <2>4. QED
    BY <2>2, <2>3 DEF InStep
<1>7. Budget'
  BY <1>1, <1>2, <1>4 DEF RetryInv, Budget, BudgetLeft, BudgetHonoured, Open
<1>8. Restarts'
  BY <1>1, FrameInv DEF RetryInv, Restarts, Grows
<1>9. EventsAreTrue'
  BY <1>1, <1>2, <1>4 DEF RetryInv, EventsAreTrue, Announced
<1>10. QED
  BY <1>1, <1>3, <1>5, <1>6, <1>7, <1>8, <1>9, FrameInv DEF RetryInv

(* The guard of an attempt.                                                *)
LEMMA LoadInv ==
  ASSUME RetryInv, NEW r \in Runs, ~deleted, Load(r)
  PROVE  RetryInv'
<1>1. /\ pc[r] = "load"
      /\ UNCHANGED <<task, mission, rows, events, attempt, spared, faults, deleted>>
  BY DEF Load
<1>2. PICK to \in {"count", "done"} :
        /\ Goto(r, to)
        /\ to = "done" <=> task.status \in Finished
        /\ to = "count" => seen' = [seen EXCEPT ![r] = task]
        /\ to = "done" => UNCHANGED seen
  BY DEF Load
<1>3. Active(r) /\ to \in Locations
  BY <1>1 DEF Active, Locations
<1>4. /\ pc' \in [Runs -> Locations] /\ pc'[r] = to
      /\ \A q \in Runs \ {r} : pc'[q] = pc[q] /\ pc[q] \in {"idle", "done", "dead"}
      /\ OneAtATime'
  BY <1>2, <1>3, Moves
<1>5. TypeOK' /\ Copies' /\ (to = "count" => seen'[r] = task)
  BY <1>1, <1>2, <1>4 DEF RetryInv, TypeOK, Copies
<1>6. InStep'
  <2>1. Fits(r)'
    BY <1>1, <1>2, <1>3, <1>4, <1>5
    DEF RetryInv, InStep, Fits, RowFollowsRun, CountFollowsRun, Open, Again, Active
  <2>2. QED
    BY <1>2, <1>3, <2>1, OthersFit
<1>7. Budget'
  BY <1>1, <1>4 DEF RetryInv, Budget, BudgetLeft, BudgetHonoured, Open
<1>8. Restarts'
  <2>1. \A q \in Runs : Grows(q) => q = r
    BY <1>3 DEF RetryInv, OneAtATime, Grows
  <2>2. Grows(r) /\ to = "count" => Grows(r)'
    BY <1>1, <1>4 DEF Grows, Again, Active
  <2>3. QED
    BY <1>1, <1>2, <2>1, <2>2, FrameInv DEF RetryInv, Restarts
<1>9. EventsAreTrue'
  BY <1>1, <1>4 DEF RetryInv, EventsAreTrue, Announced
<1>10. QED
  BY <1>1, <1>4, <1>5, <1>6, <1>7, <1>8, <1>9, FrameInv DEF RetryInv

(* The workflow returned an answer.                                        *)
LEMMA SucceedInv ==
  ASSUME RetryInv, NEW r \in Runs, ~deleted, Succeed(r)
  PROVE  RetryInv'
<1>1. /\ pc[r] = "work" /\ Goto(r, "commit_completed")
      /\ seen' = [seen EXCEPT ![r] = task]
      /\ UNCHANGED <<task, mission, rows, events, attempt, spared, faults, deleted>>
  BY DEF Succeed
<1>2. Active(r) /\ "commit_completed" \in Locations
  BY <1>1 DEF Active, Locations
<1>3. /\ pc' \in [Runs -> Locations] /\ pc'[r] = "commit_completed"
      /\ \A q \in Runs \ {r} : pc'[q] = pc[q] /\ pc[q] \in {"idle", "done", "dead"}
      /\ OneAtATime'
  BY <1>1, <1>2, Moves
<1>4. TypeOK' /\ Copies' /\ seen'[r] = task
  BY <1>1, <1>3 DEF RetryInv, TypeOK, Copies
<1>5. InStep'
  <2>1. Fits(r)'
    BY <1>1, <1>2, <1>3, <1>4
    DEF RetryInv, InStep, Fits, RowFollowsRun, CountFollowsRun, Open, Again, Active
  <2>2. QED
    BY <1>1, <1>2, <2>1, OthersFit
<1>6. Budget'
  BY <1>1, <1>3 DEF RetryInv, Budget, BudgetLeft, BudgetHonoured, Open
<1>7. Restarts'
  <2>1. \A q \in Runs : Grows(q) => q = r
    BY <1>2 DEF RetryInv, OneAtATime, Grows
  <2>2. Grows(r) => Grows(r)'
    BY <1>1, <1>3 DEF Grows, Again, Active
  <2>3. QED
    BY <1>1, <2>1, <2>2, FrameInv DEF RetryInv, Restarts
<1>8. EventsAreTrue'
  BY <1>1, <1>3 DEF RetryInv, EventsAreTrue, Announced
<1>9. QED
  BY <1>1, <1>3, <1>4, <1>5, <1>6, <1>7, <1>8, FrameInv DEF RetryInv

(* The attempt failed; an escalation is announced before it is committed.  *)
LEMMA FailInv ==
  ASSUME RetryInv, NEW r \in Runs, ~deleted, Fail(r)
  PROVE  RetryInv'
<1>1. /\ pc[r] = "work" /\ seen' = [seen EXCEPT ![r] = task]
      /\ UNCHANGED <<task, mission, rows, attempt, faults, deleted>>
  BY DEF Fail
<1>2. PICK to \in {"commit_pending", "commit_escalated"} :
        /\ Goto(r, to)
        /\ to = "commit_pending" => BudgetLeft(task.count) /\ UNCHANGED <<events, spared>>
        /\ to = "commit_escalated" =>
             /\ ~BudgetLeft(task.count) /\ events' = events \o EscalationEvents
             /\ spared' = [spared EXCEPT ![r] = mission # "active"]
  BY DEF Fail
<1>3. Active(r) /\ to \in Locations
  BY <1>1 DEF Active, Locations
<1>4. /\ pc' \in [Runs -> Locations] /\ pc'[r] = to
      /\ \A q \in Runs \ {r} : pc'[q] = pc[q] /\ pc[q] \in {"idle", "done", "dead"}
      /\ OneAtATime'
  BY <1>2, <1>3, Moves
<1>5. /\ events' \in Seq({"task.completed", "task.escalated", "mission.escalated"})
      /\ Announced("task.completed")' <=> Announced("task.completed")
      /\ to = "commit_pending" => events' = events
  <2>1. CASE to = "commit_pending"
    BY <1>2, <2>1 DEF RetryInv, TypeOK, Announced
  <2>2. CASE to = "commit_escalated"
    BY <1>2, <2>2, EscalationAnnounced DEF RetryInv
  <2>3. QED
    BY <2>1, <2>2
<1>6. /\ spared' \in [Runs -> BOOLEAN]
      /\ to = "commit_escalated" => (spared'[r] <=> mission # "active")
  <2>1. spared \in [Runs -> BOOLEAN] /\ (mission # "active") \in BOOLEAN
    BY DEF RetryInv, TypeOK
  <2>2. CASE to = "commit_pending"
    BY <1>2, <2>1, <2>2
  <2>3. CASE to = "commit_escalated"
    BY <1>2, <2>1, <2>3, Zenon
  <2>4. QED
    BY <2>2, <2>3
<1>7. TypeOK' /\ Copies' /\ seen'[r] = task
  BY <1>1, <1>4, <1>5, <1>6 DEF RetryInv, TypeOK, Copies
<1>8. InStep'
  <2>1. Fits(r)'
    BY <1>1, <1>2, <1>3, <1>4, <1>6, <1>7
    DEF RetryInv, InStep, Fits, RowFollowsRun, CountFollowsRun, Open, Again, Active
  <2>2. QED
    BY <1>2, <1>3, <2>1, OthersFit
<1>9. Budget'
  BY <1>1, <1>4 DEF RetryInv, Budget, BudgetLeft, BudgetHonoured, Open
<1>10. Restarts'
  <2>1. \A q \in Runs : Grows(q) => q = r
    BY <1>3 DEF RetryInv, OneAtATime, Grows
  <2>2. Grows(r) => Grows(r)'
    BY <1>1, <1>4 DEF Grows, Again, Active
  <2>3. QED
    BY <1>1, <2>1, <2>2, FrameInv DEF RetryInv, Restarts
<1>11. EventsAreTrue'
  <2>1. CASE to = "commit_pending"
    BY <1>1, <1>4, <1>5, <2>1 DEF RetryInv, EventsAreTrue, Announced
  <2>2. CASE to = "commit_escalated"
    BY <1>1, <1>4, <1>5, <2>2 DEF RetryInv, EventsAreTrue
  <2>3. QED
    BY <2>1, <2>2
<1>12. QED
  BY <1>1, <1>4, <1>7, <1>8, <1>9, <1>10, <1>11, FrameInv DEF RetryInv

(* A committed completion is announced.                                    *)
LEMMA PublishInv ==
  ASSUME RetryInv, NEW r \in Runs, ~deleted, Publish(r)
  PROVE  RetryInv'
<1>1. /\ pc[r] = "publish" /\ Goto(r, "done") /\ events' = Append(events, "task.completed")
      /\ UNCHANGED <<task, mission, rows, attempt, seen, spared, faults, deleted>>
  BY DEF Publish
<1>2. Active(r) /\ "done" \in Locations /\ task.status = "completed"
  BY <1>1 DEF Active, Locations, RetryInv, InStep, Fits, RowFollowsRun
<1>3. /\ pc' \in [Runs -> Locations] /\ pc'[r] = "done"
      /\ \A q \in Runs \ {r} : pc'[q] = pc[q] /\ pc[q] \in {"idle", "done", "dead"}
      /\ OneAtATime'
  BY <1>1, <1>2, Moves
<1>4. TypeOK' /\ Copies'
  BY <1>1, <1>3, OneEvent DEF RetryInv, TypeOK, Copies
<1>5. InStep'
  BY <1>1, <1>2, <1>3, OthersFit, RestFits
<1>6. Budget' /\ Restarts'
  BY <1>1, <1>2, FrameInv DEF RetryInv, Budget, BudgetHonoured, Restarts, Finished
<1>7. EventsAreTrue'
  <2>1. \A x : Announced(x)' <=> Announced(x) \/ x = "task.completed"
    BY <1>1, OneEvent DEF RetryInv
  <2>2. QED
    BY <1>1, <1>2, <1>3, <2>1 DEF RetryInv, EventsAreTrue
<1>8. QED
  BY <1>1, <1>3, <1>4, <1>5, <1>6, <1>7, FrameInv DEF RetryInv

(* The loop goes on: its own limit never is the one that ends it.          *)
LEMMA RefreshInv ==
  ASSUME RetryInv, NEW r \in Runs, ~deleted, Refresh(r)
  PROVE  RetryInv'
<1>1. /\ pc[r] \in Again
      /\ UNCHANGED <<task, mission, rows, events, seen, spared, faults, deleted>>
  BY DEF Refresh, Again
<1>2. /\ task.status = "pending" /\ BudgetLeft(task.count)
      /\ attempt[r] <= task.count /\ attempt[r] >= 1
  BY <1>1 DEF RetryInv, InStep, Fits, RowFollowsRun, CountFollowsRun, Budget, Again, Active
<1>3. task.count \in Nat /\ attempt[r] \in 1 .. 2
  BY <1>2 DEF RetryInv, TypeOK, Task, BudgetLeft, MaxAttempts
<1>4. Goto(r, "load") /\ attempt' = [attempt EXCEPT ![r] = @ + 1]
  BY <1>2, <1>3 DEF Refresh, BudgetLeft, MaxAttempts
<1>5. Active(r) /\ "load" \in Locations
  BY <1>1 DEF Active, Again, Locations
<1>6. /\ pc' \in [Runs -> Locations] /\ pc'[r] = "load"
      /\ \A q \in Runs \ {r} : pc'[q] = pc[q] /\ pc[q] \in {"idle", "done", "dead"}
      /\ OneAtATime'
  BY <1>4, <1>5, Moves
<1>7. attempt' \in [Runs -> 0 .. MaxAttempts] /\ attempt'[r] = attempt[r] + 1
  BY <1>3, <1>4 DEF RetryInv, TypeOK, MaxAttempts
<1>8. TypeOK' /\ Copies'
  BY <1>1, <1>6, <1>7 DEF RetryInv, TypeOK, Copies
<1>9. InStep'
  <2>1. Fits(r)'
    BY <1>1, <1>2, <1>3, <1>6, <1>7
    DEF Fits, RowFollowsRun, CountFollowsRun, Open, Again
  <2>2. QED
    BY <1>4, <1>5, <2>1, OthersFit
<1>10. Budget'
  BY <1>1, <1>2, <1>6 DEF RetryInv, Budget, BudgetLeft, BudgetHonoured
<1>11. Restarts'
  <2>1. \A q \in Runs : Grows(q) => q = r
    BY <1>5 DEF RetryInv, OneAtATime, Grows
  <2>2. rows # <<>> => rows[Len(rows)].attempt \in Nat
    BY LastRow DEF RetryInv
  <2>3. rows # <<>> /\ Grows(r) => Grows(r)'
    BY <1>1, <1>3, <1>6, <1>7, <2>2 DEF Grows, Again, Active
  <2>4. QED
    BY <1>1, <2>1, <2>3, FrameInv DEF RetryInv, Restarts
<1>12. EventsAreTrue'
  BY <1>1, <1>6 DEF RetryInv, EventsAreTrue, Announced, Again
<1>13. QED
  BY <1>1, <1>6, <1>8, <1>9, <1>10, <1>11, <1>12, FrameInv DEF RetryInv

-----------------------------------------------------------------------------
(* Faults, and what clients do meanwhile.                                  *)

(* A run of a deleted task ends.                                           *)
LEMMA MissTaskInv ==
  ASSUME RetryInv, NEW r \in Runs, deleted, MissTask(r)
  PROVE  RetryInv'
<1>1. /\ Active(r)
      /\ UNCHANGED <<task, mission, rows, events, attempt, seen, spared, faults, deleted>>
  BY DEF MissTask
<1>2. PICK to \in {"done", "dead"} : Goto(r, to)
  BY DEF MissTask
<1>3. to \in Locations
  BY DEF Locations
<1>4. /\ pc' \in [Runs -> Locations] /\ pc'[r] = to
      /\ \A q \in Runs \ {r} : pc'[q] = pc[q] /\ pc[q] \in {"idle", "done", "dead"}
      /\ OneAtATime'
  BY <1>1, <1>2, <1>3, Moves
<1>5. TypeOK' /\ Copies'
  BY <1>1, <1>4 DEF RetryInv, TypeOK, Copies
<1>6. InStep'
  BY <1>1, <1>2, <1>3, <1>4, OthersFit, RestFits
<1>7. Budget' /\ Restarts'
  BY <1>1, FrameInv
  DEF RetryInv, Emptied, Budget, BudgetLeft, BudgetHonoured, Restarts
<1>8. EventsAreTrue'
  BY <1>1 DEF EventsAreTrue
<1>9. QED
  BY <1>1, <1>4, <1>5, <1>6, <1>7, <1>8, FrameInv DEF RetryInv

(* Runs that a fault ends commit nothing, and the next one has an attempt  *)
(* more.                                                                   *)
LEMMA FaultInv ==
  ASSUME RetryInv, pc' \in [Runs -> Locations],
         \A r \in Runs : pc'[r] \in {pc[r], "dead"},
         faults < MaxFaults, faults' = faults + 1,
         UNCHANGED <<task, mission, rows, events, attempt, seen, spared, deleted>>
  PROVE  RetryInv'
<1>1. faults \in Nat /\ MaxFaults \in Nat /\ task.count \in Nat
  BY RetryAssumption DEF RetryInv, TypeOK, Task
<1>2. TypeOK' /\ Copies'
  BY <1>1 DEF RetryInv, TypeOK, Copies
<1>3. OneAtATime'
  BY DEF RetryInv, OneAtATime, Active
<1>4. InStep'
  <2>1. ASSUME NEW r \in Runs, pc'[r] = pc[r]
        PROVE  Fits(r)'
    BY <2>1 DEF RetryInv, InStep, Fits, RowFollowsRun, CountFollowsRun, Active
  <2>2. ASSUME NEW r \in Runs, pc'[r] = "dead"
        PROVE  Fits(r)'
    BY <2>2, RestFits
  <2>3. QED
    BY <2>1, <2>2 DEF InStep
<1>5. Budget'
  BY <1>1 DEF RetryInv, Budget, BudgetLeft, BudgetHonoured, MaxAttempts
<1>6. Restarts'
  <2>1. Cardinality(Drops) \in Nat
    <3>1. Len(rows) \in Nat
      BY LenProperties DEF RetryInv, TypeOK
    <3>2. IsFiniteSet(1 .. Len(rows) - 1)
      BY <3>1, FS_Interval
    <3>3. QED
      BY <3>2, FS_Subset, FS_CardinalityType DEF Drops
  <2>2. QED
    BY <1>1, <2>1, FrameInv DEF RetryInv, Restarts
<1>7. EventsAreTrue'
  BY <1>1 DEF RetryInv, EventsAreTrue, Announced
<1>8. QED
  BY <1>2, <1>3, <1>4, <1>5, <1>6, <1>7, FrameInv DEF RetryInv

(* One run ends with an exception.                                         *)
LEMMA RaiseInv ==
  ASSUME RetryInv, NEW r \in Runs, Raise(r)
  PROVE  RetryInv'
<1>1. pc' \in [Runs -> Locations] /\ \A q \in Runs : pc'[q] \in {pc[q], "dead"}
  BY DEF Raise, Goto, RetryInv, TypeOK, Locations
<1>2. QED
  BY <1>1, FaultInv DEF Raise

(* The process dies with all its runs.                                     *)
LEMMA CrashInv ==
  ASSUME RetryInv, Crash
  PROVE  RetryInv'
<1>1. pc' \in [Runs -> Locations] /\ \A q \in Runs : pc'[q] \in {pc[q], "dead"}
  BY DEF Crash, RetryInv, TypeOK, Locations
<1>2. QED
  BY <1>1, FaultInv DEF Crash

(* The mission is merged.                                                  *)
LEMMA MergeMissionInv ==
  ASSUME RetryInv, MergeMission
  PROVE  RetryInv'
<1>1. /\ mission' = "merged"
      /\ UNCHANGED <<task, rows, events, pc, attempt, seen, spared, faults, deleted>>
  BY DEF MergeMission
<1>2. TypeOK' /\ Copies' /\ OneAtATime'
  BY <1>1 DEF RetryInv, TypeOK, Copies, OneAtATime, Active
<1>3. InStep'
  BY <1>1 DEF RetryInv, InStep, Fits, RowFollowsRun, CountFollowsRun, Active
<1>4. Budget' /\ Restarts'
  BY <1>1, FrameInv DEF RetryInv, Budget, BudgetHonoured, Restarts, Grows, Active
<1>5. EventsAreTrue'
  BY <1>1 DEF RetryInv, EventsAreTrue, Announced
<1>6. QED
  BY <1>1, <1>2, <1>3, <1>4, <1>5, FrameInv DEF RetryInv

(* The mission is deleted with its task and the rows.                      *)
LEMMA DeleteMissionInv ==
  ASSUME RetryInv, DeleteMission
  PROVE  RetryInv'
<1>1. /\ deleted' = TRUE /\ task' = [status |-> "pending", count |-> 0] /\ rows' = <<>>
      /\ UNCHANGED <<mission, events, pc, attempt, seen, spared, faults>>
  BY DEF DeleteMission
<1>2. faults \in Nat
  BY RetryAssumption DEF RetryInv, TypeOK
<1>3. TypeOK'
  <2>1. task' \in Task
    BY <1>1 DEF Task, TaskStatus
  <2>2. rows' \in Seq([attempt: 1 .. MaxAttempts, status: {"completed", "failed"}])
    BY <1>1
  <2>3. QED
    BY <1>1, <2>1, <2>2 DEF RetryInv, TypeOK
<1>4. Copies' /\ OneAtATime' /\ InStep' /\ Emptied'
  BY <1>1 DEF RetryInv, Copies, OneAtATime, InStep, Fits, Active, Emptied
<1>5. Budget'
  BY <1>1, <1>2 DEF Budget, BudgetLeft, BudgetHonoured, MaxAttempts
<1>6. OneCompleted' /\ EscalatedAfterBudget'
  BY <1>1 DEF OneCompleted, EscalatedAfterBudget
<1>7. Restarts'
  <2>1. Drops' = {}
    BY <1>1 DEF Drops
  <2>2. QED
    BY <1>1, <1>2, <2>1, FS_EmptySet DEF Restarts
<1>8. EventsAreTrue'
  BY <1>1 DEF EventsAreTrue
<1>9. QED
  BY <1>3, <1>4, <1>5, <1>6, <1>7, <1>8 DEF RetryInv

-----------------------------------------------------------------------------
(* Commits.                                                                *)

(* The attempt is counted before any work.                                 *)
LEMMA CountAttemptInv ==
  ASSUME RetryInv, NEW r \in Runs, ~deleted, CountAttempt(r)
  PROVE  RetryInv'
<1>1. /\ pc[r] = "count" /\ Goto(r, "work") /\ task' = Counted(r)
      /\ UNCHANGED <<mission, rows, events, attempt, seen, spared, faults, deleted>>
  BY DEF CountAttempt
<1>2. Active(r) /\ "work" \in Locations
  BY <1>1 DEF Active, Locations
<1>3. /\ seen[r] = task /\ task.status \notin Finished
      /\ attempt[r] <= task.count + 1 /\ attempt[r] >= 1
  BY <1>1, <1>2 DEF RetryInv, InStep, Fits, RowFollowsRun, CountFollowsRun
<1>4. task' = [status |-> "running", count |-> task.count + 1]
  BY <1>1, <1>3, Written DEF RetryInv
<1>5. /\ pc' \in [Runs -> Locations] /\ pc'[r] = "work"
      /\ \A q \in Runs \ {r} : pc'[q] = pc[q] /\ pc[q] \in {"idle", "done", "dead"}
      /\ OneAtATime'
  BY <1>1, <1>2, Moves
<1>6. /\ task.count \in Nat /\ faults \in Nat
      /\ task.status \in {"pending", "running"}
  BY <1>3, RetryAssumption DEF RetryInv, TypeOK, Task, TaskStatus
<1>7. TypeOK' /\ Copies'
  <2>1. task' \in Task
    BY <1>4, <1>6 DEF Task, TaskStatus
  <2>2. QED
    BY <1>1, <1>5, <2>1 DEF RetryInv, TypeOK, Copies
<1>8. InStep'
  <2>1. Fits(r)'
    BY <1>1, <1>3, <1>4, <1>5 DEF Fits, RowFollowsRun, CountFollowsRun, Open, Again
  <2>2. QED
    BY <1>1, <1>2, <2>1, OthersFit
<1>9. Budget'
  <2>1. \A q \in Runs : pc[q] \notin Open
    BY <1>1, <1>5 DEF Open
  <2>2. task.count < MaxAttempts + faults
    BY <1>6, <2>1 DEF RetryInv, Budget, BudgetLeft, MaxAttempts
  <2>3. QED
    BY <1>1, <1>4, <1>5, <1>6, <2>2 DEF Budget, BudgetHonoured, MaxAttempts, Open
<1>10. OneCompleted' /\ EscalatedAfterBudget' /\ Emptied' /\ Drops' = Drops
  BY <1>1, <1>3, <1>4
  DEF RetryInv, OneCompleted, IsCompleted, EscalatedAfterBudget, Emptied, Drops, Finished
<1>11. Restarts'
  <2>1. \A q \in Runs : Grows(q) => q = r
    BY <1>2 DEF RetryInv, OneAtATime, Grows
  <2>2. Grows(r) => Grows(r)'
    BY <1>1, <1>5 DEF Grows, Again, Active
  <2>3. QED
    BY <1>1, <1>3, <1>10, <2>1, <2>2 DEF RetryInv, Restarts
<1>12. EventsAreTrue'
  BY <1>1, <1>3, <1>5 DEF RetryInv, EventsAreTrue, Announced, Finished
<1>13. QED
  BY <1>5, <1>7, <1>8, <1>9, <1>10, <1>11, <1>12 DEF RetryInv

(* The row of an attempt that failed leaves no completed one.              *)
LEMMA FailedRow ==
  ASSUME RetryInv, NEW r \in Runs, Active(r), AddRow(r, "failed"),
         task.status # "completed", task'.status # "completed"
  PROVE  /\ OneCompleted'
         /\ rows' # <<>> /\ rows'[Len(rows')].status = "failed"
         /\ rows'[Len(rows')].attempt = attempt[r]
<1>1. /\ Len(rows) \in Nat /\ Len(rows') = Len(rows) + 1
      /\ \A i \in 1 .. Len(rows) : rows'[i] = rows[i]
      /\ rows'[Len(rows) + 1] = [attempt |-> attempt[r], status |-> "failed"]
  BY RowsGrow DEF RetryInv, InStep, Fits
<1>2. rows' # <<>>
  BY <1>1
<1>3. \A i \in 1 .. Len(rows') : ~IsCompleted(i)'
  BY <1>1 DEF RetryInv, OneCompleted, IsCompleted
<1>4. QED
  BY <1>1, <1>2, <1>3 DEF OneCompleted

(* A failed attempt with budget left.                                      *)
LEMMA CommitPendingInv ==
  ASSUME RetryInv, NEW r \in Runs, ~deleted, CommitPending(r)
  PROVE  RetryInv'
<1>1. /\ pc[r] = "commit_pending" /\ Goto(r, "refresh") /\ AddRow(r, "failed")
      /\ task' = SetStatus(r, "pending")
      /\ UNCHANGED <<mission, events, attempt, seen, spared, faults, deleted>>
  BY DEF CommitPending
<1>2. Active(r) /\ "refresh" \in Locations /\ pc[r] \notin Again /\ pc[r] \in Open
  BY <1>1 DEF Active, Locations, Again, Open
<1>3. /\ seen[r] = task /\ task.status = "running" /\ BudgetLeft(task.count)
      /\ attempt[r] <= task.count /\ attempt[r] >= 1
  BY <1>1, <1>2 DEF RetryInv, InStep, Fits, RowFollowsRun, CountFollowsRun, Open
<1>4. task' = [status |-> "pending", count |-> task.count]
  BY <1>1, <1>3, Written DEF RetryInv, TaskStatus
<1>5. /\ pc' \in [Runs -> Locations] /\ pc'[r] = "refresh"
      /\ \A q \in Runs \ {r} : pc'[q] = pc[q] /\ pc[q] \in {"idle", "done", "dead"}
      /\ OneAtATime'
  BY <1>1, <1>2, Moves
<1>6. task.count \in Nat
  BY DEF RetryInv, TypeOK, Task
<1>7. TypeOK' /\ Copies'
  <2>1. task' \in Task
    BY <1>4, <1>6 DEF Task, TaskStatus
  <2>2. rows' \in Seq([attempt: 1 .. MaxAttempts, status: {"completed", "failed"}])
    BY <1>1, <1>3, RowsGrow DEF RetryInv
  <2>3. QED
    BY <1>1, <1>5, <2>1, <2>2 DEF RetryInv, TypeOK, Copies
<1>8. InStep'
  <2>1. Fits(r)'
    BY <1>1, <1>3, <1>4, <1>5 DEF Fits, RowFollowsRun, CountFollowsRun, Open, Again
  <2>2. QED
    BY <1>1, <1>2, <2>1, OthersFit
<1>9. Budget'
  BY <1>1, <1>3, <1>4 DEF RetryInv, Budget, BudgetHonoured, BudgetLeft
<1>10. OneCompleted' /\ EscalatedAfterBudget' /\ Emptied'
  BY <1>1, <1>2, <1>3, <1>4, FailedRow DEF EscalatedAfterBudget, Emptied
<1>11. Restarts'
  <2>1. Cardinality(Drops') <= faults
    BY <1>1, <1>2, <1>3, DropsBounded DEF Finished
  <2>2. Grows(r)'
    BY <1>1, <1>2, <1>3, <1>4, <1>5, FailedRow DEF Grows, Again, Active
  <2>3. QED
    BY <1>1, <2>1, <2>2 DEF Restarts
<1>12. EventsAreTrue'
  BY <1>1, <1>3, <1>5 DEF RetryInv, EventsAreTrue, Announced
<1>13. QED
  BY <1>5, <1>7, <1>8, <1>9, <1>10, <1>11, <1>12 DEF RetryInv

(* A failed attempt that was the last.                                     *)
LEMMA CommitEscalatedInv ==
  ASSUME RetryInv, NEW r \in Runs, ~deleted, CommitEscalated(r)
  PROVE  RetryInv'
<1>1. /\ pc[r] = "commit_escalated" /\ Goto(r, "done") /\ AddRow(r, "failed")
      /\ task' = SetStatus(r, "escalated")
      /\ mission' = IF spared[r] THEN mission ELSE "escalated"
      /\ UNCHANGED <<events, attempt, seen, spared, faults, deleted>>
  BY DEF CommitEscalated
<1>2. Active(r) /\ "done" \in Locations /\ pc[r] \notin Again /\ pc[r] \in Open
  BY <1>1 DEF Active, Locations, Again, Open
<1>3. /\ seen[r] = task /\ task.status = "running" /\ ~BudgetLeft(task.count)
      /\ attempt[r] >= 1 /\ (spared[r] => mission # "active")
  BY <1>1, <1>2 DEF RetryInv, InStep, Fits, RowFollowsRun, CountFollowsRun, Open
<1>4. task' = [status |-> "escalated", count |-> task.count]
  BY <1>1, <1>3, Written DEF RetryInv, TaskStatus, Finished
<1>5. /\ pc' \in [Runs -> Locations] /\ pc'[r] = "done"
      /\ \A q \in Runs \ {r} : pc'[q] = pc[q] /\ pc[q] \in {"idle", "done", "dead"}
      /\ OneAtATime'
  BY <1>1, <1>2, Moves
<1>6. task.count \in Nat /\ mission' \in {"active", "merged", "escalated"} /\ mission' # "active"
  BY <1>1, <1>3 DEF RetryInv, TypeOK, Task
<1>7. TypeOK' /\ Copies'
  <2>1. task' \in Task
    BY <1>4, <1>6 DEF Task, TaskStatus, Finished
  <2>2. rows' \in Seq([attempt: 1 .. MaxAttempts, status: {"completed", "failed"}])
    BY <1>1, <1>3, RowsGrow DEF RetryInv
  <2>3. QED
    BY <1>1, <1>5, <1>6, <2>1, <2>2 DEF RetryInv, TypeOK, Copies
<1>8. InStep'
  BY <1>1, <1>2, <1>5, OthersFit, RestFits
<1>9. Budget'
  BY <1>1, <1>4 DEF RetryInv, Budget, BudgetHonoured
<1>10. OneCompleted' /\ EscalatedAfterBudget' /\ Emptied'
  <2>1. OneCompleted' /\ rows' # <<>> /\ rows'[Len(rows')].status = "failed"
    BY <1>1, <1>2, <1>3, <1>4, FailedRow
  <2>2. QED
    BY <1>1, <1>3, <1>4, <1>6, <2>1 DEF EscalatedAfterBudget, Emptied, BudgetLeft, MaxAttempts
<1>11. Restarts'
  BY <1>1, <1>2, <1>3, <1>4, DropsBounded DEF Restarts, Finished
<1>12. EventsAreTrue'
  BY <1>1, <1>3, <1>4 DEF RetryInv, EventsAreTrue, Announced
<1>13. QED
  BY <1>5, <1>7, <1>8, <1>9, <1>10, <1>11, <1>12 DEF RetryInv

(* An attempt that completed the task.                                     *)
LEMMA CommitCompletedInv ==
  ASSUME RetryInv, NEW r \in Runs, ~deleted, CommitCompleted(r)
  PROVE  RetryInv'
<1>1. /\ pc[r] = "commit_completed" /\ Goto(r, "publish") /\ AddRow(r, "completed")
      /\ task' = [SetStatus(r, "completed") EXCEPT
                    !.count = Assigned(seen[r].count, attempt[r], @)]
      /\ UNCHANGED <<mission, events, attempt, seen, spared, faults, deleted>>
  BY DEF CommitCompleted
<1>2. Active(r) /\ "publish" \in Locations /\ pc[r] \notin Again /\ pc[r] \in Open
  BY <1>1 DEF Active, Locations, Again, Open
<1>3. /\ seen[r] = task /\ task.status = "running"
      /\ attempt[r] <= task.count /\ attempt[r] >= 1
  BY <1>1, <1>2 DEF RetryInv, InStep, Fits, RowFollowsRun, CountFollowsRun, Open
<1>4. task' = [status |-> "completed", count |-> attempt[r]]
  <2>1. SetStatus(r, "completed") = [status |-> "completed", count |-> task.count]
    BY <1>3, Written DEF RetryInv, TaskStatus, Finished
  <2>2. QED
    BY <1>1, <1>3, <2>1 DEF Assigned
<1>5. /\ pc' \in [Runs -> Locations] /\ pc'[r] = "publish"
      /\ \A q \in Runs \ {r} : pc'[q] = pc[q] /\ pc[q] \in {"idle", "done", "dead"}
      /\ OneAtATime'
  BY <1>1, <1>2, Moves
<1>6. /\ task.count \in Nat /\ faults \in Nat
      /\ attempt[r] \in Nat /\ attempt[r] <= MaxAttempts
  BY RetryAssumption DEF RetryInv, TypeOK, Task, MaxAttempts
<1>7. TypeOK' /\ Copies'
  <2>1. task' \in Task
    BY <1>4, <1>6 DEF Task, TaskStatus, Finished
  <2>2. rows' \in Seq([attempt: 1 .. MaxAttempts, status: {"completed", "failed"}])
    BY <1>1, <1>3, RowsGrow DEF RetryInv
  <2>3. QED
    BY <1>1, <1>5, <2>1, <2>2 DEF RetryInv, TypeOK, Copies
<1>8. InStep'
  <2>1. Fits(r)'
    BY <1>1, <1>3, <1>4, <1>5 DEF Fits, RowFollowsRun, CountFollowsRun, Open, Again
  <2>2. QED
    BY <1>1, <1>2, <2>1, OthersFit
<1>9. Budget'
  BY <1>1, <1>4, <1>6 DEF Budget, BudgetHonoured, MaxAttempts
<1>10. OneCompleted' /\ EscalatedAfterBudget' /\ Emptied'
  <2>1. /\ Len(rows) \in Nat /\ Len(rows') = Len(rows) + 1
        /\ \A i \in 1 .. Len(rows) : rows'[i] = rows[i]
        /\ rows'[Len(rows) + 1].status = "completed"
    <3>1. rows'[Len(rows) + 1] = [attempt |-> attempt[r], status |-> "completed"]
      BY <1>1, <1>3, RowsGrow DEF RetryInv
    <3>2. Len(rows) \in Nat /\ Len(rows') = Len(rows) + 1
      BY <1>1, <1>3, RowsGrow DEF RetryInv
    <3>3. \A i \in 1 .. Len(rows) : rows'[i] = rows[i]
      BY <1>1, <1>3, RowsGrow DEF RetryInv
    <3>4. QED
      BY <3>1, <3>2, <3>3
  <2>2. \A i \in 1 .. Len(rows) : ~IsCompleted(i)
    BY <1>3 DEF RetryInv, OneCompleted
  <2>3. \A i \in 1 .. Len(rows') : IsCompleted(i)' <=> i = Len(rows')
    BY <2>1, <2>2 DEF IsCompleted
  <2>4. OneCompleted'
    BY <1>4, <2>1, <2>3 DEF OneCompleted
  <2>5. QED
    BY <1>1, <1>4, <2>4 DEF EscalatedAfterBudget, Emptied
<1>11. Restarts'
  BY <1>1, <1>2, <1>3, <1>4, DropsBounded DEF Restarts, Finished
<1>12. EventsAreTrue'
  BY <1>1, <1>3, <1>4, <1>5 DEF RetryInv, EventsAreTrue, Announced
<1>13. QED
  BY <1>5, <1>7, <1>8, <1>9, <1>10, <1>11, <1>12 DEF RetryInv

(* An attempt that found no agent: counted and recorded at once.           *)
LEMMA AgentNotFoundInv ==
  ASSUME RetryInv, NEW r \in Runs, ~deleted, AgentNotFound(r)
  PROVE  RetryInv'
<1>1. /\ pc[r] = "count" /\ AddRow(r, "failed")
      /\ UNCHANGED <<attempt, seen, spared, faults, deleted>>
  BY DEF AgentNotFound
<1>2. Active(r) /\ pc[r] \notin Again
  BY <1>1 DEF Active, Again
<1>3. /\ seen[r] = task /\ task.status \notin Finished
      /\ attempt[r] <= task.count + 1 /\ attempt[r] >= 1
  BY <1>1, <1>2 DEF RetryInv, InStep, Fits, RowFollowsRun, CountFollowsRun
<1>4. Counted(r) = [status |-> "running", count |-> task.count + 1]
  BY <1>3, Written DEF RetryInv
<1>5. PICK to \in {"refresh_missing", "done"} :
        /\ Goto(r, to)
        /\ to = "refresh_missing" =>
             /\ BudgetLeft(task.count + 1)
             /\ task' = [status |-> "pending", count |-> task.count + 1]
             /\ UNCHANGED <<mission, events>>
        /\ to = "done" =>
             /\ ~BudgetLeft(task.count + 1)
             /\ task' = [status |-> "escalated", count |-> task.count + 1]
             /\ mission' = IF mission = "active" THEN "escalated" ELSE mission
             /\ events' = events \o EscalationEvents
  BY <1>4 DEF AgentNotFound
<1>6. to \in Locations
  BY DEF Locations
<1>7. /\ pc' \in [Runs -> Locations] /\ pc'[r] = to
      /\ \A q \in Runs \ {r} : pc'[q] = pc[q] /\ pc[q] \in {"idle", "done", "dead"}
      /\ OneAtATime'
  BY <1>2, <1>5, <1>6, Moves
<1>8. /\ task.count \in Nat /\ faults \in Nat
      /\ task'.count = task.count + 1
      /\ task'.status = IF to = "done" THEN "escalated" ELSE "pending"
      /\ task.status \in {"pending", "running"}
  BY <1>3, <1>5, RetryAssumption DEF RetryInv, TypeOK, Task, TaskStatus
<1>9. /\ mission' \in {"active", "merged", "escalated"}
      /\ to = "done" => mission' # "active"
  BY <1>5 DEF RetryInv, TypeOK
<1>10. /\ events' \in Seq({"task.completed", "task.escalated", "mission.escalated"})
       /\ Announced("task.completed")' <=> Announced("task.completed")
       /\ to = "refresh_missing" => events' = events
  <2>1. CASE to = "refresh_missing"
    BY <1>5, <2>1 DEF RetryInv, TypeOK, Announced
  <2>2. CASE to = "done"
    BY <1>5, <2>2, EscalationAnnounced DEF RetryInv
  <2>3. QED
    BY <2>1, <2>2
<1>11. TypeOK' /\ Copies'
  <2>1. task' \in Task
    BY <1>5, <1>8 DEF Task, TaskStatus, Finished
  <2>2. rows' \in Seq([attempt: 1 .. MaxAttempts, status: {"completed", "failed"}])
    BY <1>1, <1>3, RowsGrow DEF RetryInv
  <2>3. QED
    BY <1>1, <1>7, <1>9, <1>10, <2>1, <2>2 DEF RetryInv, TypeOK, Copies
<1>12. InStep'
  <2>1. Fits(r)'
    BY <1>1, <1>3, <1>5, <1>7, <1>8 DEF Fits, RowFollowsRun, CountFollowsRun, Open, Again, Active
  <2>2. QED
    BY <1>2, <1>5, <1>6, <2>1, OthersFit
<1>13. Budget'
  <2>1. \A q \in Runs : pc[q] \notin Open
    BY <1>1, <1>7 DEF Open
  <2>2. task.count < MaxAttempts + faults
    BY <1>8, <2>1 DEF RetryInv, Budget, BudgetLeft, MaxAttempts
  <2>3. QED
    BY <1>1, <1>5, <1>8, <2>2 DEF Budget, BudgetHonoured, BudgetLeft, MaxAttempts
<1>14. OneCompleted' /\ EscalatedAfterBudget' /\ Emptied'
  <2>1. OneCompleted' /\ rows' # <<>> /\ rows'[Len(rows')].status = "failed"
    BY <1>1, <1>2, <1>3, <1>8, FailedRow DEF Finished
  <2>2. QED
    BY <1>1, <1>5, <1>8, <1>9, <2>1
    DEF EscalatedAfterBudget, Emptied, BudgetLeft, MaxAttempts
<1>15. Restarts'
  <2>1. Cardinality(Drops') <= faults
    BY <1>1, <1>2, <1>3, DropsBounded
  <2>2. to = "refresh_missing" => Grows(r)'
    BY <1>1, <1>2, <1>3, <1>7, <1>8, FailedRow DEF Grows, Again, Active, Finished
  <2>3. QED
    BY <1>1, <1>8, <2>1, <2>2 DEF Restarts, Finished
<1>16. EventsAreTrue'
  BY <1>1, <1>3, <1>7, <1>8, <1>10 DEF RetryInv, EventsAreTrue, Announced, Finished
<1>17. QED
  BY <1>7, <1>11, <1>12, <1>13, <1>14, <1>15, <1>16 DEF RetryInv

-----------------------------------------------------------------------------
(* The invariant holds initially.                                          *)
LEMMA InitInv == Init => RetryInv
<1> SUFFICES ASSUME Init
             PROVE  RetryInv
  OBVIOUS
<1>1. MaxFaults \in Nat
  BY RetryAssumption
<1>2. TypeOK /\ Copies
  <2>1. /\ rows \in Seq([attempt: 1 .. MaxAttempts, status: {"completed", "failed"}])
        /\ events \in Seq({"task.completed", "task.escalated", "mission.escalated"})
    BY DEF Init
  <2>2. task \in Task
    BY DEF Init, Task, TaskStatus
  <2>3. /\ mission \in {"active", "merged", "escalated"} /\ deleted \in BOOLEAN
        /\ pc \in [Runs -> Locations] /\ attempt \in [Runs -> 0 .. MaxAttempts]
        /\ spared \in [Runs -> BOOLEAN] /\ faults \in 0 .. MaxFaults
    <3>1. faults \in 0 .. MaxFaults
      BY <1>1 DEF Init
    <3>2. pc \in [Runs -> Locations] /\ attempt \in [Runs -> 0 .. MaxAttempts]
      BY DEF Init, Locations, MaxAttempts
    <3>3. spared \in [Runs -> BOOLEAN]
      BY DEF Init
    <3>4. QED
      BY <3>1, <3>2, <3>3 DEF Init
  <2>4. Copies /\ \A r \in Runs : seen[r] = NoCopy
    BY DEF Init, Copies
  <2>5. QED
    BY <2>1, <2>2, <2>3, <2>4 DEF TypeOK
<1>3. \A r \in Runs : pc[r] = "idle"
  BY DEF Init
<1>4. OneAtATime /\ InStep
  BY <1>3, RestFits DEF OneAtATime, InStep, Active
<1>5. Emptied /\ Budget /\ OneCompleted /\ EscalatedAfterBudget /\ EventsAreTrue
  BY DEF Init, Emptied, Budget, BudgetLeft, BudgetHonoured, MaxAttempts, OneCompleted,
         EscalatedAfterBudget, EventsAreTrue, Announced
<1>6. Restarts
  <2>1. Drops = {}
    BY DEF Init, Drops
  <2>2. QED
    BY <2>1, FS_EmptySet DEF Init, Restarts
<1>7. QED
  BY <1>2, <1>4, <1>5, <1>6 DEF RetryInv

(* Every step keeps the invariant when runs do not overlap.                *)
LEMMA NextInv ==
  ASSUME ~Overlapping, RetryInv, [Next]_vars
  PROVE  RetryInv'
<1>1. CASE UNCHANGED vars
  <2>1. TypeOK' /\ Copies' /\ OneAtATime' /\ InStep'
    BY <1>1 DEF vars, RetryInv, TypeOK, Copies, OneAtATime, InStep, Fits, RowFollowsRun,
                CountFollowsRun, Active
  <2>2. Budget' /\ Restarts' /\ EventsAreTrue'
    BY <1>1, FrameInv DEF vars, RetryInv, Budget, BudgetHonoured, Restarts, Grows, Active,
                          EventsAreTrue, Announced
  <2>3. QED
    BY <1>1, <2>1, <2>2, FrameInv DEF vars, RetryInv
<1>2. ASSUME NEW r \in Runs, Step(r)
      PROVE  RetryInv'
  BY <1>2, LoadInv, CountAttemptInv, AgentNotFoundInv, SucceedInv, FailInv,
     CommitCompletedInv, PublishInv, CommitPendingInv, RefreshInv, CommitEscalatedInv,
     MissTaskInv DEF Step
<1>3. QED
  BY <1>1, <1>2, BeginInv, RaiseInv, MergeMissionInv, DeleteMissionInv, CrashInv DEF Next

(* The invariant is one.                                                   *)
LEMMA InvHolds == ASSUME ~Overlapping PROVE Spec => []RetryInv
BY InitInv, NextInv, PTL DEF Spec

-----------------------------------------------------------------------------
(* The types alone need less, and hold of runs that overlap too: a run     *)
(* that is active has begun an attempt, and one that is about to commit    *)
(* has loaded the task.                                                    *)
Loaded == {"count", "commit_completed", "commit_pending", "commit_escalated"}

TypeInv ==
  /\ TypeOK /\ Copies
  /\ \A r \in Runs : /\ Active(r) => attempt[r] >= 1
                     /\ pc[r] \in Loaded => seen[r] \in Task

(* What a commit of a session that has loaded the task writes is a task.   *)
LEMMA CommitTyped ==
  ASSUME TypeInv, NEW r \in Runs, seen[r] \in Task
  PROVE  /\ \A s \in TaskStatus : SetStatus(r, s) \in Task
         /\ Counted(r) \in Task
<1>1. task \in Task
  BY DEF TypeInv, TypeOK
<1>2. ASSUME NEW s \in TaskStatus
      PROVE  SetStatus(r, s) \in Task
  BY <1>1 DEF SetStatus, Assigned, Task
<1>3. SetStatus(r, "running") \in Task
  BY <1>2 DEF TaskStatus
<1>4. Counted(r) \in Task
  BY <1>3 DEF Counted, Task
<1>5. QED
  BY <1>2, <1>4

(* A step of a run keeps the types, whatever other runs do.                *)
LEMMA StepTyped ==
  ASSUME TypeInv, NEW r \in Runs, Step(r)
  PROVE  TypeInv'
<1>1. /\ Active(r) /\ attempt[r] \in 1 .. MaxAttempts /\ UNCHANGED <<faults, deleted>>
  <2>1. Active(r) /\ UNCHANGED <<faults, deleted>>
    BY DEF Step, Load, CountAttempt, AgentNotFound, Succeed, Fail, CommitCompleted, Publish,
           CommitPending, Refresh, CommitEscalated, MissTask, Active
  <2>2. QED
    BY <2>1 DEF TypeInv, TypeOK, MaxAttempts
<1>2. attempt' \in [Runs -> 0 .. MaxAttempts] /\ \A q \in Runs : attempt'[q] >= attempt[q]
  <2>1. CASE UNCHANGED attempt
    BY <2>1 DEF TypeInv, TypeOK, MaxAttempts
  <2>2. CASE attempt[r] < MaxAttempts /\ attempt' = [attempt EXCEPT ![r] = @ + 1]
    BY <2>2 DEF TypeInv, TypeOK, MaxAttempts
  <2>3. QED
    BY <2>1, <2>2 DEF Step, Load, CountAttempt, AgentNotFound, Succeed, Fail,
       CommitCompleted, Publish, CommitPending, Refresh, CommitEscalated, MissTask
<1>3. /\ \E to \in Locations : Goto(r, to)
      /\ seen' = seen \/ seen' = [seen EXCEPT ![r] = task]
      /\ pc'[r] \in Loaded => seen' = [seen EXCEPT ![r] = task]
  BY DEF Step, Load, CountAttempt, AgentNotFound, Succeed, Fail, CommitCompleted, Publish,
         CommitPending, Refresh, CommitEscalated, MissTask, Goto, Locations, Loaded,
         TypeInv, TypeOK
<1>4. /\ pc' \in [Runs -> Locations] /\ \A q \in Runs \ {r} : pc'[q] = pc[q]
      /\ Copies' /\ \A q \in Runs \ {r} : seen'[q] = seen[q]
      /\ pc'[r] \in Loaded => seen'[r] \in Task
      /\ \A q \in Runs : seen'[q] = NoCopy \/ seen'[q] \in Task
  BY <1>3 DEF Goto, TypeInv, TypeOK, Copies
<1>5. task' \in Task
  <2>1. CASE UNCHANGED task
    BY <2>1 DEF TypeInv, TypeOK
  <2>2. CASE /\ pc[r] \in Loaded
             /\ \/ \E s \in TaskStatus : task' = SetStatus(r, s)
                \/ task' = Counted(r)
                \/ \E s \in TaskStatus : task' = [Counted(r) EXCEPT !.status = s]
                \/ task' = [SetStatus(r, "completed") EXCEPT
                              !.count = Assigned(seen[r].count, attempt[r], @)]
    <3>1. seen[r] \in Task /\ attempt[r] \in Nat /\ "completed" \in TaskStatus
      BY <1>1, <2>2 DEF TypeInv, TaskStatus, Finished, MaxAttempts
    <3>2. /\ \A s \in TaskStatus : SetStatus(r, s) \in Task
          /\ SetStatus(r, "completed") \in Task /\ Counted(r) \in Task
      BY <3>1, CommitTyped
    <3>3. QED
      BY <2>2, <3>1, <3>2 DEF Task, Assigned
  <2>3. QED
    BY <2>1, <2>2 DEF Step, Load, CountAttempt, AgentNotFound, Succeed, Fail,
       CommitCompleted, Publish, CommitPending, Refresh, CommitEscalated, MissTask,
       Loaded, TaskStatus, Finished
<1>6. rows' \in Seq([attempt: 1 .. MaxAttempts, status: {"completed", "failed"}])
  <2>1. CASE UNCHANGED rows
    BY <2>1 DEF TypeInv, TypeOK
  <2>2. ASSUME NEW s \in {"completed", "failed"}, AddRow(r, s)
        PROVE  rows' \in Seq([attempt: 1 .. MaxAttempts, status: {"completed", "failed"}])
    BY <1>1, <2>2, RowsGrow DEF TypeInv, MaxAttempts
  <2>3. QED
    BY <2>1, <2>2 DEF Step, Load, CountAttempt, AgentNotFound, Succeed, Fail,
       CommitCompleted, Publish, CommitPending, Refresh, CommitEscalated, MissTask
<1>7. events' \in Seq({"task.completed", "task.escalated", "mission.escalated"})
  <2>1. CASE UNCHANGED events
    BY <2>1 DEF TypeInv, TypeOK
  <2>2. CASE events' = Append(events, "task.completed")
    BY <2>2, OneEvent DEF TypeInv
  <2>3. CASE events' = events \o EscalationEvents
    BY <2>3, EscalationAnnounced DEF TypeInv
  <2>4. QED
    BY <2>1, <2>2, <2>3 DEF Step, Load, CountAttempt, AgentNotFound, Succeed, Fail,
       CommitCompleted, Publish, CommitPending, Refresh, CommitEscalated, MissTask
<1>8. mission' \in {"active", "merged", "escalated"} /\ spared' \in [Runs -> BOOLEAN]
  BY DEF Step, Load, CountAttempt, AgentNotFound, Succeed, Fail, CommitCompleted, Publish,
         CommitPending, Refresh, CommitEscalated, MissTask, TypeInv, TypeOK
<1>9. TypeOK'
  BY <1>1, <1>2, <1>4, <1>5, <1>6, <1>7, <1>8 DEF TypeInv, TypeOK
<1>10. ASSUME NEW q \in Runs
       PROVE  /\ Active(q)' => attempt'[q] >= 1
              /\ pc'[q] \in Loaded => seen'[q] \in Task
  <2>1. attempt[q] \in Nat /\ attempt'[q] \in Nat /\ attempt'[q] >= attempt[q]
    BY <1>2 DEF TypeInv, TypeOK, MaxAttempts
  <2>2. CASE q = r
    BY <1>1, <1>4, <2>1, <2>2 DEF MaxAttempts
  <2>3. CASE q # r
    BY <1>4, <2>1, <2>3 DEF TypeInv, Active
  <2>4. QED
    BY <2>2, <2>3
<1>11. QED
  BY <1>4, <1>9, <1>10 DEF TypeInv

(* The types are kept by every step.                                       *)
LEMMA NextTyped == TypeInv /\ [Next]_vars => TypeInv'
<1> SUFFICES ASSUME TypeInv, [Next]_vars PROVE TypeInv'
  OBVIOUS
<1>1. CASE UNCHANGED vars
  BY <1>1 DEF vars, TypeInv, TypeOK, Copies, Active
<1>2. ASSUME NEW r \in Runs, Begin(r)
      PROVE  TypeInv'
  <2>1. /\ pc' = [pc EXCEPT ![r] = "load"] /\ attempt' = [attempt EXCEPT ![r] = 1]
        /\ UNCHANGED <<task, mission, rows, events, seen, spared, faults, deleted>>
    BY <1>2 DEF Begin, Goto
  <2>2. TypeOK' /\ Copies'
    BY <2>1 DEF TypeInv, TypeOK, Copies, Locations, MaxAttempts
  <2>3. QED
    BY <2>1, <2>2 DEF TypeInv, TypeOK, Active, Loaded
<1>3. ASSUME NEW r \in Runs, Raise(r)
      PROVE  TypeInv'
  <2>1. /\ pc' = [pc EXCEPT ![r] = "dead"] /\ faults' = faults + 1 /\ faults < MaxFaults
        /\ UNCHANGED <<task, mission, rows, events, attempt, seen, spared, deleted>>
    BY <1>3 DEF Raise, Goto
  <2>2. TypeOK' /\ Copies'
    BY <2>1, RetryAssumption DEF TypeInv, TypeOK, Copies, Locations
  <2>3. QED
    BY <2>1, <2>2 DEF TypeInv, TypeOK, Active, Loaded
<1>4. CASE Crash
  <2>1. /\ pc' = [r \in Runs |-> IF Active(r) THEN "dead" ELSE pc[r]]
        /\ faults' = faults + 1 /\ faults < MaxFaults
        /\ UNCHANGED <<task, mission, rows, events, attempt, seen, spared, deleted>>
    BY <1>4 DEF Crash
  <2>2. TypeOK' /\ Copies'
    BY <2>1, RetryAssumption DEF TypeInv, TypeOK, Copies, Locations
  <2>3. QED
    BY <2>1, <2>2 DEF TypeInv, TypeOK, Active, Loaded
<1>5. CASE MergeMission
  BY <1>5 DEF MergeMission, TypeInv, TypeOK, Copies, Active
<1>6. CASE DeleteMission
  <2>1. task' \in Task /\ rows' = <<>> /\ deleted' = TRUE
        /\ UNCHANGED <<mission, events, pc, attempt, seen, spared, faults>>
    BY <1>6 DEF DeleteMission, Task, TaskStatus
  <2>2. rows' \in Seq([attempt: 1 .. MaxAttempts, status: {"completed", "failed"}])
    BY <2>1
  <2>3. QED
    BY <2>1, <2>2 DEF TypeInv, TypeOK, Copies, Active
<1>7. QED
  BY <1>1, <1>2, <1>3, <1>4, <1>5, <1>6, StepTyped DEF Next

(* The variables keep their types, of runs that overlap too: statuses,     *)
(* locations, attempt numbers within the budget of execute_task, and the   *)
(* shape of rows and events.                                               *)
THEOREM TypeCorrect == Spec => []TypeOK
<1>1. Init => TypeInv
  <2>1. ASSUME Init
        PROVE  TypeInv
    BY <2>1, InitInv DEF RetryInv, TypeInv, Init, Active, Loaded
  <2>2. QED
    BY <2>1
<1>2. TypeInv => TypeOK
  BY DEF TypeInv
<1>3. QED
  BY <1>1, <1>2, NextTyped, PTL DEF Spec

(* Whatever faults occur, a task is completed exactly when it has its one  *)
(* completed execution row.                                                *)
THEOREM CompletedExactlyOnce == ASSUME ~Overlapping PROVE Spec => []CompletedOnce
<1>1. RetryInv => CompletedOnce
  <2> SUFFICES ASSUME RetryInv
               PROVE  CompletedOnce
    OBVIOUS
  <2> DEFINE completed == {i \in 1 .. Len(rows) : rows[i].status = "completed"}
  <2>1. task.status = "completed" <=> completed # {}
    BY DEF RetryInv, OneCompleted, IsCompleted
  <2>2. completed = {} \/ \E i : completed = {i}
    <3>1. \A i, j \in completed : i = j
      BY DEF RetryInv, OneCompleted, IsCompleted
    <3>2. QED
      BY <3>1
  <2> HIDE DEF completed
  <2>3. Cardinality(completed) <= 1
    <3>1. completed = {} => Cardinality(completed) = 0
      BY FS_EmptySet
    <3>2. ASSUME NEW i, completed = {i}
          PROVE  Cardinality(completed) = 1
      BY <3>2, FS_Singleton
    <3>3. QED
      BY <2>2, <3>1, <3>2
  <2>4. QED
    BY <2>1, <2>3 DEF CompletedOnce, completed
<1>2. QED
  BY <1>1, InvHolds, PTL

(* A task is escalated only when its budget is spent, with a failed row    *)
(* last and the mission no longer active.                                  *)
THEOREM EscalationIsEarned == ASSUME ~Overlapping PROVE Spec => []EscalatedAfterBudget
<1>1. RetryInv => EscalatedAfterBudget
  BY DEF RetryInv
<1>2. QED
  BY <1>1, InvHolds, PTL

(* attempt_number starts again only where a fault cut a run short.         *)
THEOREM AttemptsGrow == ASSUME ~Overlapping PROVE Spec => []AttemptsRestartByFault
<1>1. RetryInv => AttemptsRestartByFault
  BY DEF RetryInv, Restarts, Drops, AttemptsRestartByFault
<1>2. QED
  BY <1>1, InvHolds, PTL

(* Retries stay within the budget, and one attempt for each fault.         *)
THEOREM RetriesAreBounded == ASSUME ~Overlapping PROVE Spec => []BudgetHonoured
<1>1. RetryInv => BudgetHonoured
  BY DEF RetryInv, Budget
<1>2. QED
  BY <1>1, InvHolds, PTL

(* A completion is announced after its commit; an escalation without its   *)
(* commit is one that a fault, or a deletion, came in between.             *)
THEOREM AnnouncementsAreTrue == ASSUME ~Overlapping PROVE Spec => []EventsAreTrue
<1>1. RetryInv => EventsAreTrue
  BY DEF RetryInv
<1>2. QED
  BY <1>1, InvHolds, PTL

(* A step of a run that commits a status finds the task unfinished.        *)
LEMMA FinishedStep ==
  ASSUME ~Overlapping, RetryInv, [Next]_vars, task.status \in Finished, ~deleted'
  PROVE  task'.status = task.status
<1>1. ASSUME NEW r \in Runs
      PROVE  pc[r] \notin {"count"} \cup Open \/ deleted
  BY DEF RetryInv, InStep, Fits, RowFollowsRun, Finished
<1>2. CASE task' = task
  BY <1>2
<1>3. ASSUME NEW r \in Runs,
             \/ CountAttempt(r) \/ AgentNotFound(r) \/ CommitCompleted(r)
             \/ CommitPending(r) \/ CommitEscalated(r)
      PROVE  FALSE
  <2>1. pc[r] \in {"count"} \cup Open /\ deleted' = deleted
    BY <1>3 DEF CountAttempt, AgentNotFound, CommitCompleted, CommitPending,
                CommitEscalated, Open
  <2>2. QED
    BY <1>1, <2>1
<1>4. CASE DeleteMission
  BY <1>4 DEF DeleteMission
<1>5. ASSUME NEW r \in Runs,
             \/ Begin(r) \/ Load(r) \/ Succeed(r) \/ Fail(r) \/ Publish(r) \/ Refresh(r)
             \/ MissTask(r) \/ Raise(r)
      PROVE  task' = task
  BY <1>5 DEF Begin, Load, Succeed, Fail, Publish, Refresh, MissTask, Raise
<1>6. QED
  BY <1>2, <1>3, <1>4, <1>5 DEF Next, Step, MergeMission, Crash, vars

(* A completed or escalated task is never re-run.                          *)
THEOREM FinishedTasksStay == ASSUME ~Overlapping PROVE Spec => FinishedIsFinal
<1>1. RetryInv /\ [Next]_vars =>
        [task.status \in Finished /\ ~deleted' => task'.status = task.status]_vars
  BY FinishedStep
<1>2. QED
  BY <1>1, InvHolds, PTL DEF Spec, FinishedIsFinal

-----------------------------------------------------------------------------
(* Runs that follow each other implement the life of a task.               *)

PhaseAt(location) ==
  IF location = "commit_escalated" THEN "last"
  ELSE IF location \in {"work", "commit_completed", "commit_pending"} THEN "underway"
  ELSE "none"

(* The phase is that of the only active run.                               *)
LEMMA PhaseOfRun ==
  ASSUME RetryInv, NEW r \in Runs, Active(r), ~deleted
  PROVE  Phase = PhaseAt(pc[r])
<1>1. \A q \in Runs \ {r} : pc[q] \in {"idle", "done", "dead"}
  BY DEF RetryInv, OneAtATime, Active
<1>2. QED
  BY <1>1 DEF Phase, PhaseAt

(* The phase after a step of the run that is under way.                    *)
LEMMA PhaseAfter ==
  ASSUME RetryInv, NEW r \in Runs, Active(r), NEW to \in Locations, Goto(r, to), ~deleted'
  PROVE  Phase' = PhaseAt(to)
<1>1. pc'[r] = to /\ \A q \in Runs \ {r} : pc'[q] \in {"idle", "done", "dead"}
  BY Moves
<1>2. QED
  BY <1>1 DEF Phase, PhaseAt

(* An open task is no other; a status a run leaves behind.                 *)
LEMMA OutcomeOf ==
  /\ deleted => Outcome = "deleted"
  /\ ~deleted => Outcome = IF task.status \in Finished THEN task.status ELSE "open"
BY DEF Outcome

(* What the rows, the task and the phase say.                              *)
LEMMA SameData ==
  ASSUME UNCHANGED <<task, rows, deleted>>
  PROVE  /\ Outcome' = Outcome /\ Record' = Record
         /\ (Phase' = "none" <=> Phase = "none") => Lost' = Lost
BY DEF Outcome, Record, Lost

(* Without a new event nothing more is told.                               *)
LEMMA SameEvents == ASSUME UNCHANGED events PROVE Told' = Told
BY DEF Told, Announced

(* A commit that records an outcome.                                       *)
LEMMA RecordGrows ==
  ASSUME TypeOK, NEW r \in Runs, attempt[r] >= 1, NEW s \in {"completed", "failed"},
         AddRow(r, s)
  PROVE  /\ Record' = Append(Record, s)
         /\ Len(rows) \in Nat /\ Len(rows') = Len(rows) + 1
<1> DEFINE S == {"completed", "failed"}
<1>1. /\ Len(rows) \in Nat /\ Len(rows') = Len(rows) + 1
      /\ \A i \in 1 .. Len(rows) : rows'[i] = rows[i]
      /\ rows'[Len(rows) + 1].status = s
  <2>1. rows'[Len(rows) + 1] = [attempt |-> attempt[r], status |-> s]
    BY RowsGrow
  <2>2. /\ Len(rows) \in Nat /\ Len(rows') = Len(rows) + 1
        /\ \A i \in 1 .. Len(rows) : rows'[i] = rows[i]
    BY RowsGrow
  <2>3. QED
    BY <2>1, <2>2
<1>2. /\ \A i \in 1 .. Len(rows) : rows[i].status \in S
      /\ \A i \in 1 .. Len(rows') : rows'[i].status \in S
  <2>1. ASSUME NEW i \in 1 .. Len(rows)
        PROVE  rows[i].status \in S
    <3>1. rows \in Seq([attempt: 1 .. MaxAttempts, status: S])
      BY DEF TypeOK
    <3>2. rows[i] \in [attempt: 1 .. MaxAttempts, status: S]
      BY <3>1, ElementOfSeq
    <3>3. QED
      BY <3>2
  <2>2. \A i \in 1 .. Len(rows) + 1 : i \in 1 .. Len(rows) \/ i = Len(rows) + 1
    BY <1>1
  <2>3. QED
    BY <1>1, <2>1, <2>2
<1>3. /\ Record \in Seq(S) /\ Len(Record) = Len(rows)
      /\ Record' \in Seq(S) /\ Len(Record') = Len(rows) + 1
      /\ \A i \in 1 .. Len(rows) + 1 : Record'[i] = rows'[i].status
      /\ \A i \in 1 .. Len(rows) : Record[i] = rows[i].status
  BY <1>1, <1>2 DEF Record
<1> HIDE DEF S
<1>4. s \in S
  BY DEF S
<1>5. /\ Append(Record, s) \in Seq(S) /\ Len(Append(Record, s)) = Len(rows) + 1
      /\ Append(Record, s)[Len(rows) + 1] = s
      /\ \A i \in 1 .. Len(rows) : Append(Record, s)[i] = Record[i]
  BY <1>3, <1>4, AppendProperties
<1>6. \A i \in 1 .. Len(rows) + 1 : Record'[i] = Append(Record, s)[i]
  <2>1. \A i \in 1 .. Len(rows) + 1 : i \in 1 .. Len(rows) \/ i = Len(rows) + 1
    BY <1>1
  <2>2. QED
    BY <1>1, <1>3, <1>5, <2>1
<1>7. QED
  BY <1>1, <1>3, <1>5, <1>6, SeqEqual

(* The record is as long as the execution rows.                            *)
LEMMA LengthOfRecord ==
  ASSUME TypeOK PROVE Len(Record) = Len(rows) /\ Len(rows) \in Nat
BY DEF TypeOK, Record

(* An escalation is announced.                                             *)
LEMMA ToldEscalation ==
  ASSUME TypeOK, events' = events \o EscalationEvents
  PROVE  Told' = Told \cup {"escalated"}
<1> DEFINE E == {"task.completed", "task.escalated", "mission.escalated"}
<1>1. Announced("task.completed")' <=> Announced("task.completed")
  BY EscalationAnnounced
<1>2. Announced("task.escalated")'
  <2>1. /\ events \in Seq(E) /\ EscalationEvents \in Seq(E) /\ Len(EscalationEvents) = 2
        /\ EscalationEvents[1] = "task.escalated"
    BY DEF TypeOK, EscalationEvents
  <2> HIDE DEF E
  <2>2. /\ Len(events) \in Nat /\ Len(events \o EscalationEvents) = Len(events) + 2
        /\ (events \o EscalationEvents)[Len(events) + 1] = "task.escalated"
    <3>1. /\ Len(events) \in Nat
          /\ Len(events \o EscalationEvents) = Len(events) + Len(EscalationEvents)
          /\ \A i \in 1 .. Len(events) + Len(EscalationEvents) :
               (events \o EscalationEvents)[i] =
                  IF i <= Len(events) THEN events[i] ELSE EscalationEvents[i - Len(events)]
      BY <2>1, ConcatProperties, LenProperties
    <3>2. (Len(events) + 1) - Len(events) = 1 /\ Len(events) + 1 \in 1 .. Len(events) + 2
      BY <3>1
    <3>3. QED
      BY <2>1, <3>1, <3>2
  <2>3. QED
    BY <2>2 DEF Announced
<1>3. QED
  BY <1>1, <1>2 DEF Told, Finished

(* A completion is announced.                                              *)
LEMMA ToldCompletion ==
  ASSUME TypeOK, events' = Append(events, "task.completed")
  PROVE  Told' = Told \cup {"completed"}
<1>1. \A x : Announced(x)' <=> Announced(x) \/ x = "task.completed"
  BY OneEvent
<1>2. QED
  BY <1>1 DEF Told, Finished

(* What an open task has spent.                                            *)
LEMMA Spent ==
  ASSUME TypeOK, ~deleted, task.status \notin Finished
  PROVE  /\ Phase = "none" => Lost = task.count - Len(rows)
         /\ Phase # "none" => Lost = task.count - Len(rows) - 1
         /\ Life!Exhausted <=> \/ Phase # "none" /\ ~BudgetLeft(task.count)
                               \/ Phase = "none" /\ ~BudgetLeft(task.count + 1)
<1>1. task.count \in Nat
  BY DEF TypeOK, Task
<1>2. Outcome = "open"
  BY OutcomeOf
<1>3. /\ Phase = "none" => Lost = task.count - Len(rows)
      /\ Phase # "none" => Lost = task.count - Len(rows) - 1
  BY <1>1, <1>2, LengthOfRecord DEF Lost
<1>4. QED
  BY <1>1, <1>3, LengthOfRecord DEF Life!Exhausted, BudgetLeft, MaxAttempts

(* The steps of a run.                                                     *)
LEMMA CountMaps ==
  ASSUME RetryInv, ~deleted, NEW r \in Runs, CountAttempt(r)
  PROVE  Life!Begin
<1>1. /\ Active(r) /\ pc[r] = "count" /\ Goto(r, "work")
      /\ task' = Counted(r)
      /\ UNCHANGED <<mission, rows, events, deleted>>
  BY DEF CountAttempt, Active
<1>2. task.status \notin Finished /\ seen[r] = task /\ task.count \in Nat
  BY <1>1 DEF RetryInv, InStep, Fits, RowFollowsRun, Open, TypeOK, Task
<1>3. task' = [status |-> "running", count |-> task.count + 1]
  BY <1>1, <1>2, Written DEF RetryInv
<1>4. Phase = "none" /\ Phase' = "underway"
  BY <1>1, PhaseOfRun, PhaseAfter DEF PhaseAt, Locations
<1>5. Outcome = "open" /\ Outcome' = "open"
  BY <1>1, <1>2, <1>3 DEF Outcome, Finished
<1>6. Lost' = Lost /\ Record' = Record
  BY <1>1, <1>2, <1>3, <1>4, <1>5, LengthOfRecord DEF Lost, Record, RetryInv
<1>7. QED
  BY <1>1, <1>4, <1>5, <1>6, SameEvents DEF Life!Begin

(* An attempt fails: the life gives up when the budget is spent.           *)
LEMMA FailMaps ==
  ASSUME RetryInv, ~deleted, NEW r \in Runs, Fail(r)
  PROVE  [Life!Next]_Life!life
<1>1. /\ Active(r) /\ pc[r] = "work"
      /\ UNCHANGED <<task, mission, rows, deleted>>
  BY DEF Fail, Active
<1>2. task.status = "running"
  BY <1>1 DEF RetryInv, InStep, Fits, RowFollowsRun, Open
<1>3. Phase = "underway"
  BY <1>1, PhaseOfRun DEF PhaseAt
<1>4. CASE BudgetLeft(task.count)
  <2>1. Goto(r, "commit_pending") /\ UNCHANGED events
    BY <1>4 DEF Fail
  <2>2. Phase' = "underway"
    BY <1>1, <2>1, PhaseAfter DEF PhaseAt, Locations
  <2>3. UNCHANGED Life!life
    BY <1>1, <1>3, <2>1, <2>2, SameData, SameEvents DEF Life!life
  <2>4. QED
    BY <2>3
<1>5. CASE ~BudgetLeft(task.count)
  <2>1. Goto(r, "commit_escalated") /\ events' = events \o EscalationEvents
    BY <1>5 DEF Fail
  <2>2. Phase' = "last"
    BY <1>1, <2>1, PhaseAfter DEF PhaseAt, Locations
  <2>3. Life!Exhausted
    BY <1>2, <1>3, <1>5, Spent DEF RetryInv, Finished
  <2>4. Told' = Told \cup {"escalated"}
    BY <2>1, ToldEscalation DEF RetryInv
  <2>5. Life!GiveUp
    BY <1>1, <1>3, <2>2, <2>3, <2>4, SameData DEF Life!GiveUp
  <2>6. QED
    BY <2>5 DEF Life!Next
<1>6. QED
  BY <1>4, <1>5

(* The failure is stored, and another attempt will follow.                 *)
LEMMA PendingMaps ==
  ASSUME RetryInv, ~deleted, NEW r \in Runs, CommitPending(r)
  PROVE  Life!Fail
<1>1. /\ Active(r) /\ pc[r] = "commit_pending" /\ Goto(r, "refresh")
      /\ AddRow(r, "failed") /\ task' = SetStatus(r, "pending")
      /\ UNCHANGED <<mission, events, deleted>>
  BY DEF CommitPending, Active
<1>2. /\ task.status = "running" /\ seen[r] = task /\ BudgetLeft(task.count)
      /\ attempt[r] >= 1 /\ task.count \in Nat
  BY <1>1 DEF RetryInv, InStep, Fits, RowFollowsRun, Open, TypeOK, Task
<1>3. task' = [status |-> "pending", count |-> task.count]
  BY <1>1, <1>2, Written DEF RetryInv, TaskStatus
<1>4. /\ Record' = Append(Record, "failed")
      /\ Len(rows) \in Nat /\ Len(rows') = Len(rows) + 1
  BY <1>1, <1>2, RecordGrows DEF RetryInv
<1>5. Phase = "underway" /\ Phase' = "none"
  BY <1>1, PhaseOfRun, PhaseAfter DEF PhaseAt, Locations
<1>6. Outcome = "open" /\ Outcome' = "open"
  BY <1>1, <1>2, <1>3 DEF Outcome, Finished
<1>7. Lost' = Lost
  BY <1>2, <1>3, <1>4, <1>5, <1>6 DEF Lost
<1>8. ~Life!Exhausted
  BY <1>2, <1>5, Spent DEF RetryInv, Finished
<1>9. QED
  BY <1>1, <1>4, <1>5, <1>6, <1>7, <1>8, SameEvents DEF Life!Fail

(* The end of a task, by a row and a status.                               *)
LEMMA EndMaps ==
  ASSUME RetryInv, ~deleted, ~deleted', Outcome = "open",
         NEW r \in Runs, Active(r), NEW to \in Locations, Goto(r, to), PhaseAt(to) = "none",
         NEW last \in {"completed", "failed"}, AddRow(r, last), task'.status \in Finished
  PROVE  Life!End(task'.status, last)
<1>1. Outcome' = task'.status /\ Outcome' # "open"
  BY DEF Outcome, Finished
<1>2. Record' = Append(Record, last)
  BY RecordGrows DEF RetryInv, InStep, Fits
<1>3. Phase' = "none"
  BY PhaseAfter
<1>4. Lost' = 0
  BY <1>1 DEF Lost
<1>5. QED
  BY <1>1, <1>2, <1>3, <1>4 DEF Life!End

(* The last failure is stored, and the task escalated.                     *)
LEMMA EscalatedMaps ==
  ASSUME RetryInv, ~deleted, NEW r \in Runs, CommitEscalated(r)
  PROVE  Life!Escalate
<1>1. /\ Active(r) /\ pc[r] = "commit_escalated" /\ Goto(r, "done")
      /\ AddRow(r, "failed") /\ task' = SetStatus(r, "escalated")
      /\ UNCHANGED <<events, deleted>>
  BY DEF CommitEscalated, Active
<1>2. task.status = "running" /\ seen[r] = task /\ (spared[r] => mission # "active")
  BY <1>1 DEF RetryInv, InStep, Fits, RowFollowsRun, Open
<1>3. task'.status = "escalated"
  <2>1. task' = [status |-> "escalated", count |-> task.count]
    BY <1>1, <1>2, Written DEF RetryInv, TaskStatus, Finished
  <2>2. QED
    BY <2>1
<1>4. Phase = "last" /\ Outcome = "open"
  BY <1>1, <1>2, PhaseOfRun DEF PhaseAt, Outcome, Finished
<1>5. Life!End("escalated", "failed")
  BY <1>1, <1>3, <1>4, EndMaps DEF PhaseAt, Locations, Finished
<1>6. mission' # "active"
  BY <1>2 DEF CommitEscalated
<1>7. QED
  BY <1>1, <1>4, <1>5, <1>6, SameEvents DEF Life!Escalate

(* The success is stored.                                                  *)
LEMMA CompletedMaps ==
  ASSUME RetryInv, ~deleted, NEW r \in Runs, CommitCompleted(r)
  PROVE  Life!Complete
<1>1. /\ Active(r) /\ pc[r] = "commit_completed" /\ Goto(r, "publish")
      /\ AddRow(r, "completed")
      /\ UNCHANGED <<mission, events, deleted>>
  BY DEF CommitCompleted, Active
<1>2. task.status = "running" /\ seen[r] = task
  BY <1>1 DEF RetryInv, InStep, Fits, RowFollowsRun, Open
<1>3. task'.status = "completed"
  <2>1. SetStatus(r, "completed") = [status |-> "completed", count |-> task.count]
    BY <1>2, Written DEF RetryInv, TaskStatus, Finished
  <2>2. task' = [SetStatus(r, "completed") EXCEPT
                   !.count = Assigned(seen[r].count, attempt[r], @)]
    BY DEF CommitCompleted
  <2>3. QED
    BY <2>1, <2>2
<1>4. Phase = "underway" /\ Outcome = "open"
  BY <1>1, <1>2, PhaseOfRun DEF PhaseAt, Outcome, Finished
<1>5. Life!End("completed", "completed")
  BY <1>1, <1>3, <1>4, EndMaps DEF PhaseAt, Locations, Finished
<1>6. QED
  BY <1>1, <1>4, <1>5, SameEvents DEF Life!Complete

(* An attempt without an agent fails, or escalates, in one step.           *)
LEMMA NoAgentMaps ==
  ASSUME RetryInv, ~deleted, NEW r \in Runs, AgentNotFound(r)
  PROVE  Life!Fail \/ Life!Escalate
<1>1. /\ Active(r) /\ pc[r] = "count" /\ AddRow(r, "failed") /\ ~deleted'
  BY DEF AgentNotFound, Active
<1>2. /\ task.status \notin Finished /\ seen[r] = task /\ task.count \in Nat
      /\ attempt[r] >= 1
  BY <1>1 DEF RetryInv, InStep, Fits, RowFollowsRun, Open, TypeOK, Task
<1>3. Counted(r) = [status |-> "running", count |-> task.count + 1]
  BY <1>2, Written DEF RetryInv
<1>4. Phase = "none" /\ Outcome = "open"
  BY <1>1, <1>2, PhaseOfRun DEF PhaseAt, Outcome
<1>5. Life!Exhausted <=> ~BudgetLeft(task.count + 1)
  BY <1>2, <1>4, Spent DEF RetryInv
<1>6. CASE BudgetLeft(task.count + 1)
  <2>1. /\ task' = [status |-> "pending", count |-> task.count + 1]
        /\ Goto(r, "refresh_missing") /\ UNCHANGED <<mission, events>>
    BY <1>3, <1>6 DEF AgentNotFound
  <2>2. Phase' = "none"
    BY <1>1, <2>1, PhaseAfter DEF PhaseAt, Locations
  <2>3. Outcome' = "open"
    BY <1>1, <2>1 DEF Outcome, Finished
  <2>4. /\ Record' = Append(Record, "failed")
        /\ Len(rows) \in Nat /\ Len(rows') = Len(rows) + 1
    BY <1>1, <1>2, RecordGrows DEF RetryInv
  <2>5. Lost' = Lost
    BY <1>2, <1>4, <2>1, <2>2, <2>3, <2>4 DEF Lost
  <2>6. QED
    BY <1>4, <1>5, <1>6, <2>1, <2>2, <2>3, <2>4, <2>5, SameEvents DEF Life!Fail
<1>7. CASE ~BudgetLeft(task.count + 1)
  <2>1. /\ task' = [status |-> "escalated", count |-> task.count + 1]
        /\ Goto(r, "done") /\ mission' # "active"
        /\ events' = events \o EscalationEvents
    BY <1>3, <1>7 DEF AgentNotFound
  <2>2. Life!End("escalated", "failed")
    BY <1>1, <1>4, <2>1, EndMaps DEF PhaseAt, Locations, Finished
  <2>3. Told' = Told \cup {"escalated"}
    BY <2>1, ToldEscalation DEF RetryInv
  <2>4. QED
    BY <1>4, <1>5, <1>7, <2>1, <2>2, <2>3 DEF Life!Escalate
<1>8. QED
  BY <1>6, <1>7

(* The completion is announced after it was stored.                        *)
LEMMA PublishMaps ==
  ASSUME RetryInv, ~deleted, NEW r \in Runs, Publish(r)
  PROVE  Life!Announce
<1>1. /\ Active(r) /\ pc[r] = "publish" /\ Goto(r, "done")
      /\ events' = Append(events, "task.completed")
      /\ UNCHANGED <<task, mission, rows, deleted>>
  BY DEF Publish, Active
<1>2. task.status = "completed"
  BY <1>1 DEF RetryInv, InStep, Fits, RowFollowsRun
<1>3. Phase = "none" /\ Phase' = "none"
  BY <1>1, PhaseOfRun, PhaseAfter DEF PhaseAt, Locations
<1>4. Outcome = "completed"
  BY <1>2 DEF Outcome, Finished
<1>5. Told' = Told \cup {"completed"}
  BY <1>1, ToldCompletion DEF RetryInv
<1>6. QED
  BY <1>1, <1>3, <1>4, <1>5, SameData DEF Life!Announce

(* A step of a run that neither counts, nor records, nor announces.        *)
LEMMA QuietMaps ==
  ASSUME RetryInv, UNCHANGED <<task, mission, rows, events, deleted>>, Phase' = Phase
  PROVE  UNCHANGED Life!life
BY SameData, SameEvents DEF Life!life

(* These steps move the run only.                                          *)
LEMMA QuietStepMaps ==
  ASSUME RetryInv, NEW r \in Runs,
         \/ ~deleted /\ (Load(r) \/ Succeed(r) \/ Refresh(r))
         \/ deleted /\ MissTask(r)
  PROVE  UNCHANGED Life!life
<1>1. UNCHANGED <<task, mission, rows, events, deleted>>
  BY DEF Load, Succeed, Refresh, MissTask
<1>2. CASE deleted
  BY <1>1, <1>2, QuietMaps DEF Phase
<1>3. CASE ~deleted
  <2>1. Active(r)
    BY <1>3 DEF Load, Succeed, Refresh, Active
  <2>2. \E to \in Locations : Goto(r, to) /\ PhaseAt(to) = PhaseAt(pc[r])
    BY <1>3 DEF Load, Succeed, Refresh, PhaseAt, Locations
  <2>3. Phase' = Phase
    BY <1>1, <1>3, <2>1, <2>2, PhaseOfRun, PhaseAfter
  <2>4. QED
    BY <1>1, <2>3, QuietMaps
<1>4. QED
  BY <1>2, <1>3

(* A run that begins finds no other under way.                             *)
LEMMA BeginMaps ==
  ASSUME RetryInv, ~Overlapping, NEW r \in Runs, Begin(r)
  PROVE  UNCHANGED Life!life
<1>1. /\ UNCHANGED <<task, mission, rows, events, deleted>>
      /\ \A q \in Runs : ~Active(q)
      /\ \A q \in Runs : pc'[q] \in {pc[q], "load"}
  BY DEF Begin, Goto, RetryInv, TypeOK
<1>2. Phase = "none" /\ Phase' = "none"
  BY <1>1 DEF Phase, Active
<1>3. QED
  BY <1>1, <1>2, QuietMaps

(* A fault loses the attempt under way, if there is one.                   *)
LEMMA FaultMaps ==
  ASSUME RetryInv, UNCHANGED <<task, mission, rows, events, deleted>>,
         Phase' \in {Phase, "none"}
  PROVE  [Life!Next]_Life!life
<1>1. CASE Phase' = Phase
  BY <1>1, QuietMaps
<1>2. CASE Phase # "none" /\ Phase' = "none"
  <2>1. ~deleted
    BY <1>2 DEF Phase
  <2>2. task.status \notin Finished
    <3>1. PICK r \in Runs : pc[r] \in Open
      BY <1>2, <2>1 DEF Phase, Open
    <3>2. QED
      BY <2>1, <3>1 DEF RetryInv, InStep, Fits, RowFollowsRun, Finished
  <2>3. task.count \in Nat
    BY DEF RetryInv, TypeOK, Task
  <2>4. Lost' = Lost + 1
    BY <1>2, <2>1, <2>2, <2>3, LengthOfRecord DEF Lost, Outcome, RetryInv
  <2>5. Life!Lose
    BY <1>2, <2>4, SameData, SameEvents DEF Life!Lose
  <2>6. QED
    BY <2>5 DEF Life!Next
<1>3. QED
  BY <1>1, <1>2

(* An exception loses what the run has not stored.                         *)
LEMMA RaiseMaps ==
  ASSUME RetryInv, NEW r \in Runs, Raise(r)
  PROVE  [Life!Next]_Life!life
<1>1. /\ Active(r) /\ Goto(r, "dead")
      /\ UNCHANGED <<task, mission, rows, events, deleted>>
  BY DEF Raise
<1>2. CASE deleted
  BY <1>1, <1>2, FaultMaps DEF Phase
<1>3. CASE ~deleted
  <2>1. Phase' = "none"
    BY <1>1, <1>3, PhaseAfter DEF PhaseAt, Locations
  <2>2. QED
    BY <1>1, <2>1, FaultMaps
<1>4. QED
  BY <1>2, <1>3

(* So does a crash.                                                        *)
LEMMA CrashMaps ==
  ASSUME RetryInv, Crash
  PROVE  [Life!Next]_Life!life
<1>1. /\ UNCHANGED <<task, mission, rows, events, deleted>>
      /\ \A q \in Runs : pc'[q] \in {"idle", "done", "dead"}
  BY DEF Crash, Active
<1>2. Phase' = "none"
  BY <1>1 DEF Phase
<1>3. QED
  BY <1>1, <1>2, FaultMaps

(* The deletion of the mission removes the task.                           *)
LEMMA DeleteMissionMaps ==
  ASSUME RetryInv, DeleteMission
  PROVE  Life!Remove
<1>1. /\ ~deleted /\ deleted' /\ rows' = <<>> /\ UNCHANGED <<mission, events>>
  BY DEF DeleteMission
<1>2. Outcome # "deleted"
  BY <1>1 DEF Outcome, Finished
<1>3. Outcome' = "deleted" /\ Phase' = "none" /\ Lost' = 0
  BY <1>1 DEF Outcome, Phase, Lost
<1>4. Record' = <<>>
  BY <1>1 DEF Record
<1>5. QED
  BY <1>1, <1>2, <1>3, <1>4, SameEvents DEF Life!Remove

(* The mission ends without the task.                                      *)
LEMMA MergeMissionMaps ==
  ASSUME RetryInv, MergeMission
  PROVE  Life!EndMission
<1>1. /\ mission' = "merged" /\ UNCHANGED <<task, rows, events, pc, deleted>>
  BY DEF MergeMission
<1>2. Phase' = Phase
  BY <1>1 DEF Phase
<1>3. QED
  BY <1>1, <1>2, SameData, SameEvents DEF Life!EndMission

(* A new task is an initial state of its life.                             *)
LEMMA InitIsLife == Init => Life!Init
<1> SUFFICES ASSUME Init
             PROVE  Life!Init
  OBVIOUS
<1>1. /\ Outcome = "open" /\ Phase = "none" /\ Record = <<>>
  BY DEF Init, Outcome, Phase, Record, Finished
<1>2. Lost = 0
  BY <1>1 DEF Init, Lost
<1>3. Told = {}
  BY DEF Init, Told, Announced
<1>4. QED
  BY <1>1, <1>2, <1>3 DEF Life!Init, Init

(* Every step is one of the life, or is not seen in it.                    *)
LEMMA StepIsLife ==
  ASSUME ~Overlapping
  PROVE  RetryInv /\ [Next]_vars => [Life!Next]_Life!life
<1> SUFFICES ASSUME RetryInv, [Next]_vars
             PROVE  [Life!Next]_Life!life
  OBVIOUS
<1>1. ASSUME NEW r \in Runs, Step(r)
      PROVE  [Life!Next]_Life!life
  <2>1. CASE ~deleted /\ (Load(r) \/ Succeed(r) \/ Refresh(r))
    BY <2>1, QuietStepMaps
  <2>2. CASE ~deleted /\ CountAttempt(r)
    BY <2>2, CountMaps DEF Life!Next
  <2>3. CASE ~deleted /\ AgentNotFound(r)
    BY <2>3, NoAgentMaps DEF Life!Next
  <2>4. CASE ~deleted /\ Fail(r)
    BY <2>4, FailMaps
  <2>5. CASE ~deleted /\ CommitCompleted(r)
    BY <2>5, CompletedMaps DEF Life!Next
  <2>6. CASE ~deleted /\ Publish(r)
    BY <2>6, PublishMaps DEF Life!Next
  <2>7. CASE ~deleted /\ CommitPending(r)
    BY <2>7, PendingMaps DEF Life!Next
  <2>8. CASE ~deleted /\ CommitEscalated(r)
    BY <2>8, EscalatedMaps DEF Life!Next
  <2>9. CASE deleted /\ MissTask(r)
    BY <2>9, QuietStepMaps
  <2>10. QED
    BY <1>1, <2>1, <2>2, <2>3, <2>4, <2>5, <2>6, <2>7, <2>8, <2>9 DEF Step
<1>2. CASE UNCHANGED vars
  <2>1. UNCHANGED <<task, mission, rows, events, pc, deleted>>
    BY <1>2 DEF vars
  <2>2. Phase' = Phase
    BY <2>1 DEF Phase
  <2>3. QED
    BY <2>1, <2>2, QuietMaps
<1>3. CASE DeleteMission
  BY <1>3, DeleteMissionMaps DEF Life!Next
<1>4. CASE MergeMission
  BY <1>4, MergeMissionMaps DEF Life!Next
<1>5. QED
  BY <1>1, <1>2, <1>3, <1>4, BeginMaps, RaiseMaps, CrashMaps DEF Next

(* Sessions, copies, loop index and retries are invisible: runs that       *)
(* follow each other take a task through the life that TaskLife promises.  *)
THEOREM LifeIsImplemented == ASSUME ~Overlapping PROVE Spec => ImplementsTaskLife
<1>1. Init => Life!Init
  BY InitIsLife
<1>2. RetryInv /\ [Next]_vars => [Life!Next]_Life!life
  BY StepIsLife
<1>3. Spec => []RetryInv
  BY InvHolds
<1>4. QED
  BY <1>1, <1>2, <1>3, PTL DEF Spec, ImplementsTaskLife, Life!Spec

===============================================================================
