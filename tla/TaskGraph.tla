------------------------------ MODULE TaskGraph ------------------------------
(***************************************************************************)
(* execute_mission_tasks of services/praisonai_worker.py: one call lays    *)
(* the tasks of a mission out in layers by depends_on, and runs a layer    *)
(* after the other on two thread pools: the fan-out pool, whose threads    *)
(* each see one task through its attempts, and the workflow pool, whose    *)
(* threads run the attempts and cannot be interrupted by a timeout.        *)
(***************************************************************************)
EXTENDS Naturals, Sequences, FiniteSets

CONSTANTS
  N,              \* number of tasks; tasks are numbered as they were created
  FanOut,         \* threads of _executor
  Workflows,      \* threads of _workflow_executor
  MaxAttempts,    \* MAX_ATTEMPTS
  AnyGraph        \* TRUE: depends_on holds anything, cycles and lost tasks too

ASSUME GraphAssumption ==
  /\ N \in Nat
  /\ FanOut \in Nat \ {0} /\ Workflows \in Nat \ {0} /\ MaxAttempts \in Nat \ {0}
  /\ AnyGraph \in BOOLEAN

Tasks == 1 .. N
Unknown == 0      \* stands for the ids that name no task of the mission

VARIABLES
  parallel,       \* the parallel argument of the call
  deps,           \* depends_on, as loaded at the start of the call
  remaining,      \* tasks not placed in a layer yet
  layers,         \* the layers, in order
  at,             \* number of the layer being run; 0 before the first
  state,          \* state[t]: how far the call has got with t
  tries,          \* tries[t]: attempts of t so far
  leaked          \* workflow threads whose attempt has timed out

vars == <<parallel, deps, remaining, layers, at, state, tries, leaked>>
planVars == <<parallel, deps, remaining, layers, at>>

States == {"unseen", "skipped", "queued", "calling", "submitted", "working",
           "completed", "failed", "raised"}
Settled == {"skipped", "completed", "failed"}

(* POST /tasks admits dependencies on existing tasks only, so on earlier   *)
(* ones; the worker does not rely on it.                                   *)
Graphs ==
  {d \in [Tasks -> SUBSET (0 .. N)] : AnyGraph \/ \A t \in Tasks : d[t] \subseteq 1 .. t - 1}

Init ==
  /\ parallel \in BOOLEAN
  /\ deps \in Graphs
  /\ remaining = Tasks
  /\ layers = <<>>
  /\ at = 0
  /\ state = [t \in Tasks |-> "unseen"]
  /\ tries = [t \in Tasks |-> 0]
  /\ leaked = 0

-----------------------------------------------------------------------------
(* Faulty variant: any instead of all.                                     *)
PlaceableByAny(t) == deps[t] = {} \/ \E d \in deps[t] : d \notin remaining

(* Its dependencies are placed, or are no tasks of this mission.           *)
Placeable(t) == deps[t] \cap remaining = {}

(* A cycle is broken by taking all that remains in one layer.              *)
PlaceLayer ==
  /\ remaining # {}
  /\ LET ready   == {t \in remaining : Placeable(t)}
         current == IF ready = {} THEN remaining ELSE ready
     IN  /\ layers' = Append(layers, current)
         /\ remaining' = remaining \ current
  /\ UNCHANGED <<parallel, deps, at, state, tries, leaked>>

(* Faulty variant: an unknown dependency counts as satisfied.              *)
SatisfiedIfKnown(t) ==
  \A d \in deps[t] : d \in Tasks => state[d] = "completed"

DepsSatisfied(t) == \A d \in deps[t] : d \in Tasks /\ state[d] = "completed"

(* Faulty variant: the next layer waits for the whole layer to complete.   *)
LayerCompleted == at > 0 => \A t \in layers[at] : state[t] = "completed"

LayerDone == at > 0 => \A t \in layers[at] : state[t] \in Settled

OpenLayer ==
  /\ remaining = {}
  /\ at < Len(layers) /\ LayerDone
  /\ at' = at + 1
  /\ state' = [t \in Tasks |->
       IF t \notin layers[at + 1] THEN state[t]
       ELSE IF DepsSatisfied(t) THEN "queued" ELSE "skipped"]
  /\ UNCHANGED <<parallel, deps, remaining, layers, tries, leaked>>

-----------------------------------------------------------------------------
Outer == {t \in Tasks : state[t] \in {"calling", "submitted", "working"}}
Inner == {t \in Tasks : state[t] = "working"}

Set(t, s) == state' = [state EXCEPT ![t] = s]

(* A fan-out thread takes a task; without parallel the request's own       *)
(* thread runs one task at a time.                                         *)
Call(t) ==
  /\ state[t] = "queued"
  /\ Cardinality(Outer) < (IF parallel THEN FanOut ELSE 1)
  /\ \A u \in Tasks : state[u] # "raised"
  /\ Set(t, "calling")
  /\ UNCHANGED <<planVars, tries, leaked>>

(* execute_task finds the task completed or escalated earlier.             *)
AlreadyFinished(t) ==
  /\ state[t] = "calling" /\ tries[t] = 0
  /\ \E s \in {"completed", "failed"} : Set(t, s)
  /\ UNCHANGED <<planVars, tries, leaked>>

Submit(t) ==
  /\ state[t] = "calling"
  /\ Set(t, "submitted")
  /\ tries' = [tries EXCEPT ![t] = @ + 1]
  /\ UNCHANGED <<planVars, leaked>>

(* Faulty variant: both levels use the fan-out pool.                       *)
ThreadInOnePool == Cardinality(Outer) + Cardinality(Inner) + leaked < FanOut

WorkflowThread == Cardinality(Inner) + leaked < Workflows

Work(t) ==
  /\ state[t] = "submitted"
  /\ WorkflowThread
  /\ Set(t, "working")
  /\ UNCHANGED <<planVars, tries, leaked>>

(* What follows a failed attempt: the next one, or the end of the budget.  *)
AfterFailure(count) == IF count < MaxAttempts THEN "calling" ELSE "failed"

Return(t) ==
  /\ state[t] = "working"
  /\ \/ Set(t, "completed")
     \/ Set(t, AfterFailure(tries[t]))
  /\ UNCHANGED <<planVars, tries, leaked>>

(* The agent could not be built: no workflow is submitted.                 *)
CannotBuild(t) ==
  /\ state[t] = "calling"
  /\ tries' = [tries EXCEPT ![t] = @ + 1]
  /\ Set(t, AfterFailure(tries[t] + 1))
  /\ UNCHANGED <<planVars, leaked>>

(* A database session of the attempt raises, before its workflow or after  *)
(* it.  The future hands the exception to the call, which takes the task   *)
(* as failed; without parallel it ends the call.                           *)
Raise(t) ==
  /\ state[t] \in {"calling", "working"}
  /\ Set(t, IF parallel THEN "failed" ELSE "raised")
  /\ UNCHANGED <<planVars, tries, leaked>>

(* The timeout runs from the submission.  A workflow not started yet is    *)
(* cancelled; one that has started keeps its thread.                       *)
Timeout(t) ==
  /\ state[t] \in {"submitted", "working"}
  /\ leaked' = IF state[t] = "working" THEN leaked + 1 ELSE leaked
  /\ Set(t, AfterFailure(tries[t]))
  /\ UNCHANGED <<planVars, tries>>

(* A timed-out workflow returns after all; its result is discarded.        *)
LeakEnds ==
  /\ leaked > 0
  /\ leaked' = leaked - 1
  /\ UNCHANGED <<planVars, state, tries>>

Finished == remaining = {} /\ at = Len(layers) /\ LayerDone

TaskStep(t) ==
  \/ Call(t) \/ AlreadyFinished(t) \/ Submit(t) \/ Work(t)
  \/ Return(t) \/ CannotBuild(t) \/ Raise(t) \/ Timeout(t)

Next ==
  \/ PlaceLayer
  \/ OpenLayer
  \/ \E t \in Tasks : TaskStep(t)
  \/ LeakEnds

Spec == Init /\ [][Next]_vars

(* The request goes on, and a fan-out thread takes up what is queued and   *)
(* submits it.                                                             *)
FairSpec ==
  /\ Spec
  /\ WF_vars(PlaceLayer) /\ WF_vars(OpenLayer)
  /\ \A t \in Tasks : WF_vars(Call(t)) /\ WF_vars(Submit(t))

(* Every wait for a workflow has a time limit; agents may hang for ever.   *)
TimeoutsFire == \A t \in Tasks : WF_vars(Timeout(t))

(* Agents answer or raise in the end, the timed-out ones too, and the pool *)
(* gives its free threads to what is queued in turn; no timeout helps.     *)
AgentsReturn ==
  /\ WF_vars(LeakEnds)
  /\ \A t \in Tasks : SF_vars(Work(t)) /\ WF_vars(Return(t))

-----------------------------------------------------------------------------
TypeOK ==
  /\ parallel \in BOOLEAN
  /\ deps \in [Tasks -> SUBSET (0 .. N)]
  /\ remaining \subseteq Tasks
  /\ layers \in Seq(SUBSET Tasks)
  /\ at \in 0 .. Len(layers)
  /\ state \in [Tasks -> States]
  /\ tries \in [Tasks -> 0 .. MaxAttempts]
  /\ leaked \in Nat

(* No agent works on a task before everything the task depends on has      *)
(* completed, whatever the graph is.                                       *)
DependenciesFirst ==
  \A t \in Tasks : state[t] \notin {"unseen", "skipped"} =>
    \A d \in deps[t] : d \in Tasks /\ state[d] = "completed"

(* No task is passed over that could have run: what the call skipped has   *)
(* a dependency that is unknown, failed or was skipped, in a cycle too.    *)
Blocked(t) == \E d \in deps[t] : d \notin Tasks \/ state[d] \in {"failed", "skipped"}

SkippedForCause ==
  \A t \in Tasks : state[t] = "skipped" => Blocked(t)

(* The call returns, with every task completed, failed or skipped, even    *)
(* when no agent ever returns: the timeouts are enough.  Only without      *)
(* parallel may it end with an exception.                                  *)
CallReturns ==
  TimeoutsFire =>
    <>(\/ Finished /\ \A t \in Tasks : state[t] \in Settled
       \/ ~parallel /\ \E t \in Tasks : state[t] = "raised")

(* The two levels of tasks do not starve each other of threads: when the   *)
(* agents return, every submitted workflow gets a thread in the end, with  *)
(* no timeout to make room for it.                                         *)
WorkflowsGetThreads ==
  AgentsReturn =>
    \A t \in Tasks : state[t] = "submitted" ~> state[t] # "submitted"

=============================================================================
