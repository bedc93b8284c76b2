--------------------------- MODULE TaskGraph_proofs ---------------------------
(***************************************************************************)
(* Proofs about the layers of a mission's tasks, for any number of tasks,  *)
(* any graph, cyclic or with lost tasks, and any sizes of the pools.       *)
(***************************************************************************)
EXTENDS TaskGraph, FiniteSetTheorems, TLAPS

-----------------------------------------------------------------------------
(* The inductive invariant.                                                *)

(* A task being attempted has attempts left, and one whose workflow is     *)
(* submitted has begun at least one.                                       *)
TriesInBudget ==
  \A t \in Tasks :
    /\ state[t] = "calling" => tries[t] < MaxAttempts
    /\ state[t] \in {"unseen", "queued"} => tries[t] = 0

(* Each task is in one layer, or remains to be placed.                     *)
LayersPartition ==
  /\ \A t \in Tasks \ remaining : \E i \in 1 .. Len(layers) : t \in layers[i]
  /\ \A i \in 1 .. Len(layers) : layers[i] \cap remaining = {}
  /\ \A i, j \in 1 .. Len(layers) : i # j => layers[i] \cap layers[j] = {}

(* A task of layer i depends on tasks of earlier layers alone ...          *)
Ordered(i) ==
  \A t \in layers[i] : \A d \in deps[t] \cap Tasks : \E j \in 1 .. i - 1 : d \in layers[j]

(* ... unless the layer broke a cycle: then each task of it waits for one. *)
Cyclic(i) == \A t \in layers[i] : deps[t] \cap layers[i] # {}

(* The tasks the call has got to are those of the layers up to the one it  *)
(* is at, and the layers before that one are done.                         *)
LayersInOrder ==
  /\ at > 0 => remaining = {}
  /\ \A t \in Tasks : state[t] # "unseen" => \E i \in 1 .. at : t \in layers[i]
  /\ \A i \in 1 .. at - 1 : \A t \in layers[i] : state[t] \in Settled

GraphInv ==
  /\ TypeOK
  /\ TriesInBudget
  /\ LayersPartition
  /\ \A i \in 1 .. Len(layers) : Ordered(i) \/ Cyclic(i)
  /\ LayersInOrder
  /\ DependenciesFirst
  /\ SkippedForCause

-----------------------------------------------------------------------------
(* The invariant holds initially.                                          *)
LEMMA InitInv == Init => GraphInv
<1> SUFFICES ASSUME Init
             PROVE  GraphInv
  OBVIOUS
<1>1. TypeOK
  BY GraphAssumption DEF Init, TypeOK, Graphs, States
<1>2. Len(layers) = 0
  BY DEF Init
<1>3. QED
  BY <1>1, <1>2, GraphAssumption DEF Init, GraphInv, TriesInBudget, LayersPartition,
     LayersInOrder, DependenciesFirst, SkippedForCause

(* Placing a layer keeps the invariant.                                    *)
LEMMA PlaceInv ==
  ASSUME GraphInv, PlaceLayer
  PROVE  GraphInv'
<1> DEFINE ready   == {t \in remaining : Placeable(t)}
           current == IF ready = {} THEN remaining ELSE ready
           n       == Len(layers) + 1
<1>1. /\ layers' = Append(layers, current)
      /\ remaining' = remaining \ current
      /\ current \subseteq remaining /\ current # {}
      /\ UNCHANGED <<parallel, deps, at, state, tries, leaked>>
  BY DEF PlaceLayer
<1>2. layers \in Seq(SUBSET Tasks) /\ remaining \subseteq Tasks /\ n \in Nat \ {0}
  BY DEF GraphInv, TypeOK
<1>3. (\A t \in current : deps[t] \cap remaining = {})
      \/ (current = remaining /\ \A t \in current : deps[t] \cap current # {})
  BY DEF Placeable
<1> HIDE DEF current
<1>4. /\ layers' \in Seq(SUBSET Tasks) /\ Len(layers') = n
      /\ \A i \in 1 .. n - 1 : layers'[i] = layers[i]
      /\ layers'[n] = current
  BY <1>1, <1>2
<1>5. at = 0
  BY <1>1, <1>2 DEF PlaceLayer, GraphInv, TypeOK, LayersInOrder
<1>6. TypeOK'
  BY <1>1, <1>2, <1>4, <1>5 DEF GraphInv, TypeOK
<1>7. LayersPartition'
  BY <1>1, <1>2, <1>4 DEF GraphInv, LayersPartition
<1>8. ASSUME NEW i \in 1 .. n
      PROVE  Ordered(i)' \/ Cyclic(i)'
  <2>1. CASE i # n
    BY <1>1, <1>4, <2>1 DEF GraphInv, Ordered, Cyclic
  <2>2. CASE i = n /\ \A t \in current : deps[t] \cap remaining = {}
    BY <1>1, <1>2, <1>4, <2>2 DEF GraphInv, LayersPartition, Ordered
  <2>3. CASE i = n /\ \A t \in current : deps[t] \cap current # {}
    BY <1>1, <1>4, <2>3 DEF Cyclic
  <2>4. QED
    BY <1>3, <2>1, <2>2, <2>3
<1>9. LayersInOrder' /\ TriesInBudget' /\ DependenciesFirst' /\ SkippedForCause'
  BY <1>1, <1>5 DEF GraphInv, LayersInOrder, TriesInBudget, DependenciesFirst,
     SkippedForCause, Blocked
<1>10. QED
  BY <1>4, <1>6, <1>7, <1>8, <1>9 DEF GraphInv

(* What opening a layer changes.                                           *)
LEMMA OpenEffect ==
  ASSUME GraphInv, OpenLayer
  PROVE  LET k == at + 1
         IN /\ k \in 1 .. Len(layers) /\ at' = k /\ remaining = {}
            /\ \A i \in 1 .. at : \A t \in layers[i] : state[t] \in Settled
            /\ \A t \in layers[k] : t \in Tasks /\ state[t] = "unseen"
            /\ \A t \in Tasks \ layers[k] : state'[t] = state[t]
            /\ \A t \in layers[k] :
                 state'[t] = IF DepsSatisfied(t) THEN "queued" ELSE "skipped"
            /\ \A t \in Tasks : state[t] # "unseen" => t \notin layers[k]
            /\ UNCHANGED <<parallel, deps, remaining, layers, tries, leaked>>
<1> DEFINE k == at + 1
<1>1. /\ layers \in Seq(SUBSET Tasks) /\ at \in Nat /\ k \in 1 .. Len(layers) /\ at' = k
      /\ layers[k] \subseteq Tasks /\ remaining = {}
      /\ \A i \in 1 .. Len(layers) : layers[i] \subseteq Tasks
      /\ UNCHANGED <<parallel, deps, remaining, layers, tries, leaked>>
  BY DEF GraphInv, TypeOK, OpenLayer
<1>2. \A i \in 1 .. at : \A t \in layers[i] : state[t] \in Settled
  BY <1>1 DEF GraphInv, LayersInOrder, OpenLayer, LayerDone
<1>3. \A t \in Tasks : state[t] # "unseen" => t \notin layers[k]
  BY <1>1 DEF GraphInv, LayersInOrder, LayersPartition
<1>4. \A t \in layers[k] : t \in Tasks /\ state[t] = "unseen"
  BY <1>1, <1>3
<1>5. \A t \in Tasks : state'[t] = IF t \notin layers[k] THEN state[t]
                                  ELSE IF DepsSatisfied(t) THEN "queued" ELSE "skipped"
  BY DEF OpenLayer
<1>6. QED
  BY <1>1, <1>2, <1>3, <1>4, <1>5

(* Opening a layer keeps the invariant.                                    *)
LEMMA OpenInv ==
  ASSUME GraphInv, OpenLayer
  PROVE  GraphInv'
<1> DEFINE k == at + 1
<1>1. /\ k \in 1 .. Len(layers) /\ at' = k /\ remaining = {}
      /\ \A i \in 1 .. at : \A t \in layers[i] : state[t] \in Settled
      /\ \A t \in layers[k] : t \in Tasks /\ state[t] = "unseen"
      /\ \A t \in Tasks \ layers[k] : state'[t] = state[t]
      /\ \A t \in layers[k] : state'[t] = IF DepsSatisfied(t) THEN "queued" ELSE "skipped"
      /\ \A t \in Tasks : state[t] # "unseen" => t \notin layers[k]
      /\ UNCHANGED <<parallel, deps, remaining, layers, tries, leaked>>
  BY OpenEffect
<1>2. at \in Nat /\ Len(layers) \in Nat
  BY DEF GraphInv, TypeOK
<1>3. TypeOK'
  BY <1>1, <1>2 DEF GraphInv, TypeOK, OpenLayer, States
<1>4. TriesInBudget'
  BY <1>1 DEF GraphInv, TriesInBudget
<1>5. LayersPartition' /\ \A i \in 1 .. Len(layers') : Ordered(i)' \/ Cyclic(i)'
  BY <1>1 DEF GraphInv, LayersPartition, Ordered, Cyclic
<1>6. LayersInOrder'
  <2>1. \A t \in Tasks : state'[t] # "unseen" => \E i \in 1 .. k : t \in layers[i]
    BY <1>1, <1>2 DEF GraphInv, LayersInOrder
  <2>2. \A i \in 1 .. k - 1 : \A t \in layers[i] : state'[t] \in Settled
    <3>1. ASSUME NEW i \in 1 .. k - 1, NEW t \in layers[i]
          PROVE  state'[t] \in Settled
      <4>1. t \in Tasks /\ state[t] \in Settled
        BY <1>1, <1>2, <3>1 DEF GraphInv, TypeOK
      <4>2. t \notin layers[k]
        BY <1>1, <4>1 DEF Settled
      <4>3. QED
        BY <1>1, <4>1, <4>2
    <3>2. QED
      BY <3>1
  <2>3. QED
    BY <1>1, <2>1, <2>2 DEF LayersInOrder
<1>7. DependenciesFirst'
  BY <1>1 DEF GraphInv, DependenciesFirst, DepsSatisfied
<1>8. SkippedForCause'
  <2>1. ASSUME NEW t \in Tasks, state'[t] = "skipped"
        PROVE  Blocked(t)'
    <3>1. CASE t \notin layers[k]
      BY <1>1, <2>1, <3>1 DEF GraphInv, SkippedForCause, Blocked
    <3>2. CASE t \in layers[k] /\ Ordered(k)
      <4>1. PICK d \in deps[t] : d \notin Tasks \/ state[d] # "completed"
        BY <1>1, <2>1, <3>2 DEF DepsSatisfied
      <4>2. CASE d \notin Tasks
        BY <1>1, <4>2 DEF Blocked
      <4>3. CASE d \in Tasks
        <5>1. PICK j \in 1 .. at : d \in layers[j]
          BY <1>2, <3>2, <4>3 DEF Ordered
        <5>2. state[d] \in {"failed", "skipped"}
          BY <1>1, <4>1, <4>3, <5>1 DEF Settled
        <5>3. QED
          BY <1>1, <4>3, <5>2 DEF Blocked
      <4>4. QED
        BY <4>2, <4>3
    <3>3. CASE t \in layers[k] /\ Cyclic(k)
      <4>1. PICK d \in deps[t] \cap layers[k] : TRUE
        BY <3>3 DEF Cyclic
      <4>2. PICK e \in deps[d] \cap layers[k] : TRUE
        BY <3>3 DEF Cyclic
      <4>3. ~DepsSatisfied(d)
        BY <1>1, <4>2 DEF DepsSatisfied
      <4>4. state'[d] = "skipped"
        BY <1>1, <4>3
      <4>5. QED
        BY <1>1, <4>1, <4>4 DEF Blocked
    <3>4. QED
      BY <1>1, <3>1, <3>2, <3>3 DEF GraphInv
  <2>2. QED
    BY <2>1 DEF SkippedForCause
<1>9. QED
  BY <1>3, <1>4, <1>5, <1>6, <1>7, <1>8 DEF GraphInv

-----------------------------------------------------------------------------
(* A step of one task that has been queued and is not settled yet.         *)
Advances(t, s) ==
  /\ state[t] \in {"queued", "calling", "submitted", "working"}
  /\ s \in States \ {"unseen", "skipped", "queued"}
  /\ state' = [state EXCEPT ![t] = s]
  /\ tries' \in [Tasks -> 0 .. MaxAttempts]
  /\ \A u \in Tasks : u # t => tries'[u] = tries[u]
  /\ s = "calling" => tries'[t] < MaxAttempts
  /\ leaked' \in Nat
  /\ UNCHANGED planVars

(* Such a step keeps the invariant: nothing rests on a task that is under  *)
(* way but the tasks of later layers, which wait.                          *)
LEMMA AdvanceInv ==
  ASSUME GraphInv, NEW t \in Tasks, NEW s, Advances(t, s)
  PROVE  GraphInv'
<1>1. /\ state'[t] = s /\ \A u \in Tasks : u # t => state'[u] = state[u]
      /\ UNCHANGED <<parallel, deps, remaining, layers, at>>
  BY DEF Advances, GraphInv, TypeOK, planVars
<1>2. TypeOK'
  BY <1>1 DEF Advances, GraphInv, TypeOK
<1>3. TriesInBudget'
  BY <1>1 DEF Advances, GraphInv, TriesInBudget
<1>4. LayersPartition' /\ \A i \in 1 .. Len(layers') : Ordered(i)' \/ Cyclic(i)'
  BY <1>1 DEF GraphInv, LayersPartition, Ordered, Cyclic
<1>5. LayersInOrder'
  <2>1. \A u \in Tasks : state[u] \in Settled => state'[u] = state[u]
    BY <1>1 DEF Advances, Settled
  <2>2. \A i \in 1 .. at - 1 : \A u \in layers[i] : u \in Tasks
    BY DEF GraphInv, TypeOK
  <2>3. QED
    BY <1>1, <2>1, <2>2 DEF Advances, GraphInv, LayersInOrder
<1>6. DependenciesFirst' /\ SkippedForCause'
  BY <1>1 DEF Advances, GraphInv, DependenciesFirst, SkippedForCause, Blocked
<1>7. QED
  BY <1>2, <1>3, <1>4, <1>5, <1>6 DEF GraphInv

(* Every step of a task is one.                                            *)
LEMMA TaskStepAdvances ==
  ASSUME GraphInv, NEW t \in Tasks, TaskStep(t)
  PROVE  \E s \in States : Advances(t, s)
<1>1. /\ tries \in [Tasks -> 0 .. MaxAttempts] /\ leaked \in Nat /\ MaxAttempts \in Nat \ {0}
      /\ state[t] = "calling" => tries[t] < MaxAttempts
      /\ state[t] \in {"unseen", "queued"} => tries[t] = 0
  BY GraphAssumption DEF GraphInv, TypeOK, TriesInBudget
<1>2. \A n \in 0 .. MaxAttempts : /\ AfterFailure(n) \in {"calling", "failed"}
                                  /\ AfterFailure(n) = "calling" => n < MaxAttempts
  BY <1>1 DEF AfterFailure
<1>3. ASSUME state[t] = "calling", tries' = [tries EXCEPT ![t] = @ + 1]
      PROVE  /\ tries[t] + 1 \in 0 .. MaxAttempts
             /\ tries' \in [Tasks -> 0 .. MaxAttempts] /\ tries'[t] = tries[t] + 1
             /\ \A u \in Tasks : u # t => tries'[u] = tries[u]
  BY <1>1, <1>3
<1> USE DEF Advances, Set, States
<1>4. CASE Call(t)
  BY <1>1, <1>4 DEF Call
<1>5. CASE AlreadyFinished(t)
  BY <1>1, <1>5 DEF AlreadyFinished
<1>6. CASE Submit(t)
  <2>1. /\ state[t] = "calling" /\ state' = [state EXCEPT ![t] = "submitted"]
        /\ tries' = [tries EXCEPT ![t] = @ + 1] /\ UNCHANGED <<planVars, leaked>>
    BY <1>6 DEF Submit
  <2>2. Advances(t, "submitted")
    BY <1>1, <1>3, <2>1
  <2>3. QED
    BY <2>2
<1>7. CASE Work(t)
  BY <1>1, <1>7 DEF Work
<1>8. CASE Return(t)
  BY <1>1, <1>2, <1>8 DEF Return
<1>9. CASE CannotBuild(t)
  <2>1. AfterFailure(tries[t] + 1) \in {"calling", "failed"}
        /\ (AfterFailure(tries[t] + 1) = "calling" => tries'[t] < MaxAttempts)
    BY <1>2, <1>3, <1>9 DEF CannotBuild
  <2>2. /\ state[t] = "calling"
        /\ state' = [state EXCEPT ![t] = AfterFailure(tries[t] + 1)]
        /\ tries' = [tries EXCEPT ![t] = @ + 1] /\ UNCHANGED <<planVars, leaked>>
    BY <1>9 DEF CannotBuild
  <2>3. Advances(t, AfterFailure(tries[t] + 1))
    BY <1>1, <1>3, <2>1, <2>2
  <2>4. QED
    BY <2>1, <2>3
<1>10. CASE Raise(t)
  BY <1>1, <1>10 DEF Raise
<1>11. CASE Timeout(t)
  <2>1. leaked' \in Nat
    BY <1>1, <1>11 DEF Timeout
  <2>2. /\ state[t] \in {"submitted", "working"} /\ UNCHANGED <<planVars, tries>>
        /\ state' = [state EXCEPT ![t] = AfterFailure(tries[t])]
    BY <1>11 DEF Timeout
  <2>3. Advances(t, AfterFailure(tries[t]))
    BY <1>1, <1>2, <2>1, <2>2
  <2>4. QED
    BY <1>1, <1>2, <2>3
<1>12. QED
  BY <1>4, <1>5, <1>6, <1>7, <1>8, <1>9, <1>10, <1>11 DEF TaskStep

(* Every step keeps the invariant.                                         *)
LEMMA NextInv == GraphInv /\ [Next]_vars => GraphInv'
<1> SUFFICES ASSUME GraphInv, [Next]_vars
             PROVE  GraphInv'
  OBVIOUS
<1>1. ASSUME UNCHANGED planVars, UNCHANGED <<state, tries>>, leaked' \in Nat
      PROVE  GraphInv'
  <2> USE <1>1 DEF planVars, GraphInv
  <2>1. TypeOK' /\ TriesInBudget'
    BY DEF TypeOK, TriesInBudget
  <2>2. LayersPartition' /\ LayersInOrder'
    BY DEF LayersPartition, LayersInOrder
  <2>3. \A i \in 1 .. Len(layers') : Ordered(i)' \/ Cyclic(i)'
    BY DEF Ordered, Cyclic
  <2>4. DependenciesFirst' /\ SkippedForCause'
    BY DEF DependenciesFirst, SkippedForCause, Blocked
  <2>5. QED
    BY <2>1, <2>2, <2>3, <2>4
<1>2. CASE LeakEnds
  <2>1. leaked' \in Nat
    BY <1>2 DEF LeakEnds, GraphInv, TypeOK
  <2>2. QED
    BY <1>1, <1>2, <2>1 DEF LeakEnds
<1>3. CASE UNCHANGED vars
  BY <1>1, <1>3 DEF vars, planVars, GraphInv, TypeOK
<1>4. QED
  BY <1>2, <1>3, PlaceInv, OpenInv, TaskStepAdvances, AdvanceInv DEF Next

(* The invariant is one.                                                   *)
LEMMA InvHolds == Spec => []GraphInv
BY InitInv, NextInv, PTL DEF Spec

(* No task is attempted more often than MAX_ATTEMPTS allows, and every     *)
(* variable keeps its type.                                                *)
THEOREM TypeCorrect == Spec => []TypeOK
<1>1. GraphInv => TypeOK
  BY DEF GraphInv
<1>2. QED
  BY <1>1, InvHolds, PTL

(* In every graph, no agent works on a task before all that the task       *)
(* depends on has completed.                                               *)
THEOREM WorkFollowsDependencies == Spec => []DependenciesFirst
<1>1. GraphInv => DependenciesFirst
  BY DEF GraphInv
<1>2. QED
  BY <1>1, InvHolds, PTL

(* In every graph, a task that is passed over could not have run.          *)
THEOREM NoneSkippedWithoutCause == Spec => []SkippedForCause
<1>1. GraphInv => SkippedForCause
  BY DEF GraphInv
<1>2. QED
  BY <1>1, InvHolds, PTL

-----------------------------------------------------------------------------
(* The call comes to an end: what can be said of it without fairness.      *)

(* Where the call stands when it has returned, or has raised.              *)
Over ==
  \/ Finished /\ \A t \in Tasks : state[t] \in Settled
  \/ ~parallel /\ \E t \in Tasks : state[t] = "raised"

(* The guards of the steps that FairSpec and TimeoutsFire promise: no      *)
(* agent has to return for any of them.                                    *)
CanGoOn ==
  \/ remaining # {}
  \/ at < Len(layers) /\ LayerDone
  \/ \E t \in Tasks : state[t] \in {"calling", "submitted", "working"}
  \/ /\ \E t \in Tasks : state[t] = "queued"
     /\ Cardinality(Outer) < (IF parallel THEN FanOut ELSE 1)
     /\ \A u \in Tasks : state[u] # "raised"

NeverStuck == Over \/ CanGoOn

(* How far the call has got with a task, over all its attempts.            *)
RankOf(s, n) ==
  CASE s = "unseen"    -> 0
    [] s = "queued"    -> 1
    [] s = "calling"   -> 3 * n + 2
    [] s = "submitted" -> 3 * n
    [] s = "working"   -> 3 * n + 1
    [] OTHER           -> 3 * MaxAttempts + 3

Rank(t) == RankOf(state[t], tries[t])

(* A step takes no task back, and a step of the call takes something on:   *)
(* a task out of what remains, the call to its next layer, or a task.      *)
StepsAdvance ==
  [][/\ remaining' \subseteq remaining /\ at' >= at
     /\ \A t \in Tasks : Rank(t)' >= Rank(t)
     /\ \/ remaining' # remaining \/ at' > at
        \/ \E t \in Tasks : Rank(t)' > Rank(t)
        \/ leaked' < leaked]_vars

(* Only a call without parallel can raise, and what it has not got to      *)
(* remains or is in a later layer.                                         *)
EndInv ==
  /\ \A t \in Tasks : state[t] = "raised" => ~parallel
  /\ \A t \in Tasks : state[t] = "unseen" => \A i \in 1 .. at : t \notin layers[i]

(* Every step keeps that.                                                  *)
LEMMA EndInvStep == GraphInv /\ EndInv /\ [Next]_vars => EndInv'
<1> SUFFICES ASSUME GraphInv, EndInv, [Next]_vars
             PROVE  EndInv'
  OBVIOUS
<1>1. /\ state \in [Tasks -> States] /\ at \in 0 .. Len(layers) /\ Len(layers) \in Nat
      /\ layers \in Seq(SUBSET Tasks)
  BY DEF GraphInv, TypeOK
<1>2. CASE PlaceLayer
  <2>1. PICK current : layers' = Append(layers, current)
    BY <1>2 DEF PlaceLayer
  <2>2. \A i \in 1 .. Len(layers) : layers'[i] = layers[i]
    BY <1>1, <2>1
  <2>3. QED
    BY <1>1, <1>2, <2>2 DEF PlaceLayer, EndInv
<1>3. CASE OpenLayer
  <2>1. LET k == at + 1
        IN /\ k \in 1 .. Len(layers) /\ at' = k
           /\ \A t \in Tasks \ layers[k] : state'[t] = state[t]
           /\ \A t \in layers[k] : t \in Tasks
                /\ state'[t] = IF DepsSatisfied(t) THEN "queued" ELSE "skipped"
           /\ UNCHANGED <<parallel, layers>>
    BY <1>3, OpenEffect
  <2>2. QED
    BY <1>1, <2>1 DEF EndInv
<1>4. ASSUME NEW t \in Tasks, TaskStep(t)
      PROVE  EndInv'
  <2>1. PICK s \in States : Advances(t, s)
    BY <1>4, TaskStepAdvances
  <2>2. /\ state'[t] = s /\ s # "unseen" /\ \A u \in Tasks \ {t} : state'[u] = state[u]
        /\ UNCHANGED <<parallel, layers, at>>
    BY <1>1, <2>1 DEF Advances, planVars
  <2>3. s = "raised" => ~parallel
    BY <1>1, <1>4, <2>2
    DEF TaskStep, Call, AlreadyFinished, Submit, Work, Return, CannotBuild, Raise,
        Timeout, Set, AfterFailure
  <2>4. QED
    BY <2>2, <2>3 DEF EndInv
<1>5. CASE LeakEnds \/ UNCHANGED vars
  BY <1>5 DEF LeakEnds, vars, planVars, EndInv
<1>6. QED
  BY <1>2, <1>3, <1>4, <1>5 DEF Next

(* It holds in every reachable state.                                      *)
LEMMA EndInvHolds == Spec => []EndInv
<1>1. Init => EndInv
  BY DEF Init, EndInv
<1>2. QED
  BY <1>1, EndInvStep, InvHolds, PTL DEF Spec

(* A call that is not over has a step to make.                             *)
LEMMA NotStuck ==
  ASSUME GraphInv, EndInv
  PROVE  NeverStuck
<1> SUFFICES ASSUME ~CanGoOn
             PROVE  Over
  BY DEF NeverStuck
<1>1. /\ state \in [Tasks -> States] /\ at \in 0 .. Len(layers) /\ Len(layers) \in Nat
      /\ layers \in Seq(SUBSET Tasks) /\ remaining = {} /\ parallel \in BOOLEAN
  BY DEF GraphInv, TypeOK, CanGoOn
<1>2. \A t \in Tasks : state[t] \in {"unseen", "skipped", "queued", "completed", "failed",
                                      "raised"}
  BY <1>1 DEF CanGoOn, States
<1>3. CASE \E t \in Tasks : state[t] = "raised"
  BY <1>3 DEF EndInv, Over
<1>4. CASE \A t \in Tasks : state[t] # "raised"
  <2>1. Outer = {}
    BY <1>2 DEF Outer
  <2>2. \A t \in Tasks : state[t] # "queued"
    <3>1. Cardinality({}) = 0
      BY FS_EmptySet
    <3>2. QED
      BY <1>1, <1>4, <2>1, <3>1, GraphAssumption DEF CanGoOn
  <2>3. LayerDone
    <3>1. ASSUME at > 0, NEW t \in layers[at]
          PROVE  state[t] \in Settled
      <4>1. t \in Tasks /\ at \in 1 .. at
        BY <1>1, <3>1
      <4>2. state[t] # "unseen"
        BY <3>1, <4>1 DEF EndInv
      <4>3. QED
        BY <1>2, <1>4, <2>2, <4>1, <4>2 DEF Settled
    <3>2. QED
      BY <3>1 DEF LayerDone
  <2>4. at = Len(layers)
    BY <1>1, <2>3 DEF CanGoOn
  <2>5. \A t \in Tasks : state[t] \in Settled
    <3>1. ASSUME NEW t \in Tasks
          PROVE  state[t] # "unseen"
      <4>1. \E i \in 1 .. Len(layers) : t \in layers[i]
        BY <1>1 DEF GraphInv, LayersPartition
      <4>2. QED
        BY <2>4, <4>1 DEF EndInv
    <3>2. QED
      BY <1>2, <1>4, <2>2, <3>1 DEF Settled
  <2>6. QED
    BY <1>1, <2>3, <2>4, <2>5 DEF Finished, Over
<1>5. QED
  BY <1>3, <1>4

(* Whatever the graph, the sizes of the pools and the threads that hung    *)
(* agents keep, a call is never stuck: it is over, or a step that waits    *)
(* for no agent is possible.                                               *)
THEOREM CallsAreNeverStuck == Spec => []NeverStuck
<1>1. GraphInv /\ EndInv => NeverStuck
  BY NotStuck
<1>2. QED
  BY <1>1, InvHolds, EndInvHolds, PTL

(* The values of the rank.                                                 *)
LEMMA RankValues ==
  ASSUME NEW n
  PROVE  /\ RankOf("unseen", n) = 0 /\ RankOf("queued", n) = 1
         /\ RankOf("calling", n) = 3 * n + 2 /\ RankOf("submitted", n) = 3 * n
         /\ RankOf("working", n) = 3 * n + 1
         /\ \A s \in Settled \cup {"raised"} : RankOf(s, n) = 3 * MaxAttempts + 3
BY DEF RankOf, Settled

(* Ranks are numbers, up to a bound.                                       *)
LEMMA RankType ==
  ASSUME GraphInv, NEW t \in Tasks
  PROVE  Rank(t) \in 0 .. 3 * MaxAttempts + 3
<1>1. state[t] \in States /\ tries[t] \in 0 .. MaxAttempts /\ MaxAttempts \in Nat
  BY GraphAssumption DEF GraphInv, TypeOK
<1>2. QED
  BY <1>1, RankValues DEF Rank, States, Settled

(* A step of a task raises its rank.                                       *)
LEMMA TaskStepRank ==
  ASSUME GraphInv, GraphInv', NEW t \in Tasks, TaskStep(t)
  PROVE  Rank(t)' > Rank(t) /\ \A u \in Tasks \ {t} : Rank(u)' = Rank(u)
<1>1. PICK s \in States : Advances(t, s)
  BY TaskStepAdvances
<1>2. \A u \in Tasks \ {t} : state'[u] = state[u] /\ tries'[u] = tries[u]
  BY <1>1 DEF Advances, GraphInv, TypeOK
<1>3. \A u \in Tasks \ {t} : Rank(u)' = Rank(u)
  BY <1>2 DEF Rank
<1>4. /\ state \in [Tasks -> States] /\ tries \in [Tasks -> 0 .. MaxAttempts]
      /\ state[t] = "calling" => tries[t] < MaxAttempts
      /\ state[t] = "queued" => tries[t] = 0
      /\ tries[t] \in 0 .. MaxAttempts /\ MaxAttempts \in Nat
  BY GraphAssumption DEF GraphInv, TypeOK, TriesInBudget
<1>5. \A n \in 0 .. MaxAttempts : AfterFailure(n) \in {"calling", "failed"}
  BY DEF AfterFailure
<1>6. CASE Call(t)
  <2>1. state[t] = "queued" /\ state'[t] = "calling" /\ tries'[t] = tries[t]
    BY <1>4, <1>6 DEF Call, Set
  <2>2. QED
    BY <1>3, <1>4, <2>1, RankValues DEF Rank, Settled
<1>7. CASE AlreadyFinished(t) \/ Raise(t)
  <2>1. /\ state[t] \in {"calling", "working"}
        /\ state'[t] \in {"completed", "failed", "raised"}
    BY <1>4, <1>7 DEF AlreadyFinished, Raise, Set
  <2>2. QED
    BY <1>3, <1>4, <2>1, RankValues DEF Rank, Settled
<1>8. CASE Submit(t)
  <2>1. state[t] = "calling" /\ state'[t] = "submitted" /\ tries'[t] = tries[t] + 1
    BY <1>4, <1>8 DEF Submit, Set
  <2>2. QED
    BY <1>3, <1>4, <2>1, RankValues DEF Rank, Settled
<1>9. CASE Work(t)
  <2>1. state[t] = "submitted" /\ state'[t] = "working" /\ tries'[t] = tries[t]
    BY <1>4, <1>9 DEF Work, Set
  <2>2. QED
    BY <1>3, <1>4, <2>1, RankValues DEF Rank, Settled
<1>10. CASE Return(t) \/ Timeout(t)
  <2>1. /\ state[t] \in {"submitted", "working"} /\ tries'[t] = tries[t]
        /\ state'[t] \in {"completed", "calling", "failed"}
    BY <1>4, <1>5, <1>10 DEF Return, Timeout, Set
  <2>2. QED
    BY <1>3, <1>4, <2>1, RankValues DEF Rank, Settled
<1>11. CASE CannotBuild(t)
  <2>1. /\ state[t] = "calling" /\ tries'[t] = tries[t] + 1
        /\ tries[t] + 1 \in 0 .. MaxAttempts
    BY <1>4, <1>11 DEF CannotBuild
  <2>2. state'[t] \in {"calling", "failed"}
    BY <1>4, <1>5, <1>11, <2>1 DEF CannotBuild, Set
  <2>3. QED
    BY <1>3, <1>4, <2>1, <2>2, RankValues DEF Rank, Settled
<1>12. QED
  BY <1>3, <1>6, <1>7, <1>8, <1>9, <1>10, <1>11 DEF TaskStep

(* Every step of the call takes something on and nothing back.             *)
LEMMA NextAdvances ==
  ASSUME GraphInv, GraphInv', Next
  PROVE  /\ remaining' \subseteq remaining /\ at' >= at
         /\ \A t \in Tasks : Rank(t)' >= Rank(t)
         /\ \/ remaining' # remaining \/ at' > at
            \/ \E t \in Tasks : Rank(t)' > Rank(t)
            \/ leaked' < leaked
<1>1. /\ at \in Nat /\ leaked \in Nat /\ remaining \subseteq Tasks
      /\ \A t \in Tasks : Rank(t) \in Nat /\ Rank(t)' \in Nat
  <2>1. \A t \in Tasks : Rank(t) \in 0 .. 3 * MaxAttempts + 3
    BY RankType
  <2>2. \A t \in Tasks : Rank(t)' \in 0 .. 3 * MaxAttempts + 3
    <3>1. /\ state' \in [Tasks -> States] /\ tries' \in [Tasks -> 0 .. MaxAttempts]
          /\ MaxAttempts \in Nat
      BY GraphAssumption DEF GraphInv, TypeOK
    <3>2. QED
      BY <3>1, RankValues DEF Rank, States, Settled
  <2>3. QED
    BY <2>1, <2>2 DEF GraphInv, TypeOK
<1>2. CASE PlaceLayer
  <2>1. UNCHANGED <<at, state, tries>>
    BY <1>2 DEF PlaceLayer
  <2>2. remaining' \subseteq remaining /\ remaining' # remaining
    BY <1>2 DEF PlaceLayer
  <2>3. \A t \in Tasks : Rank(t)' = Rank(t)
    BY <2>1 DEF Rank
  <2>4. QED
    BY <1>1, <2>1, <2>2, <2>3
<1>3. CASE OpenLayer
  <2>1. UNCHANGED <<remaining, tries>> /\ at' = at + 1
    BY <1>3 DEF OpenLayer
  <2>2. \A t \in Tasks : state'[t] = state[t] \/ state[t] = "unseen"
    BY <1>3, OpenEffect
  <2>3. \A t \in Tasks : Rank(t)' >= Rank(t)
    <3>1. ASSUME NEW t \in Tasks
          PROVE  Rank(t)' >= Rank(t)
      <4>1. CASE state[t] = "unseen"
        <5>1. Rank(t) = 0
          BY <4>1, RankValues DEF Rank
        <5>2. QED
          BY <1>1, <5>1
      <4>2. CASE state[t] # "unseen"
        <5>1. Rank(t)' = Rank(t)
          BY <2>1, <2>2, <4>2 DEF Rank
        <5>2. QED
          BY <1>1, <5>1
      <4>3. QED
        BY <4>1, <4>2
    <3>2. QED
      BY <3>1
  <2>4. QED
    BY <1>1, <2>1, <2>3
<1>4. ASSUME NEW t \in Tasks, TaskStep(t)
      PROVE  /\ remaining' \subseteq remaining /\ at' >= at
             /\ \A u \in Tasks : Rank(u)' >= Rank(u)
             /\ Rank(t)' > Rank(t)
  <2>1. Rank(t)' > Rank(t) /\ \A u \in Tasks \ {t} : Rank(u)' = Rank(u)
    BY <1>4, TaskStepRank
  <2>2. \E s \in States : Advances(t, s)
    BY <1>4, TaskStepAdvances
  <2>3. UNCHANGED <<remaining, at>>
    BY <2>2 DEF Advances, planVars
  <2>4. QED
    BY <1>1, <2>1, <2>3
<1>5. CASE LeakEnds
  <2>1. UNCHANGED <<remaining, at, state, tries>> /\ leaked' < leaked
    BY <1>1, <1>5 DEF LeakEnds, planVars
  <2>2. \A t \in Tasks : Rank(t)' = Rank(t)
    BY <2>1 DEF Rank
  <2>3. QED
    BY <1>1, <2>1, <2>2
<1>6. QED
  BY <1>2, <1>3, <1>4, <1>5 DEF Next

(* No step goes round: tasks are placed once, layers opened once, and the  *)
(* rank of a task, which is bounded, only grows.  So a call is over after  *)
(* a number of steps that N and MAX_ATTEMPTS bound.                        *)
THEOREM NoStepGoesRound == Spec => StepsAdvance
<1>1. GraphInv /\ GraphInv' /\ [Next]_vars =>
        [/\ remaining' \subseteq remaining /\ at' >= at
         /\ \A t \in Tasks : Rank(t)' >= Rank(t)
         /\ \/ remaining' # remaining \/ at' > at
            \/ \E t \in Tasks : Rank(t)' > Rank(t)
            \/ leaked' < leaked]_vars
  BY NextAdvances
<1>2. QED
  BY <1>1, InvHolds, PTL DEF Spec, StepsAdvance

=============================================================================
