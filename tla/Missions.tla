------------------------------ MODULE Missions ------------------------------
(***************************************************************************)
(* The mission endpoints of api/v1/missions.py: transition, reject,        *)
(* approve, update and delete.  All but delete lock the row; each is an    *)
(* opening step and a step that decides on what was read and commits.      *)
(***************************************************************************)
EXTENDS MissionRow

CONSTANTS
  ClientKeys,     \* the metadata keys clients set when they create or PUT
  MaxRejections   \* bound of the model: no reject call arrives after so many

ASSUME MissionsAssumption ==
  /\ ClientKeys \subseteq MetadataKeys
  /\ MaxRejections \in Nat

VARIABLE
  rejections      \* history: reject calls answered with success so far

vars == <<row, approvals, lock, call, read, rejections>>

TransitionCalls == [op: {"transition"}, to: Status]
RejectCalls     == [op: {"reject"}, to: {"planning", "escalated"}]
ApproveCalls    == [op: {"approve"}, gate: Gates]

(* A PUT that sets one metadata key, or deletes it (which reads as its     *)
(* default), and a PUT that touches none of the keys modelled.             *)
UpdateCalls ==
  [op: {"update"}, key: ClientKeys \ {"rejection_count"}, value: BOOLEAN]
    \cup [op: {"update"}, key: ClientKeys \cap {"rejection_count"}, value: {0}]
    \cup {[op |-> "update", key |-> "other", value |-> TRUE]}

LockedCalls == TransitionCalls \cup RejectCalls \cup ApproveCalls \cup UpdateCalls

(* POST /missions stores the blob the client sends; none starts counting.  *)
CreatedRows ==
  {[NewRow EXCEPT !.md = [planning_complete |-> "planning_complete" \in set,
                          review_passed     |-> "review_passed" \in set,
                          rejection_count   |-> 0]] : set \in SUBSET ClientKeys}

Init == RowInit(CreatedRows) /\ rejections = 0

-----------------------------------------------------------------------------
Request(p, c) ==
  /\ c.op = "reject" => rejections < MaxRejections
  /\ OpenLocked(p, c)
  /\ UNCHANGED <<row, approvals, rejections>>

(* Every early return of a handler: an error answer, nothing written.      *)
Refuse(p) ==
  /\ Close(p)
  /\ UNCHANGED <<row, approvals, rejections>>

(* Faulty variants: one gate forgotten, or asked for on one edge only.     *)
AllowedOffEdges(r, to) ==
  /\ to = "execution" => r.md.planning_complete
  /\ to = "merged" => "merge" \in approvals

AllowedUnplanned(r, to) ==
  /\ CanTransition(r.status, to)
  /\ r.status = "planning" /\ to = "execution" => r.md.planning_complete
  /\ to = "merged" => "merge" \in approvals

AllowedUnapproved(r, to) ==
  /\ CanTransition(r.status, to)
  /\ to = "execution" => r.md.planning_complete

(* The gates of POST /transition, in the row and approvals the locked      *)
(* session sees.                                                           *)
TransitionAllowed(r, to) ==
  /\ CanTransition(r.status, to)
  /\ to = "execution" => r.md.planning_complete
  /\ to = "merged" => "merge" \in approvals

(* The reason a client may give, and the planning that starts, are added   *)
(* to the blob.                                                            *)
Transition(p) ==
  /\ call[p].op = "transition"
  /\ LET to == call[p].to
     IN  IF TransitionAllowed(read[p], to)
           THEN /\ MayWrite(p)
                /\ \E reason \in BOOLEAN :
                     row' = Flush(p, [read[p] EXCEPT !.status = to],
                                  reason \/ to = "planning")
                /\ Close(p)
                /\ UNCHANGED <<approvals, rejections>>
           ELSE Refuse(p)

(* Faulty variant: the threshold is asked before the increment.            *)
LateRejectTarget(count, asked) ==
  IF ShouldEscalate(count - 1) THEN "escalated" ELSE asked

(* Faulty variant: a reject that is refused commits the counter it bumped. *)
RejectCommitted(p) ==
  /\ call[p].op = "reject"
  /\ MayWrite(p)
  /\ row' = Flush(p, [read[p] EXCEPT !.md.rejection_count = @ + 1], TRUE)
  /\ Close(p)
  /\ UNCHANGED <<approvals, rejections>>

(* POST /reject records current -> rejected -> target in one write; the    *)
(* count decides whether the target asked for or escalated is written.     *)
RejectTarget(count, asked) ==
  IF ShouldEscalate(count) THEN "escalated" ELSE asked

Reject(p) ==
  /\ call[p].op = "reject"
  /\ LET count  == read[p].md.rejection_count + 1
         target == RejectTarget(count, call[p].to)
     IN  IF /\ CanTransition(read[p].status, "rejected")
            /\ CanTransition("rejected", target)
           THEN /\ MayWrite(p)
                /\ row' = Flush(p, [read[p] EXCEPT !.status = target,
                                                   !.md.rejection_count = count],
                                TRUE)
                /\ rejections' = IF row.exists THEN rejections + 1 ELSE rejections
                /\ Close(p)
                /\ UNCHANGED approvals
           ELSE Refuse(p)

(* POST /approve looks at no status: any gate can be approved at any time. *)
Approve(p) ==
  /\ call[p].op = "approve"
  /\ MayWrite(p)
  /\ approvals' = IF row.exists THEN approvals \cup {call[p].gate} ELSE approvals
  /\ row' = IF call[p].gate = "planning"
              THEN Flush(p, [read[p] EXCEPT !.md.planning_complete = TRUE], FALSE)
              ELSE row
  /\ Close(p)
  /\ UNCHANGED rejections

Merged(md, key, value) ==
  IF key \in MetadataKeys THEN [md EXCEPT ![key] = value] ELSE md

(* PUT merges the keys given into the blob; a branch_prefix that collides  *)
(* with another mission's is answered 409 and rolled back.                 *)
Update(p) ==
  /\ call[p].op = "update"
  /\ \/ /\ MayWrite(p)
        /\ row' = Flush(p, [read[p] EXCEPT !.md = Merged(@, call[p].key, call[p].value)],
                        call[p].key = "other")
        /\ Close(p)
        /\ UNCHANGED <<approvals, rejections>>
     \/ Refuse(p)

(* DELETE reads without a lock, decides nothing, and deletes the row with  *)
(* its approvals; so only its commit is a step.                            *)
Delete(p) ==
  /\ call[p] = NoCall
  /\ row.exists
  /\ lock = NoRequest
  /\ row' = [NewRow EXCEPT !.exists = FALSE]
  /\ approvals' = {}
  /\ UNCHANGED <<lock, call, read, rejections>>

(* A failed commit, a dropped connection or the death of the process rolls *)
(* an open session back.                                                   *)
Abort(p) ==
  /\ call[p] # NoCall
  /\ Refuse(p)

MissionStep(p) ==
  \/ \E c \in LockedCalls : Request(p, c)
  \/ Transition(p)
  \/ Reject(p)
  \/ Approve(p)
  \/ Update(p)
  \/ Delete(p)
  \/ Abort(p)

Next == \E p \in Requests : MissionStep(p)

Spec == Init /\ [][Next]_vars

-----------------------------------------------------------------------------
TypeOK ==
  /\ row \in Row
  /\ approvals \in SUBSET Gates
  /\ lock \in Requests \cup {NoRequest}
  /\ call \in [Requests -> LockedCalls \cup {NoCall}]
  /\ read \in [Requests -> Row]
  /\ rejections \in Nat

(* The session that holds the row lock has read the row as it is in the    *)
(* table, however long it takes to decide: nobody has written it since.    *)
(* This is what makes every check-then-write of the handlers atomic.       *)
LockedReadIsCurrent ==
  lock # NoRequest => row.exists /\ read[lock] = row

(* Every open session of these endpoints is the one that holds the lock.   *)
OpenSessionHoldsLock == \A p \in Requests : call[p] # NoCall => lock = p

(* No rejection is lost or counted twice: the counter in the metadata blob *)
(* equals the reject calls answered with success.                          *)
RejectionsCounted == row.exists => row.md.rejection_count = rejections

(* Four successful rejections leave the mission escalated.                 *)
FourthRejectionEscalates ==
  row.exists /\ ShouldEscalate(rejections) => row.status = "escalated"

(* A merged mission has a merge approval on record.                        *)
MergeGated == row.exists /\ row.status = "merged" => "merge" \in approvals

(* The inductive invariant, on a database with row locks and with clients  *)
(* that leave the counter alone.                                           *)
MissionInv ==
  /\ TypeOK
  /\ OpenSessionHoldsLock
  /\ LockedReadIsCurrent
  /\ RejectionsCounted
  /\ FourthRejectionEscalates
  /\ MergeGated

(* A status written is one edge of the state machine away from the one in  *)
(* the table, or two edges through rejected, which is what reject writes.  *)
LegalChange(from, to) ==
  \/ CanTransition(from, to)
  \/ CanTransition(from, "rejected") /\ CanTransition("rejected", to)

(* The locked endpoints implement the atomic lifecycle: the sessions, the  *)
(* lock and the loaded copies are invisible to clients.                    *)
Lifecycle == INSTANCE MissionLifecycle WITH
  PlanningWritable <- "planning_complete" \in ClientKeys,
  status           <- IF row.exists THEN row.status ELSE "deleted",
  planned          <- row.md.planning_complete,
  approvedToMerge  <- "merge" \in approvals,
  count            <- rejections

ImplementsLifecycle == Lifecycle!Spec

=============================================================================
