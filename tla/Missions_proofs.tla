-------------------------- MODULE Missions_proofs --------------------------
(***************************************************************************)
(* Proofs about one mission row.  First the mission endpoints alone, for   *)
(* any number of requests, any bound on the rejections and any keys        *)
(* clients may write; then, of Control, what holds although most of the    *)
(* dashboard and the worker never lock the row, for any assignment of      *)
(* operations to requests.                                                 *)
(***************************************************************************)
EXTENDS Control, TLAPS

-----------------------------------------------------------------------------
(* Lemmas about the operators the handlers are made of.                    *)

(* The flush of a row is a row.                                            *)
LEMMA FlushType ==
  ASSUME row \in Row, read \in [Requests -> Row], NEW p \in Requests,
         NEW new \in Row, NEW mark
  PROVE  Flush(p, new, mark) \in Row
BY DEF Flush, Row, Metadata

(* The row of a new mission is a row.                                      *)
LEMMA NewRowType == NewRow \in Row
BY DEF NewRow, Row, NewMetadata, Metadata, Status

(* What a mission can be like when it is created.                          *)
LEMMA CreatedRow ==
  ASSUME NEW r \in CreatedRows
  PROVE  /\ r \in Row
         /\ r.exists
         /\ r.status = "created"
         /\ r.md.rejection_count = 0
         /\ r.md.planning_complete => "planning_complete" \in ClientKeys
<1>1. PICK set \in SUBSET ClientKeys :
        r = [NewRow EXCEPT !.md = [planning_complete |-> "planning_complete" \in set,
                                   review_passed     |-> "review_passed" \in set,
                                   rejection_count   |-> 0]]
  BY DEF CreatedRows
<1>2. ("planning_complete" \in set) \in BOOLEAN /\ ("review_passed" \in set) \in BOOLEAN
  OBVIOUS
<1>3. QED
  BY <1>1, <1>2 DEF NewRow, NewMetadata, Row, Metadata, Status

(* What the arguments of each call can be.                                 *)
LEMMA CallArguments ==
  ASSUME NEW c \in LockedCalls \cup {NoCall}
  PROVE  /\ c.op = "transition" => c.to \in Status
         /\ c.op = "reject" => c.to \in {"planning", "escalated"}
         /\ c.op = "approve" => c.gate \in Gates
         /\ c.op = "update" =>
              \/ c.key = "other"
              \/ c.key = "rejection_count" /\ c.key \in ClientKeys /\ c.value = 0
              \/ c.key \in ClientKeys \ {"rejection_count"} /\ c.value \in BOOLEAN
BY DEF LockedCalls, TransitionCalls, RejectCalls, ApproveCalls, UpdateCalls, NoCall

(* A PUT leaves well-typed metadata.                                       *)
LEMMA MergedType ==
  ASSUME NEW md \in Metadata, NEW c \in LockedCalls \cup {NoCall}, c.op = "update"
  PROVE  Merged(md, c.key, c.value) \in Metadata
<1>1. CASE c.key \notin MetadataKeys
  BY <1>1 DEF Merged
<1>2. CASE c.key = "rejection_count"
  <2>1. c.value = 0
    BY <1>2, CallArguments
  <2>2. QED
    BY <1>2, <2>1 DEF Merged, Metadata, MetadataKeys
<1>3. CASE c.key \in MetadataKeys \ {"rejection_count"}
  <2>1. c.value \in BOOLEAN
    BY <1>3, CallArguments DEF MetadataKeys
  <2>2. QED
    BY <1>3, <2>1 DEF Merged, Metadata, MetadataKeys
<1>4. QED
  BY <1>1, <1>2, <1>3

(* Closing a session leaves well-typed sessions.                           *)
LEMMA CloseType ==
  ASSUME TypeOK, NEW p \in Requests, Close(p)
  PROVE  /\ lock' \in Requests \cup {NoRequest}
         /\ call' \in [Requests -> LockedCalls \cup {NoCall}]
         /\ read' \in [Requests -> Row]
BY NewRowType DEF TypeOK, Close

(* Rejecting writes a status of the state machine.                         *)
LEMMA RejectTargetType ==
  ASSUME NEW count, NEW asked \in {"planning", "escalated"}
  PROVE  RejectTarget(count, asked) \in {"planning", "escalated"}
BY DEF RejectTarget

-----------------------------------------------------------------------------
(* Type correctness.                                                       *)

(* The initial states are well typed.                                      *)
LEMMA InitType == Init => TypeOK
BY NewRowType, CreatedRow DEF Init, RowInit, TypeOK

(* Every step keeps the types.                                             *)
LEMMA NextType == TypeOK /\ [Next]_vars => TypeOK'
<1> SUFFICES ASSUME TypeOK, [Next]_vars
             PROVE  TypeOK'
  OBVIOUS
<1> USE DEF TypeOK
<1>1. ASSUME NEW p \in Requests, NEW c \in LockedCalls, Request(p, c)
      PROVE  TypeOK'
  BY <1>1 DEF Request, OpenLocked
<1>2. ASSUME NEW p \in Requests, Refuse(p)
      PROVE  TypeOK'
  BY <1>2, CloseType DEF Refuse
<1>3. ASSUME NEW p \in Requests, Transition(p)
      PROVE  TypeOK'
  <2> DEFINE to  == call[p].to
             new == [read[p] EXCEPT !.status = to]
  <2>1. CASE ~TransitionAllowed(read[p], to)
    BY <1>2, <1>3, <2>1 DEF Transition
  <2>2. CASE TransitionAllowed(read[p], to)
    <3>1. to \in Status
      BY <1>3, CallArguments DEF Transition
    <3>2. new \in Row
      BY <3>1 DEF Row
    <3>3. row' \in Row
      BY <1>3, <2>2, <3>2, FlushType DEF Transition
    <3>4. QED
      BY <1>3, <2>2, <3>3, CloseType DEF Transition
  <2>3. QED
    BY <2>1, <2>2
<1>4. ASSUME NEW p \in Requests, Reject(p)
      PROVE  TypeOK'
  <2> DEFINE count  == read[p].md.rejection_count + 1
             target == RejectTarget(count, call[p].to)
             new    == [read[p] EXCEPT !.status = target, !.md.rejection_count = count]
             legal  == /\ CanTransition(read[p].status, "rejected")
                       /\ CanTransition("rejected", target)
  <2>1. CASE ~legal
    BY <1>2, <1>4, <2>1 DEF Reject
  <2>2. CASE legal
    <3>1. target \in Status
      BY <1>4, CallArguments, RejectTargetType DEF Reject, Status
    <3>2. count \in Nat
      BY DEF Row, Metadata
    <3>3. new \in Row
      <4> HIDE DEF count, target
      <4> QED
        BY <3>1, <3>2 DEF Row, Metadata
    <3>4. /\ row' = Flush(p, new, TRUE)
          /\ rejections' = IF row.exists THEN rejections + 1 ELSE rejections
          /\ Close(p)
          /\ UNCHANGED approvals
      BY <1>4, <2>2 DEF Reject
    <3>5. row' \in Row
      <4> HIDE DEF new
      <4> QED
        BY <3>3, <3>4, FlushType
    <3>6. rejections' \in Nat
      BY <3>4
    <3>7. QED
      BY <3>4, <3>5, <3>6, CloseType
  <2>3. QED
    BY <2>1, <2>2
<1>5. ASSUME NEW p \in Requests, Approve(p)
      PROVE  TypeOK'
  <2> DEFINE new == [read[p] EXCEPT !.md.planning_complete = TRUE]
  <2>1. new \in Row
    BY DEF Row, Metadata
  <2>2. row' \in Row
    BY <1>5, <2>1, FlushType DEF Approve
  <2>3. approvals' \in SUBSET Gates
    BY <1>5, CallArguments DEF Approve
  <2>4. QED
    BY <1>5, <2>2, <2>3, CloseType DEF Approve
<1>6. ASSUME NEW p \in Requests, Update(p)
      PROVE  TypeOK'
  <2> DEFINE new == [read[p] EXCEPT !.md = Merged(@, call[p].key, call[p].value)]
  <2>1. CASE Refuse(p)
    BY <1>2, <2>1
  <2>2. CASE ~Refuse(p)
    <3>1. Merged(read[p].md, call[p].key, call[p].value) \in Metadata
      BY <1>6, MergedType DEF Update, Row
    <3>2. new \in Row
      BY <3>1 DEF Row
    <3>3. row' \in Row
      BY <1>6, <2>2, <3>2, FlushType DEF Update
    <3>4. QED
      BY <1>6, <2>2, <3>3, CloseType DEF Update
  <2>3. QED
    BY <2>1, <2>2
<1>7. ASSUME NEW p \in Requests, Delete(p)
      PROVE  TypeOK'
  BY <1>7, NewRowType DEF Delete, Row
<1>8. CASE UNCHANGED vars
  BY <1>8 DEF vars
<1>9. QED
  BY <1>1, <1>2, <1>3, <1>4, <1>5, <1>6, <1>7, <1>8 DEF Next, MissionStep, Abort

(* Every variable keeps its type, in every reachable state.                *)
THEOREM TypeCorrect == Spec => []TypeOK
<1>1. QED
  BY InitType, NextType, PTL DEF Spec

-----------------------------------------------------------------------------
(* The lock makes the handlers atomic.                                     *)

(* Writing from a copy that is current is an assignment of the whole row.  *)
LEMMA FlushOfCurrentCopy ==
  ASSUME row \in Row, row.exists, NEW p \in Requests, read[p] = row,
         NEW new \in Row, new.exists, NEW mark \in BOOLEAN
  PROVE  Flush(p, new, mark) = new
BY DEF Flush, Row

(* The holder of the lock, and only it, answers; it has read the row as it *)
(* is, and when it closes nobody holds the lock and no session is open.    *)
LEMMA AnswerHoldsLock ==
  ASSUME MissionInv, NEW p \in Requests, call[p] # NoCall
  PROVE  lock = p /\ row.exists /\ read[p] = row
BY RowAssumption DEF MissionInv, OpenSessionHoldsLock, LockedReadIsCurrent

(* The answer that ends the locked session leaves no session open.         *)
LEMMA CloseFreesLock ==
  ASSUME MissionInv, NEW p \in Requests, call[p] # NoCall, Close(p)
  PROVE  /\ lock' = NoRequest
         /\ OpenSessionHoldsLock'
         /\ LockedReadIsCurrent'
<1>1. lock = p
  BY AnswerHoldsLock
<1>2. lock' = NoRequest
  BY <1>1 DEF Close
<1>3. ASSUME NEW q \in Requests
      PROVE  call'[q] = NoCall
  <2>1. CASE q = p
    BY <2>1 DEF Close, MissionInv, TypeOK
  <2>2. CASE q # p
    BY <1>1, <2>2, RowAssumption DEF Close, MissionInv, TypeOK, OpenSessionHoldsLock
  <2>3. QED
    BY <2>1, <2>2
<1>4. QED
  BY <1>2, <1>3 DEF OpenSessionHoldsLock, LockedReadIsCurrent

(* What the state machine says of the statuses the invariants name.        *)
LEMMA Escalated == \A to : ~CanTransition("escalated", to)
BY DEF CanTransition, AllowedTransitions, Status

(* No edge leaves merged.                                                  *)
LEMMA MergedIsFinal == \A to : ~CanTransition("merged", to)
BY DEF CanTransition, AllowedTransitions, Status

(* PUT leaves the counter alone unless clients write it.                   *)
LEMMA MergedKeepsCount ==
  ASSUME NEW md \in Metadata, NEW c \in LockedCalls \cup {NoCall}, c.op = "update",
         "rejection_count" \notin ClientKeys
  PROVE  Merged(md, c.key, c.value).rejection_count = md.rejection_count
<1>1. c.key # "rejection_count"
  BY CallArguments
<1>2. QED
  BY <1>1 DEF Merged, Metadata

-----------------------------------------------------------------------------
(* The inductive invariant.                                                *)

(* The part of MissionInv that speaks of the data, not of the sessions.    *)
DataInv == RejectionsCounted /\ FourthRejectionEscalates /\ MergeGated

(* The invariant holds initially.                                          *)
LEMMA InitInv == Init => MissionInv
<1> SUFFICES ASSUME Init
             PROVE  MissionInv
  OBVIOUS
<1>1. ~ShouldEscalate(0)
  BY DEF ShouldEscalate, EscalationRejectionThreshold
<1>2. QED
  BY <1>1, InitType, CreatedRow DEF Init, RowInit, MissionInv, OpenSessionHoldsLock,
     LockedReadIsCurrent, RejectionsCounted, FourthRejectionEscalates,
     MergeGated

(* The effect of a transition that passes its gates.                       *)
LEMMA TransitionEffect ==
  ASSUME MissionInv, NEW p \in Requests, Transition(p),
         TransitionAllowed(read[p], call[p].to)
  PROVE  /\ row.exists /\ read[p] = row
         /\ call[p].to \in Status
         /\ row' = [row EXCEPT !.status = call[p].to]
         /\ UNCHANGED <<approvals, rejections>>
<1> DEFINE to  == call[p].to
           new == [read[p] EXCEPT !.status = to]
<1>1. lock = p /\ row.exists /\ read[p] = row
  BY AnswerHoldsLock DEF Transition, NoCall
<1>2. to \in Status
  BY CallArguments DEF Transition, MissionInv, TypeOK
<1>3. row \in Row /\ read \in [Requests -> Row]
  BY DEF MissionInv, TypeOK
<1>4. new \in Row /\ new.exists
  BY <1>1, <1>2, <1>3 DEF Row
<1>5. PICK mark \in BOOLEAN : row' = Flush(p, new, mark)
  BY DEF Transition
<1>6. row' = new
  BY <1>1, <1>3, <1>4, <1>5, FlushOfCurrentCopy
<1>7. QED
  BY <1>1, <1>2, <1>6 DEF Transition

(* POST /transition keeps the invariant.                                   *)
LEMMA TransitionInv ==
  ASSUME MissionInv, NEW p \in Requests, Transition(p),
         TransitionAllowed(read[p], call[p].to)
  PROVE  DataInv'
<1>1. /\ row.exists /\ read[p] = row /\ row \in Row
      /\ row' = [row EXCEPT !.status = call[p].to]
      /\ UNCHANGED <<approvals, rejections>>
  BY TransitionEffect DEF MissionInv, TypeOK
<1>2. row'.md = row.md /\ row'.status = call[p].to
  BY <1>1 DEF Row
<1>3. RejectionsCounted'
  BY <1>1, <1>2 DEF MissionInv, RejectionsCounted
<1>4. FourthRejectionEscalates'
  <2>1. ~ShouldEscalate(rejections)
    BY <1>1, Escalated DEF MissionInv, FourthRejectionEscalates, TransitionAllowed
  <2>2. QED
    BY <2>1, <1>1 DEF FourthRejectionEscalates
<1>5. MergeGated'
  BY <1>1, <1>2 DEF MergeGated, TransitionAllowed
<1>6. QED
  BY <1>3, <1>4, <1>5 DEF DataInv

(* What reject writes, for a count and a target.                           *)
Rejected(count, target) ==
  [row EXCEPT !.status = target, !.md.rejection_count = count]

(* What a rejection writes is a row.                                       *)
LEMMA RejectedType ==
  ASSUME row \in Row, NEW count \in Nat, NEW target \in Status
  PROVE  /\ Rejected(count, target) \in Row
         /\ Rejected(count, target).exists = row.exists
         /\ Rejected(count, target).status = target
         /\ Rejected(count, target).md.rejection_count = count
         /\ Rejected(count, target).md.planning_complete = row.md.planning_complete
BY DEF Rejected, Row, Metadata

(* The effect of a rejection: it counts one more than were answered.       *)
LEMMA RejectEffect ==
  ASSUME MissionInv, NEW p \in Requests, Reject(p), ~Refuse(p)
  PROVE  /\ row.exists
         /\ call[p].to \in {"planning", "escalated"}
         /\ CanTransition(row.status, "rejected")
         /\ row' = Rejected(rejections + 1, RejectTarget(rejections + 1, call[p].to))
         /\ rejections' = rejections + 1
         /\ UNCHANGED approvals
<1> DEFINE target == RejectTarget(rejections + 1, call[p].to)
           new    == Rejected(rejections + 1, target)
<1>1. lock = p /\ row.exists /\ read[p] = row
  BY AnswerHoldsLock DEF Reject, NoCall
<1>2. row \in Row /\ read \in [Requests -> Row] /\ rejections \in Nat
  BY DEF MissionInv, TypeOK
<1>3. read[p].md.rejection_count + 1 = rejections + 1
  BY <1>1 DEF MissionInv, RejectionsCounted
<1>4. call[p].to \in {"planning", "escalated"}
  BY CallArguments DEF Reject, MissionInv, TypeOK
<1>5. target \in Status
  BY <1>4, RejectTargetType DEF Status
<1>6. /\ row' = Flush(p, new, TRUE)
      /\ CanTransition(row.status, "rejected")
      /\ rejections' = rejections + 1
      /\ UNCHANGED approvals
  BY <1>1, <1>3 DEF Reject, Rejected
<1>7. new \in Row /\ new.exists
  <2> HIDE DEF target
  <2>1. rejections + 1 \in Nat
    BY <1>2
  <2>2. QED
    BY <1>1, <1>2, <1>5, <2>1, RejectedType
<1>8. row' = new
  <2> HIDE DEF new
  <2> QED
    BY <1>1, <1>2, <1>6, <1>7, FlushOfCurrentCopy
<1>9. QED
  BY <1>1, <1>4, <1>6, <1>8

(* POST /reject keeps the invariant.                                       *)
LEMMA RejectInv ==
  ASSUME MissionInv, NEW p \in Requests, Reject(p), ~Refuse(p)
  PROVE  DataInv'
<1> DEFINE target == RejectTarget(rejections + 1, call[p].to)
<1>1. /\ row.exists
      /\ row' = Rejected(rejections + 1, target)
      /\ rejections' = rejections + 1
      /\ target \in {"planning", "escalated"}
  BY RejectEffect, RejectTargetType
<1>2. /\ row'.status = target
      /\ row'.md.rejection_count = rejections + 1
  <2> HIDE DEF target
  <2> QED
    BY <1>1 DEF MissionInv, TypeOK, Row, Metadata, Rejected
<1>3. RejectionsCounted'
  BY <1>1, <1>2 DEF RejectionsCounted
<1>4. FourthRejectionEscalates'
  BY <1>1, <1>2 DEF FourthRejectionEscalates, RejectTarget
<1>5. MergeGated'
  BY <1>1, <1>2 DEF MergeGated
<1>6. QED
  BY <1>3, <1>4, <1>5 DEF DataInv

(* A write that keeps the status and the counter, and no approval goes.    *)
LEMMA SameStatusInv ==
  ASSUME MissionInv, row.exists, row'.exists, row'.status = row.status,
         row'.md.rejection_count = row.md.rejection_count,
         approvals \subseteq approvals', rejections' = rejections
  PROVE  DataInv'
BY DEF MissionInv, DataInv, RejectionsCounted, FourthRejectionEscalates, MergeGated

(* The effect of an approval, when the row is there, which it is.          *)
LEMMA ApproveEffect ==
  ASSUME MissionInv, NEW p \in Requests, Approve(p)
  PROVE  /\ row.exists
         /\ call[p].gate \in Gates
         /\ approvals' = approvals \cup {call[p].gate}
         /\ row' = IF call[p].gate = "planning"
                     THEN [row EXCEPT !.md.planning_complete = TRUE]
                     ELSE row
         /\ UNCHANGED rejections
<1> DEFINE new == [read[p] EXCEPT !.md.planning_complete = TRUE]
<1>1. row.exists /\ read[p] = row
  BY AnswerHoldsLock DEF NoCall, Approve
<1>2. row \in Row /\ read \in [Requests -> Row]
  BY DEF MissionInv, TypeOK
<1>3. new \in Row /\ new.exists
  BY <1>1, <1>2 DEF Row, Metadata
<1>4. Flush(p, new, FALSE) = new
  <2> HIDE DEF new
  <2> QED
    BY <1>1, <1>2, <1>3, FlushOfCurrentCopy
<1>5. call[p].gate \in Gates
  BY CallArguments DEF Approve, MissionInv, TypeOK
<1>6. QED
  BY <1>1, <1>4, <1>5 DEF Approve

(* POST /approve keeps the invariant.                                      *)
LEMMA ApproveInv ==
  ASSUME MissionInv, NEW p \in Requests, Approve(p)
  PROVE  DataInv'
<1>1. row \in Row
  BY DEF MissionInv, TypeOK
<1>2. /\ row.exists /\ row'.exists /\ row'.status = row.status
      /\ row'.md.rejection_count = row.md.rejection_count
  BY <1>1, ApproveEffect DEF Row, Metadata
<1>3. QED
  BY <1>2, ApproveEffect, SameStatusInv

(* The effect of a PUT: its key is written and nothing else.               *)
LEMMA UpdateEffect ==
  ASSUME MissionInv, NEW p \in Requests, Update(p), ~Refuse(p)
  PROVE  /\ row.exists
         /\ row' = [row EXCEPT !.md = Merged(row.md, call[p].key, call[p].value)]
         /\ Merged(row.md, call[p].key, call[p].value) \in Metadata
         /\ UNCHANGED <<approvals, rejections>>
<1> DEFINE md  == Merged(read[p].md, call[p].key, call[p].value)
           new == [read[p] EXCEPT !.md = md]
<1>1. row.exists /\ read[p] = row
  BY AnswerHoldsLock DEF NoCall, Update
<1>2. row \in Row /\ read \in [Requests -> Row] /\ call[p] \in LockedCalls \cup {NoCall}
  BY DEF MissionInv, TypeOK
<1>3. md \in Metadata
  BY <1>1, <1>2, MergedType DEF Update, Row
<1>4. new \in Row /\ new.exists
  <2> HIDE DEF md
  <2> QED
    BY <1>1, <1>2, <1>3 DEF Row
<1>5. /\ row' = Flush(p, new, call[p].key = "other")
      /\ UNCHANGED <<approvals, rejections>>
  BY DEF Update
<1>6. row' = new
  <2> HIDE DEF new
  <2> QED
    BY <1>1, <1>2, <1>4, <1>5, FlushOfCurrentCopy
<1>7. QED
  BY <1>1, <1>3, <1>5, <1>6

(* PUT keeps the invariant.                                                *)
LEMMA UpdateInv ==
  ASSUME MissionInv, NEW p \in Requests, Update(p), ~Refuse(p),
         "rejection_count" \notin ClientKeys
  PROVE  DataInv'
<1> DEFINE md == Merged(row.md, call[p].key, call[p].value)
<1>1. row \in Row /\ call[p] \in LockedCalls \cup {NoCall}
  BY DEF MissionInv, TypeOK
<1>2. row.exists /\ row' = [row EXCEPT !.md = md] /\ UNCHANGED <<approvals, rejections>>
  BY UpdateEffect
<1>3. md.rejection_count = row.md.rejection_count
  BY <1>1, MergedKeepsCount DEF Update, Row
<1>4. /\ row'.exists /\ row'.status = row.status
      /\ row'.md.rejection_count = row.md.rejection_count
  <2> HIDE DEF md
  <2> QED
    BY <1>1, <1>2, <1>3 DEF Row
<1>5. QED
  BY <1>2, <1>4, SameStatusInv

(* A session that opens, and takes the lock, keeps the invariant.          *)
LEMMA RequestInv ==
  ASSUME MissionInv, RowLocks, NEW p \in Requests, NEW c \in LockedCalls, Request(p, c)
  PROVE  OpenSessionHoldsLock' /\ LockedReadIsCurrent' /\ DataInv'
<1>1. /\ lock = NoRequest /\ lock' = p
      /\ row.exists /\ read' = [read EXCEPT ![p] = row]
      /\ call' = [call EXCEPT ![p] = c]
      /\ UNCHANGED <<row, approvals, rejections>>
  BY DEF Request, OpenLocked
<1>2. OpenSessionHoldsLock'
  BY <1>1, RowAssumption DEF MissionInv, TypeOK, OpenSessionHoldsLock
<1>3. LockedReadIsCurrent'
  BY <1>1 DEF MissionInv, TypeOK, LockedReadIsCurrent
<1>4. DataInv'
  BY <1>1 DEF MissionInv, DataInv, RejectionsCounted, FourthRejectionEscalates, MergeGated
<1>5. QED
  BY <1>2, <1>3, <1>4

(* Every step keeps the invariant.                                         *)
LEMMA NextInv ==
  ASSUME RowLocks, "rejection_count" \notin ClientKeys
  PROVE  MissionInv /\ [Next]_vars => MissionInv'
<1> SUFFICES ASSUME MissionInv, [Next]_vars
             PROVE  OpenSessionHoldsLock' /\ LockedReadIsCurrent' /\ DataInv'
  BY NextType DEF MissionInv, DataInv
<1>1. ASSUME NEW p \in Requests, NEW c \in LockedCalls, Request(p, c)
      PROVE  OpenSessionHoldsLock' /\ LockedReadIsCurrent' /\ DataInv'
  BY <1>1, RequestInv
<1>2. ASSUME NEW p \in Requests, call[p] # NoCall, Close(p), DataInv'
      PROVE  OpenSessionHoldsLock' /\ LockedReadIsCurrent' /\ DataInv'
  BY <1>2, CloseFreesLock
<1>3. ASSUME NEW p \in Requests, call[p] # NoCall, Refuse(p)
      PROVE  OpenSessionHoldsLock' /\ LockedReadIsCurrent' /\ DataInv'
  <2>1. DataInv'
    BY <1>3 DEF Refuse, MissionInv, DataInv, RejectionsCounted,
       FourthRejectionEscalates, MergeGated
  <2>2. QED
    BY <1>2, <1>3, <2>1 DEF Refuse
<1>4. ASSUME NEW p \in Requests, Transition(p)
      PROVE  OpenSessionHoldsLock' /\ LockedReadIsCurrent' /\ DataInv'
  <2>1. call[p] # NoCall
    BY <1>4 DEF Transition, NoCall
  <2>2. CASE Refuse(p)
    BY <1>3, <2>1, <2>2
  <2>3. CASE ~Refuse(p)
    <3>1. TransitionAllowed(read[p], call[p].to) /\ Close(p)
      BY <1>4, <2>3 DEF Transition
    <3>2. QED
      BY <1>2, <1>4, <2>1, <3>1, TransitionInv
  <2>4. QED
    BY <2>2, <2>3
<1>5. ASSUME NEW p \in Requests, Reject(p)
      PROVE  OpenSessionHoldsLock' /\ LockedReadIsCurrent' /\ DataInv'
  <2>1. call[p] # NoCall
    BY <1>5 DEF Reject, NoCall
  <2>2. CASE Refuse(p)
    BY <1>3, <2>1, <2>2
  <2>3. CASE ~Refuse(p)
    <3>1. Close(p)
      BY <1>5, <2>3 DEF Reject
    <3>2. QED
      BY <1>2, <1>5, <2>1, <2>3, <3>1, RejectInv
  <2>4. QED
    BY <2>2, <2>3
<1>6. ASSUME NEW p \in Requests, Approve(p)
      PROVE  OpenSessionHoldsLock' /\ LockedReadIsCurrent' /\ DataInv'
  <2>1. call[p] # NoCall /\ Close(p)
    BY <1>6 DEF Approve, NoCall
  <2>2. QED
    BY <1>2, <1>6, <2>1, ApproveInv
<1>7. ASSUME NEW p \in Requests, Update(p)
      PROVE  OpenSessionHoldsLock' /\ LockedReadIsCurrent' /\ DataInv'
  <2>1. call[p] # NoCall
    BY <1>7 DEF Update, NoCall
  <2>2. CASE Refuse(p)
    BY <1>3, <2>1, <2>2
  <2>3. CASE ~Refuse(p)
    BY <1>2, <1>7, <2>1, <2>3, UpdateInv DEF Update
  <2>4. QED
    BY <2>2, <2>3
<1>8. ASSUME NEW p \in Requests, Delete(p)
      PROVE  OpenSessionHoldsLock' /\ LockedReadIsCurrent' /\ DataInv'
  <2>1. ~row'.exists /\ lock' = NoRequest /\ UNCHANGED <<lock, call>>
    BY <1>8 DEF Delete, NewRow
  <2>2. OpenSessionHoldsLock' /\ LockedReadIsCurrent'
    BY <2>1 DEF MissionInv, OpenSessionHoldsLock, LockedReadIsCurrent
  <2>3. DataInv'
    BY <2>1 DEF DataInv, RejectionsCounted, FourthRejectionEscalates, MergeGated
  <2>4. QED
    BY <2>2, <2>3
<1>9. CASE UNCHANGED vars
  BY <1>9 DEF vars, MissionInv, OpenSessionHoldsLock, LockedReadIsCurrent, DataInv,
     RejectionsCounted, FourthRejectionEscalates, MergeGated
<1>10. QED
  BY <1>1, <1>3, <1>4, <1>5, <1>6, <1>7, <1>8, <1>9 DEF Next, MissionStep, Abort

(* The invariant is one.                                                   *)
LEMMA InvHolds ==
  ASSUME RowLocks, "rejection_count" \notin ClientKeys
  PROVE  Spec => []MissionInv
BY InitInv, NextInv, PTL DEF Spec

(* On PostgreSQL a session that holds the row lock decides on the current  *)
(* row.                                                                    *)
THEOREM LockedReadsAreCurrent ==
  ASSUME RowLocks, "rejection_count" \notin ClientKeys
  PROVE  Spec => []LockedReadIsCurrent
<1>1. MissionInv => LockedReadIsCurrent
  BY DEF MissionInv
<1>2. QED
  BY <1>1, InvHolds, PTL

(* On PostgreSQL, with clients that leave the counter alone, no rejection  *)
(* is lost, however many requests race.                                    *)
THEOREM NoRejectionLost ==
  ASSUME RowLocks, "rejection_count" \notin ClientKeys
  PROVE  Spec => []RejectionsCounted
<1>1. MissionInv => RejectionsCounted
  BY DEF MissionInv
<1>2. QED
  BY <1>1, InvHolds, PTL

(* The fourth rejection always escalates.                                  *)
THEOREM FourthRejection ==
  ASSUME RowLocks, "rejection_count" \notin ClientKeys
  PROVE  Spec => []FourthRejectionEscalates
<1>1. MissionInv => FourthRejectionEscalates
  BY DEF MissionInv
<1>2. QED
  BY <1>1, InvHolds, PTL

(* No mission is merged through these endpoints without a merge approval.  *)
THEOREM MergeNeedsApproval ==
  ASSUME RowLocks, "rejection_count" \notin ClientKeys
  PROVE  Spec => []MergeGated
<1>1. MissionInv => MergeGated
  BY DEF MissionInv
<1>2. QED
  BY <1>1, InvHolds, PTL

-----------------------------------------------------------------------------
(* The locked endpoints implement the atomic lifecycle.                    *)

(* The lifecycle moves along the same edges.                               *)
LEMMA SameMachine ==
  /\ Lifecycle!Status = Status
  /\ \A from, to : Lifecycle!CanTransition(from, to) <=> CanTransition(from, to)
  /\ \A n : Lifecycle!ShouldEscalate(n) <=> ShouldEscalate(n)
<1>1. Lifecycle!Status = Status
  BY DEF Lifecycle!Status, Status
<1>2. Lifecycle!AllowedTransitions = AllowedTransitions
  BY DEF Lifecycle!AllowedTransitions, AllowedTransitions, Lifecycle!Status, Status
<1>3. \A from, to : Lifecycle!CanTransition(from, to) <=> CanTransition(from, to)
  BY <1>2 DEF Lifecycle!CanTransition, CanTransition
<1>4. QED
  BY <1>1, <1>3 DEF Lifecycle!ShouldEscalate, ShouldEscalate,
     Lifecycle!EscalationRejectionThreshold, EscalationRejectionThreshold

(* A created mission is an initial state of the lifecycle.                 *)
LEMMA InitMaps == Init => Lifecycle!Init
<1> SUFFICES ASSUME Init
             PROVE  Lifecycle!Init
  OBVIOUS
<1>1. row \in Row /\ row.exists /\ row.status = "created"
        /\ (row.md.planning_complete => "planning_complete" \in ClientKeys)
  BY CreatedRow DEF Init, RowInit
<1>2. row.md.planning_complete \in BOOLEAN
  BY <1>1 DEF Row, Metadata
<1>3. row.md.planning_complete \in {FALSE, "planning_complete" \in ClientKeys}
  BY <1>1, <1>2
<1>4. ("merge" \in approvals) = FALSE
  BY DEF Init, RowInit
<1>5. (IF row.exists THEN row.status ELSE "deleted") = "created"
  BY <1>1
<1>6. rejections = 0
  BY DEF Init
<1>7. QED
  BY <1>3, <1>4, <1>5, <1>6, Zenon DEF Lifecycle!Init

(* POST /transition is a move of the lifecycle, or invisible.              *)
LEMMA TransitionMaps ==
  ASSUME MissionInv, NEW p \in Requests, Transition(p),
         TransitionAllowed(read[p], call[p].to)
  PROVE  Lifecycle!Next
<1> DEFINE to == call[p].to
<1>1. /\ row.exists /\ read[p] = row /\ to \in Status
      /\ row' = [row EXCEPT !.status = to]
      /\ UNCHANGED <<approvals, rejections>>
  BY TransitionEffect
<1>2. row \in Row
  BY DEF MissionInv, TypeOK
<1>3. row'.exists /\ row'.status = to /\ row'.md = row.md
  BY <1>1, <1>2 DEF Row
<1>4. Lifecycle!Move(to)
  BY <1>1, <1>2, <1>3, SameMachine DEF Lifecycle!Move, TransitionAllowed, Row
<1>5. QED
  BY <1>1, <1>4, SameMachine DEF Lifecycle!Next

(* POST /reject is a rejection of the lifecycle, or invisible.             *)
LEMMA RejectMaps ==
  ASSUME MissionInv, NEW p \in Requests, Reject(p), ~Refuse(p)
  PROVE  Lifecycle!Next
<1> DEFINE to     == call[p].to
           target == RejectTarget(rejections + 1, to)
<1>1. /\ row.exists
      /\ to \in {"planning", "escalated"}
      /\ CanTransition(row.status, "rejected")
      /\ row' = Rejected(rejections + 1, target)
      /\ rejections' = rejections + 1
      /\ UNCHANGED approvals
  BY RejectEffect
<1>2. row \in Row /\ rejections + 1 \in Nat /\ row.status \in Status
  BY DEF MissionInv, TypeOK, Row
<1>3. target \in Status
  BY <1>1, RejectTargetType DEF Status
<1>4. /\ row'.exists /\ row'.status = target
      /\ row'.md.planning_complete = row.md.planning_complete
  <2> DEFINE count == rejections + 1
  <2>1. row' = Rejected(count, target) /\ count \in Nat /\ target \in Status
    BY <1>1, <1>2, <1>3
  <2> HIDE DEF target, count
  <2>2. /\ Rejected(count, target).exists = row.exists
        /\ Rejected(count, target).status = target
        /\ Rejected(count, target).md.planning_complete = row.md.planning_complete
    BY <1>2, <2>1, RejectedType
  <2>3. QED
    BY <1>1, <2>1, <2>2
<1>5. target = IF ShouldEscalate(rejections + 1) THEN "escalated" ELSE to
  BY DEF RejectTarget
<1>6. Lifecycle!RejectTo(to)
  <2> HIDE DEF target
  <2> QED
    BY <1>1, <1>2, <1>4, <1>5, SameMachine DEF Lifecycle!RejectTo
<1>7. QED
  BY <1>1, <1>6 DEF Lifecycle!Next

(* POST /approve opens a gate of the lifecycle, or is invisible.           *)
LEMMA ApproveMaps ==
  ASSUME MissionInv, NEW p \in Requests, Approve(p)
  PROVE  Lifecycle!Next
<1>1. /\ row.exists
      /\ call[p].gate \in Gates
      /\ approvals' = approvals \cup {call[p].gate}
      /\ UNCHANGED rejections
  BY ApproveEffect
<1>2. row \in Row
  BY DEF MissionInv, TypeOK
<1>3. CASE call[p].gate = "planning"
  <2>1. row' = [row EXCEPT !.md.planning_complete = TRUE]
    BY <1>3, ApproveEffect
  <2>2. row'.exists /\ row'.status = row.status /\ row'.md.planning_complete = TRUE
    BY <1>1, <1>2, <2>1 DEF Row, Metadata
  <2>3. Lifecycle!SetPlanned(TRUE)
    BY <1>1, <1>2, <1>3, <2>2, SameMachine DEF Lifecycle!SetPlanned, Row
  <2>4. QED
    BY <2>3 DEF Lifecycle!Next
<1>4. CASE call[p].gate = "merge"
  <2>1. row' = row
    BY <1>4, ApproveEffect
  <2>2. Lifecycle!ApproveMerge
    BY <1>1, <1>2, <1>4, <2>1, SameMachine DEF Lifecycle!ApproveMerge, Row
  <2>3. QED
    BY <2>2 DEF Lifecycle!Next
<1>5. QED
  BY <1>1, <1>3, <1>4 DEF Gates

(* PUT sets or clears the planning gate, or is invisible.                  *)
LEMMA UpdateMaps ==
  ASSUME MissionInv, NEW p \in Requests, Update(p), ~Refuse(p),
         "rejection_count" \notin ClientKeys
  PROVE  [Lifecycle!Next]_Lifecycle!lifecycle
<1> DEFINE key   == call[p].key
           value == call[p].value
           md    == Merged(row.md, key, value)
<1>1. /\ row.exists
      /\ row' = [row EXCEPT !.md = md]
      /\ md \in Metadata
      /\ UNCHANGED <<approvals, rejections>>
  BY UpdateEffect
<1>2. row \in Row /\ call[p] \in LockedCalls \cup {NoCall}
  BY DEF MissionInv, TypeOK
<1>3. row'.exists /\ row'.status = row.status /\ row'.md = md
  <2> HIDE DEF md
  <2> QED
    BY <1>1, <1>2 DEF Row
<1>4. CASE key = "planning_complete"
  <2>1. key \in ClientKeys /\ value \in BOOLEAN
    BY <1>2, <1>4, CallArguments DEF Update
  <2>2. md.planning_complete = value
    BY <1>2, <1>4 DEF Merged, MetadataKeys, Row, Metadata
  <2>3. Lifecycle!SetPlanned(value)
    <3> HIDE DEF md, key, value
    <3> QED
      BY <1>1, <1>2, <1>3, <1>4, <2>1, <2>2, SameMachine DEF Lifecycle!SetPlanned, Row
  <2>4. QED
    BY <2>1, <2>3 DEF Lifecycle!Next
<1>5. CASE key # "planning_complete"
  <2>1. md.planning_complete = row.md.planning_complete
    BY <1>2, <1>5 DEF Merged, Row, Metadata
  <2>2. UNCHANGED Lifecycle!lifecycle
    <3> HIDE DEF md
    <3> QED
      BY <1>1, <1>3, <2>1 DEF Lifecycle!lifecycle
  <2>3. QED
    BY <2>2
<1>6. QED
  BY <1>4, <1>5

(* DELETE removes the mission of the lifecycle.                            *)
LEMMA DeleteMaps ==
  ASSUME MissionInv, NEW p \in Requests, Delete(p)
  PROVE  Lifecycle!Next
<1>1. /\ row.exists /\ ~row'.exists
      /\ row'.md.planning_complete = FALSE
      /\ approvals' = {} /\ UNCHANGED rejections
  BY DEF Delete, NewRow, NewMetadata
<1>2. row.status \in Status
  BY DEF MissionInv, TypeOK, Row
<1>3. Lifecycle!Remove
  BY <1>1, <1>2, SameMachine DEF Lifecycle!Remove
<1>4. QED
  BY <1>3 DEF Lifecycle!Next

(* Every step maps to a step of the lifecycle or to none.                  *)
LEMMA StepMaps ==
  ASSUME RowLocks, "rejection_count" \notin ClientKeys
  PROVE  MissionInv /\ [Next]_vars => [Lifecycle!Next]_Lifecycle!lifecycle
<1> SUFFICES ASSUME MissionInv, [Next]_vars
             PROVE  [Lifecycle!Next]_Lifecycle!lifecycle
  OBVIOUS
<1>1. ASSUME UNCHANGED <<row, approvals, rejections>>
      PROVE  UNCHANGED Lifecycle!lifecycle
  BY <1>1 DEF Lifecycle!lifecycle
<1>2. ASSUME NEW p \in Requests, NEW c \in LockedCalls, Request(p, c)
      PROVE  UNCHANGED Lifecycle!lifecycle
  BY <1>1, <1>2 DEF Request
<1>3. ASSUME NEW p \in Requests, Refuse(p)
      PROVE  UNCHANGED Lifecycle!lifecycle
  BY <1>1, <1>3 DEF Refuse
<1>4. ASSUME NEW p \in Requests, Transition(p), ~Refuse(p)
      PROVE  Lifecycle!Next
  <2>1. TransitionAllowed(read[p], call[p].to)
    BY <1>4 DEF Transition
  <2>2. QED
    BY <1>4, <2>1, TransitionMaps
<1>5. ASSUME NEW p \in Requests, Reject(p), ~Refuse(p)
      PROVE  Lifecycle!Next
  BY <1>5, RejectMaps
<1>6. ASSUME NEW p \in Requests, Approve(p)
      PROVE  Lifecycle!Next
  BY <1>6, ApproveMaps
<1>7. ASSUME NEW p \in Requests, Update(p), ~Refuse(p)
      PROVE  [Lifecycle!Next]_Lifecycle!lifecycle
  BY <1>7, UpdateMaps
<1>8. ASSUME NEW p \in Requests, Delete(p)
      PROVE  Lifecycle!Next
  BY <1>8, DeleteMaps
<1>9. CASE UNCHANGED vars
  BY <1>1, <1>9 DEF vars
<1>10. QED
  BY <1>2, <1>3, <1>4, <1>5, <1>6, <1>7, <1>8, <1>9 DEF Next, MissionStep, Abort

(* On PostgreSQL, with clients that leave the counter alone, sessions and  *)
(* locks are invisible: the endpoints behave as the atomic lifecycle.      *)
THEOREM Refinement ==
  ASSUME RowLocks, "rejection_count" \notin ClientKeys
  PROVE  Spec => ImplementsLifecycle
<1>1. Init => Lifecycle!Init
  BY InitMaps
<1>2. MissionInv /\ [Next]_vars => [Lifecycle!Next]_Lifecycle!lifecycle
  BY StepMaps
<1>3. Spec => []MissionInv
  BY InvHolds
<1>4. QED
  BY <1>1, <1>2, <1>3, PTL DEF Spec, ImplementsLifecycle, Lifecycle!Spec

-----------------------------------------------------------------------------
(* The mission endpoints beside the dashboard and the worker.              *)

(* The types of Missions, with the calls of the dashboard added.           *)
ControlTypeOK ==
  /\ row \in Row
  /\ approvals \in SUBSET Gates
  /\ lock \in Requests \cup {NoRequest}
  /\ call \in [Requests -> LockedCalls \cup ControlCalls \cup {NoCall}]
  /\ read \in [Requests -> Row]
  /\ rejections \in Nat

(* The operations of a call of the dashboard and of the worker.            *)
LEMMA ControlCallOps ==
  ASSUME NEW c \in ControlCalls
  PROVE  c.op \in ControlOps \cup {"escalate", "auto_run"}
BY DEF ControlCalls

(* The operations of a call that locks.                                    *)
LEMMA LockedCallOps ==
  ASSUME NEW c \in LockedCalls
  PROVE  c.op \in {"transition", "reject", "approve", "update"}
BY DEF LockedCalls, TransitionCalls, RejectCalls, ApproveCalls, UpdateCalls

(* A handler that locks has been asked by a call that locks, and a handler *)
(* that does not by one of the dashboard's.                                *)
LEMMA CallOfHandler ==
  ASSUME ControlTypeOK, NEW p \in Requests
  PROVE  /\ call[p].op \in {"transition", "reject", "approve", "update"}
              <=> call[p] \in LockedCalls
         /\ call[p].op \in ControlOps \cup {"escalate", "auto_run"}
              <=> call[p] \in ControlCalls
         /\ call[p] \in LockedCalls => call[p] \notin ControlCalls \cup {NoCall}
         /\ call[p] \in ControlCalls => call[p] # NoCall
<1>1. call[p] \in LockedCalls \cup ControlCalls \cup {NoCall}
  BY DEF ControlTypeOK
<1>2. NoCall.op = "none"
  BY DEF NoCall
<1>3. QED
  BY <1>1, <1>2, ControlCallOps, LockedCallOps DEF ControlOps

(* An autonomous run that goes on is still one.                            *)
LEMMA AutoRunCall ==
  ASSUME NEW c \in ControlCalls, c.op = "auto_run", NEW step \in {"branch", "commit", "merge"}
  PROVE  [c EXCEPT !.step = step] \in ControlCalls
<1>1. c \in [op: {"auto_run"}, step: {"branch", "commit", "merge"}]
  BY DEF ControlCalls, ControlOps
<1>2. [c EXCEPT !.step = step] \in [op: {"auto_run"}, step: {"branch", "commit", "merge"}]
  BY <1>1
<1>3. QED
  BY <1>2 DEF ControlCalls

(* Closing a session leaves well-typed sessions.                           *)
LEMMA ControlCloseType ==
  ASSUME ControlTypeOK, NEW p \in Requests, Close(p)
  PROVE  /\ lock' \in Requests \cup {NoRequest}
         /\ call' \in [Requests -> LockedCalls \cup ControlCalls \cup {NoCall}]
         /\ read' \in [Requests -> Row]
BY NewRowType DEF ControlTypeOK, Close

-----------------------------------------------------------------------------
(* What a step of any handler comes to.  A session opens, ends with a      *)
(* write, ends without one, or goes on after one; or the row is deleted.   *)

Opens(p) ==
  /\ call[p] = NoCall
  /\ row.exists
  /\ read' = [read EXCEPT ![p] = row]
  /\ \/ /\ \E c \in LockedCalls : call' = [call EXCEPT ![p] = c]
        /\ RowLocks => lock = NoRequest
        /\ lock' = IF RowLocks THEN p ELSE lock
     \/ /\ \E c \in ControlCalls :
             /\ call' = [call EXCEPT ![p] = c]
             /\ c.op = "auto_run" => c.step = "branch"
        /\ UNCHANGED lock
  /\ UNCHANGED <<row, approvals, rejections>>

(* The request has seen a branch, or is a run that has made one.           *)
RunGoingOn(p) == call[p].op = "auto_run" /\ call[p].step # "branch"
MayMerge(p) == read[p].branch \/ RunGoingOn(p)

(* Every row an unlocked handler derives from its copy has the counter it  *)
(* read and the branch, if it read one, and is merged only with a branch.  *)
Derived(p) ==
  {new \in Row :
     /\ new.md.rejection_count = read[p].md.rejection_count
     /\ read[p].branch => new.branch
     /\ new.status = "merged" => read[p].status = "merged" \/ MayMerge(p)}

EndsUnlocked(p) ==
  /\ call[p] \in ControlCalls
  /\ MayWrite(p)
  /\ \E new \in Derived(p), mark \in BOOLEAN : row' = Flush(p, new, mark)
  /\ Close(p)
  /\ UNCHANGED <<approvals, rejections>>

GoesOn(p) ==
  /\ call[p] \in ControlCalls
  /\ MayWrite(p)
  /\ \E new \in Derived(p), mark \in BOOLEAN :
       /\ row' = Flush(p, new, mark) /\ read' = [read EXCEPT ![p] = new]
       /\ new.branch \/ (RunGoingOn(p) /\ new = read[p])
  /\ \E c \in ControlCalls : call' = [call EXCEPT ![p] = c]
  /\ UNCHANGED <<lock, approvals, rejections>>

EndsLocked(p) ==
  /\ call[p] \in LockedCalls
  /\ Transition(p) \/ Reject(p) \/ Approve(p) \/ Update(p)

(* An unlocked handler writes what it derived from its copy.               *)
LEMMA WriteBackEnds ==
  ASSUME ControlTypeOK, NEW p \in Requests, call[p] \in ControlCalls,
         NEW new \in Derived(p), NEW mark \in BOOLEAN, WriteBack(p, new, mark)
  PROVE  EndsUnlocked(p)
BY DEF WriteBack, EndsUnlocked

(* What the unlocked handlers make of their copy.                          *)
LEMMA DerivedRows ==
  ASSUME ControlTypeOK, NEW p \in Requests
  PROVE  /\ read[p] \in Derived(p)
         /\ [read[p] EXCEPT !.md = read[p].md] \in Derived(p)
         /\ [read[p] EXCEPT !.md = [read[p].md EXCEPT !.review_passed = TRUE]] \in Derived(p)
         /\ \A branch \in {read[p].branch, TRUE} :
              [read[p] EXCEPT !.branch = branch] \in Derived(p)
         /\ [read[p] EXCEPT !.status = "execution",
                            !.md.planning_complete = TRUE] \in Derived(p)
         /\ \A to \in Status : (to = "merged" => MayMerge(p))
              => [read[p] EXCEPT !.status = to] \in Derived(p)
<1>1. read[p] \in Row /\ "execution" \in Status
  BY DEF ControlTypeOK, Status
<1>2. QED
  BY <1>1 DEF Derived, Row, Metadata

(* Each handler of the dashboard and of the worker is one of these.        *)
LEMMA ControlStepIs ==
  ASSUME ControlTypeOK, NEW p \in Requests, ControlStep(p)
  PROVE  \/ Opens(p)
         \/ call[p] \in ControlCalls /\ Refuse(p)
         \/ EndsUnlocked(p)
         \/ GoesOn(p)
<1> DEFINE Goal == \/ Opens(p)
                   \/ call[p] \in ControlCalls /\ Refuse(p)
                   \/ EndsUnlocked(p)
                   \/ GoesOn(p)
<1>1. ASSUME NEW c \in NewCalls(p), Start(p, c) PROVE Goal
  BY <1>1 DEF Start, OpenUnlocked, NewCalls, Opens
<1>2. ASSUME call[p].op \in ControlOps \cup {"escalate", "auto_run"}
      PROVE  call[p] \in ControlCalls
  BY <1>2, CallOfHandler
<1>3. CASE Refine(p) \/ Research(p) \/ CommitChanges(p) \/ Verify(p)
  <2>1. call[p] \in ControlCalls
    BY <1>2, <1>3 DEF Refine, Research, CommitChanges, Verify, ControlOps
  <2>2. WriteBack(p, [read[p] EXCEPT !.md = read[p].md], TRUE)
    BY <1>3 DEF Refine, Research, CommitChanges, Verify, StoreOutcome
  <2>3. QED
    BY <2>1, <2>2, WriteBackEnds, DerivedRows
<1>4. CASE ReviewPlan(p)
  <2>1. call[p] \in ControlCalls
    BY <1>2, <1>4 DEF ReviewPlan, ControlOps
  <2>2. \/ WriteBack(p, [read[p] EXCEPT !.md = read[p].md], TRUE)
        \/ WriteBack(p, [read[p] EXCEPT !.md = [read[p].md EXCEPT !.review_passed = TRUE]],
                     TRUE)
    BY <1>4 DEF ReviewPlan, StoreOutcome
  <2>3. QED
    BY <2>1, <2>2, WriteBackEnds, DerivedRows
<1>5. CASE RecordGit(p)
  <2>1. call[p] \in ControlCalls
    BY <1>2, <1>5 DEF RecordGit, ControlOps
  <2>2. PICK replaced \in BOOLEAN, branch \in {read[p].branch, TRUE} :
          WriteBack(p, [read[p] EXCEPT !.branch = branch], replaced)
    BY <1>5 DEF RecordGit
  <2>3. QED
    BY <2>1, <2>2, WriteBackEnds, DerivedRows
<1>6. CASE StartExecution(p)
  <2>1. call[p] \in ControlCalls
    BY <1>2, <1>6 DEF StartExecution, ControlOps
  <2>2. \/ WriteBack(p, [read[p] EXCEPT !.status = "execution",
                                         !.md.planning_complete = TRUE], TRUE)
        \/ WriteBack(p, [read[p] EXCEPT !.status = "execution"], FALSE)
        \/ Refuse(p)
    BY <1>6 DEF StartExecution
  <2>3. "execution" \in Status
    BY DEF Status
  <2>4. QED
    BY <2>1, <2>2, <2>3, WriteBackEnds, DerivedRows
<1>7. CASE CreateBranch(p)
  <2>1. call[p] \in ControlCalls
    BY <1>2, <1>7 DEF CreateBranch, ControlOps
  <2>2. QED
    BY <1>7, <2>1, WriteBackEnds, DerivedRows DEF CreateBranch
<1>8. CASE MergeBranch(p) \/ AutoRunMerge(p)
  <2>1. call[p] \in ControlCalls
    BY <1>2, <1>8 DEF MergeBranch, AutoRunMerge, ControlOps
  <2>2. WriteBack(p, [read[p] EXCEPT !.status = "merged"], TRUE) \/ Refuse(p)
    BY <1>8 DEF MergeBranch, AutoRunMerge
  <2>3. "merged" \in Status /\ (~Refuse(p) => MayMerge(p))
    BY <1>8 DEF Status, MergeBranch, AutoRunMerge, MayMerge, RunGoingOn
  <2>4. QED
    BY <2>1, <2>2, <2>3, WriteBackEnds, DerivedRows
<1>9. CASE AutoRunBranch(p) \/ AutoRunCommit(p)
  <2>1. call[p] \in ControlCalls /\ call[p].op = "auto_run"
    BY <1>2, <1>9 DEF AutoRunBranch, AutoRunCommit
  <2>2. PICK new \in Derived(p), mark \in BOOLEAN, next \in {"commit", "merge"} :
          /\ AutoRunStep(p, new, mark, next)
          /\ new.branch \/ (RunGoingOn(p) /\ new = read[p])
    <3>1. CASE AutoRunBranch(p)
      <4> DEFINE new == [read[p] EXCEPT !.branch = TRUE]
      <4>1. new \in Derived(p) /\ new.branch
        BY DerivedRows DEF ControlTypeOK, Row
      <4>2. AutoRunStep(p, new, FALSE, "commit")
        BY <3>1 DEF AutoRunBranch
      <4> HIDE DEF new
      <4>3. QED
        BY <4>1, <4>2
    <3>2. CASE AutoRunCommit(p)
      <4>1. read[p] \in Derived(p) /\ RunGoingOn(p)
        BY <3>2, DerivedRows DEF AutoRunCommit, RunGoingOn
      <4>2. QED
        BY <3>2, <4>1 DEF AutoRunCommit
    <3>3. QED
      BY <1>9, <3>1, <3>2
  <2>3. [call[p] EXCEPT !.step = next] \in ControlCalls
    BY <2>1, AutoRunCall
  <2>4. call' = [call EXCEPT ![p] = [call[p] EXCEPT !.step = next]]
    BY <2>2 DEF AutoRunStep
  <2>5. QED
    BY <2>1, <2>2, <2>3, <2>4 DEF AutoRunStep, GoesOn
<1>10. CASE Escalate(p)
  <2>1. call[p] \in ControlCalls
    BY <1>2, <1>10 DEF Escalate
  <2>2. WriteBack(p, [read[p] EXCEPT !.status = "escalated"], FALSE) \/ Refuse(p)
    BY <1>10 DEF Escalate
  <2>3. "escalated" \in Status
    BY DEF Status
  <2>4. QED
    BY <2>1, <2>2, <2>3, WriteBackEnds, DerivedRows
<1>11. QED
  BY <1>1, <1>3, <1>4, <1>5, <1>6, <1>7, <1>8, <1>9, <1>10 DEF ControlStep

(* And so is each handler that locks, or deletes.                          *)
LEMMA ApiStepIs ==
  ASSUME ControlTypeOK, NEW p \in Requests, ApiStep(p)
  PROVE  \/ Opens(p)
         \/ call[p] # NoCall /\ Refuse(p)
         \/ EndsLocked(p)
         \/ Delete(p)
<1>1. ASSUME NEW c \in LockedCalls, Request(p, c)
      PROVE  Opens(p)
  BY <1>1 DEF Request, OpenLocked, Opens
<1>2. CASE Transition(p) \/ Reject(p) \/ Approve(p) \/ Update(p)
  <2>1. call[p] \in LockedCalls
    BY <1>2, CallOfHandler DEF Transition, Reject, Approve, Update
  <2>2. QED
    BY <1>2, <2>1 DEF EndsLocked
<1>3. QED
  BY <1>1, <1>2 DEF ApiStep, Abort

(* What a step of a request comes to.                                      *)
StepKind(p) ==
  \/ Opens(p)
  \/ call[p] # NoCall /\ Refuse(p)
  \/ EndsUnlocked(p)
  \/ GoesOn(p)
  \/ EndsLocked(p)
  \/ Delete(p)

(* Every step is one of these.                                             *)
LEMMA ControlNextIs ==
  ASSUME ControlTypeOK, ControlNext
  PROVE  \E p \in Requests : StepKind(p)
<1>1. PICK p \in Requests : ControlStep(p) \/ ApiStep(p)
  BY DEF ControlNext
<1>2. call[p] \in ControlCalls => call[p] # NoCall
  BY CallOfHandler
<1>3. QED
  BY <1>1, <1>2, ControlStepIs, ApiStepIs DEF StepKind

-----------------------------------------------------------------------------
(* What a handler that locks writes: a row with the counter it read, one   *)
(* more for a rejection that is answered with success, or a counter a      *)
(* client reset; with the branch it read; and with the status it read, or  *)
(* one it may change it to.                                                *)
Writes(p, new, mark) ==
  /\ MayWrite(p)
  /\ row' = Flush(p, new, mark)
  /\ Close(p)
  /\ \/ /\ new.md.rejection_count <= read[p].md.rejection_count
        /\ UNCHANGED rejections
     \/ /\ new.md.rejection_count = read[p].md.rejection_count + 1
        /\ rejections' = IF row.exists THEN rejections + 1 ELSE rejections
  /\ \/ new.status = read[p].status
     \/ /\ LegalChange(read[p].status, new.status)
        /\ new.status = "execution" => read[p].md.planning_complete
        /\ new.status = "merged" => "merge" \in approvals
  /\ new.branch = read[p].branch
  /\ approvals' \in SUBSET Gates /\ approvals \subseteq approvals'

(* POST /transition writes a status its gates allow.                       *)
LEMMA TransitionWrites ==
  ASSUME ControlTypeOK, NEW p \in Requests, call[p] \in LockedCalls, Transition(p), ~Refuse(p)
  PROVE  \E new \in Row, mark \in BOOLEAN : Writes(p, new, mark)
<1> DEFINE to  == call[p].to
           new == [read[p] EXCEPT !.status = to]
<1>1. TransitionAllowed(read[p], to)
  BY DEF Transition
<1>2. PICK reason \in BOOLEAN : row' = Flush(p, new, reason \/ to = "planning")
  BY <1>1 DEF Transition
<1>3. to \in Status
  BY CallArguments DEF Transition
<1>4. /\ new \in Row /\ new.status = to /\ new.branch = read[p].branch
      /\ new.md.rejection_count <= read[p].md.rejection_count
  BY <1>3 DEF ControlTypeOK, Row, Metadata
<1>5. \/ new.status = read[p].status
      \/ /\ LegalChange(read[p].status, new.status)
         /\ new.status = "execution" => read[p].md.planning_complete
         /\ new.status = "merged" => "merge" \in approvals
  BY <1>1, <1>4 DEF TransitionAllowed, LegalChange
<1>6. MayWrite(p) /\ Close(p) /\ UNCHANGED <<approvals, rejections>>
  BY <1>1 DEF Transition
<1> HIDE DEF new
<1>7. Writes(p, new, reason \/ to = "planning")
  BY <1>2, <1>4, <1>5, <1>6 DEF Writes, ControlTypeOK
<1>8. QED
  BY <1>4, <1>7

(* POST /reject writes one more rejection.                                 *)
LEMMA RejectWrites ==
  ASSUME ControlTypeOK, NEW p \in Requests, call[p] \in LockedCalls, Reject(p), ~Refuse(p)
  PROVE  \E new \in Row, mark \in BOOLEAN : Writes(p, new, mark)
<1> DEFINE count  == read[p].md.rejection_count + 1
           target == RejectTarget(count, call[p].to)
           new    == [read[p] EXCEPT !.status = target, !.md.rejection_count = count]
<1>1. /\ CanTransition(read[p].status, "rejected")
      /\ CanTransition("rejected", target)
      /\ row' = Flush(p, new, TRUE)
      /\ rejections' = IF row.exists THEN rejections + 1 ELSE rejections
      /\ MayWrite(p) /\ Close(p) /\ UNCHANGED approvals
  BY DEF Reject
<1>2. target \in {"planning", "escalated"}
  BY CallArguments, RejectTargetType DEF Reject
<1>3. count \in Nat /\ target \in Status
  BY <1>2 DEF ControlTypeOK, Row, Metadata, Status
<1>4. /\ new \in Row /\ new.status = target /\ new.branch = read[p].branch
      /\ new.md.rejection_count = count
  <2> HIDE DEF count, target
  <2> QED
    BY <1>3 DEF ControlTypeOK, Row, Metadata
<1>5. LegalChange(read[p].status, target) /\ target # "execution" /\ target # "merged"
  BY <1>1, <1>2 DEF LegalChange
<1>6. Writes(p, new, TRUE)
  <2> HIDE DEF target, new
  <2> QED
    BY <1>1, <1>4, <1>5 DEF Writes, ControlTypeOK
<1>7. QED
  BY <1>4, <1>6

(* POST /approve keeps the status and the counter.                         *)
LEMMA ApproveWrites ==
  ASSUME ControlTypeOK, NEW p \in Requests, call[p] \in LockedCalls, Approve(p)
  PROVE  \E new \in Row, mark \in BOOLEAN : Writes(p, new, mark)
<1> DEFINE new == IF call[p].gate = "planning"
                    THEN [read[p] EXCEPT !.md.planning_complete = TRUE] ELSE read[p]
<1>1. /\ new \in Row /\ new.status = read[p].status /\ new.branch = read[p].branch
      /\ new.md.rejection_count <= read[p].md.rejection_count
  <2>1. /\ read[p] \in Row /\ read[p].md \in Metadata
        /\ read[p].md.rejection_count <= read[p].md.rejection_count
    BY DEF ControlTypeOK, Row, Metadata
  <2>2. CASE call[p].gate = "planning"
    BY <2>1, <2>2 DEF Row, Metadata
  <2>3. CASE call[p].gate # "planning"
    BY <2>1, <2>3
  <2>4. QED
    BY <2>2, <2>3
<1>2. row' = Flush(p, new, FALSE)
  BY DEF Approve, Flush, ControlTypeOK, Row
<1>3. approvals' \in SUBSET Gates /\ approvals \subseteq approvals'
  BY CallArguments DEF Approve, ControlTypeOK
<1>4. Writes(p, new, FALSE)
  <2> HIDE DEF new
  <2> QED
    BY <1>1, <1>2, <1>3 DEF Approve, Writes
<1>5. QED
  BY <1>1, <1>4

(* PUT keeps the status, and the counter or resets it.                     *)
LEMMA UpdateWrites ==
  ASSUME ControlTypeOK, NEW p \in Requests, call[p] \in LockedCalls, Update(p), ~Refuse(p)
  PROVE  \E new \in Row, mark \in BOOLEAN : Writes(p, new, mark)
<1> DEFINE md  == Merged(read[p].md, call[p].key, call[p].value)
           new == [read[p] EXCEPT !.md = md]
<1>1. md \in Metadata
  BY MergedType DEF Update, ControlTypeOK, Row
<1>2. md.rejection_count <= read[p].md.rejection_count
  <2>1. read[p].md \in Metadata /\ read[p].md.rejection_count \in Nat
    BY DEF ControlTypeOK, Row, Metadata
  <2>2. CASE call[p].key = "rejection_count"
    <3>1. call[p].value = 0
      BY <2>2, CallArguments DEF Update
    <3>2. QED
      BY <2>1, <2>2, <3>1 DEF Merged, Metadata, MetadataKeys
  <2>3. CASE call[p].key # "rejection_count"
    BY <2>1, <2>3 DEF Merged, Metadata
  <2>4. QED
    BY <2>2, <2>3
<1>3. /\ new \in Row /\ new.status = read[p].status /\ new.md = md
      /\ new.branch = read[p].branch
  <2> HIDE DEF md
  <2> QED
    BY <1>1 DEF ControlTypeOK, Row
<1>4. PICK mark \in BOOLEAN : row' = Flush(p, new, mark)
  BY DEF Update
<1>5. Writes(p, new, mark)
  <2> HIDE DEF new, md
  <2> QED
    BY <1>2, <1>3, <1>4 DEF Update, Writes, ControlTypeOK
<1>6. QED
  BY <1>3, <1>5

(* What the end of a session that locked comes to.                         *)
LEMMA EndsLockedIs ==
  ASSUME ControlTypeOK, NEW p \in Requests, EndsLocked(p)
  PROVE  Refuse(p) \/ \E new \in Row, mark \in BOOLEAN : Writes(p, new, mark)
BY TransitionWrites, RejectWrites, ApproveWrites, UpdateWrites DEF EndsLocked

-----------------------------------------------------------------------------
(* Every step keeps the types.                                             *)
LEMMA ControlNextType == ControlTypeOK /\ [ControlNext]_vars => ControlTypeOK'
<1> SUFFICES ASSUME ControlTypeOK, [ControlNext]_vars
             PROVE  ControlTypeOK'
  OBVIOUS
<1>1. CASE UNCHANGED vars
  BY <1>1 DEF vars, ControlTypeOK
<1>2. ASSUME NEW p \in Requests, StepKind(p)
      PROVE  ControlTypeOK'
  <2>1. CASE Opens(p)
    BY <2>1 DEF Opens, ControlTypeOK
  <2>2. ASSUME Refuse(p)
        PROVE  ControlTypeOK'
    BY <2>2, ControlCloseType DEF Refuse, ControlTypeOK
  <2>3. CASE EndsUnlocked(p)
    <3>1. row' \in Row
      BY <2>3, FlushType DEF EndsUnlocked, Derived, ControlTypeOK
    <3>2. QED
      BY <2>3, <3>1, ControlCloseType DEF EndsUnlocked, ControlTypeOK
  <2>4. CASE GoesOn(p)
    <3>1. row' \in Row
      BY <2>4, FlushType DEF GoesOn, Derived, ControlTypeOK
    <3>2. QED
      BY <2>4, <3>1 DEF GoesOn, Derived, ControlTypeOK
  <2>5. ASSUME NEW new \in Row, NEW mark \in BOOLEAN, Writes(p, new, mark)
        PROVE  ControlTypeOK'
    <3>1. row' \in Row
      BY <2>5, FlushType DEF Writes, ControlTypeOK
    <3>2. QED
      BY <2>5, <3>1, ControlCloseType DEF Writes, ControlTypeOK
  <2>6. CASE EndsLocked(p)
    BY <2>2, <2>5, <2>6, EndsLockedIs
  <2>7. CASE Delete(p)
    BY <2>7, NewRowType DEF Delete, ControlTypeOK, Row
  <2>8. QED
    BY <1>2, <2>1, <2>2, <2>3, <2>4, <2>6, <2>7 DEF StepKind
<1>3. QED
  BY <1>1, <1>2, ControlNextIs

(* The initial states are well typed.                                      *)
LEMMA ControlInitType == Init => ControlTypeOK
BY NewRowType, CreatedRow DEF Init, RowInit, ControlTypeOK

-----------------------------------------------------------------------------
(* Writers that never lock do not invent rejections.                       *)

(* No copy of the row, in the table or in a session, counts more           *)
(* rejections than were answered.                                          *)
CountInv ==
  /\ ControlTypeOK
  /\ NeverOverCounted
  /\ \A p \in Requests : read[p].md.rejection_count <= rejections

(* A flush writes the counter of one of two rows.                          *)
LEMMA FlushCount ==
  ASSUME ControlTypeOK, NEW p \in Requests, NEW new \in Row, NEW mark \in BOOLEAN,
         NEW n \in Nat, row.md.rejection_count <= n,
         row.exists => new.md.rejection_count <= n
  PROVE  Flush(p, new, mark).md.rejection_count <= n
<1>1. Flush(p, new, mark).md = row.md \/ (row.exists /\ Flush(p, new, mark).md = new.md)
  BY DEF Flush, ControlTypeOK, Row
<1>2. QED
  BY <1>1

(* A closed session counts nothing.                                        *)
LEMMA CloseCount ==
  ASSUME CountInv, NEW p \in Requests, Close(p), NEW n \in Nat, rejections <= n
  PROVE  \A q \in Requests : read'[q].md.rejection_count <= n
<1>1. NewRow.md.rejection_count = 0
  BY DEF NewRow, NewMetadata
<1>2. \A q \in Requests : read[q].md.rejection_count \in Nat
  BY DEF CountInv, ControlTypeOK, Row, Metadata
<1>3. QED
  BY <1>1, <1>2 DEF CountInv, ControlTypeOK, Close

(* Every step keeps the invariant.                                         *)
LEMMA NextCount == CountInv /\ [ControlNext]_vars => CountInv'
<1> SUFFICES ASSUME CountInv, [ControlNext]_vars
             PROVE  CountInv'
  OBVIOUS
<1>1. ControlTypeOK /\ ControlTypeOK'
  BY ControlNextType DEF CountInv
<1>2. /\ rejections \in Nat /\ row.md.rejection_count \in Nat
      /\ \A p \in Requests : read[p].md.rejection_count \in Nat
  BY <1>1 DEF ControlTypeOK, Row, Metadata
<1>3. CASE UNCHANGED vars
  BY <1>1, <1>3 DEF vars, CountInv, NeverOverCounted
<1>4. ASSUME NEW p \in Requests, StepKind(p)
      PROVE  CountInv'
  <2>1. CASE Opens(p)
    BY <1>1, <2>1 DEF Opens, CountInv, NeverOverCounted, ControlTypeOK
  <2>2. ASSUME Refuse(p)
        PROVE  CountInv'
    BY <1>1, <1>2, <2>2, CloseCount DEF Refuse, CountInv, NeverOverCounted
  <2>3. CASE EndsUnlocked(p)
    <3>1. PICK new \in Derived(p), mark \in BOOLEAN : row' = Flush(p, new, mark)
      BY <2>3 DEF EndsUnlocked
    <3>2. row'.md.rejection_count <= rejections
      BY <1>1, <1>2, <3>1, FlushCount DEF Derived, CountInv, NeverOverCounted
    <3>3. QED
      BY <1>1, <1>2, <2>3, <3>2, CloseCount DEF EndsUnlocked, CountInv, NeverOverCounted
  <2>4. CASE GoesOn(p)
    <3>1. PICK new \in Derived(p), mark \in BOOLEAN :
            row' = Flush(p, new, mark) /\ read' = [read EXCEPT ![p] = new]
      BY <2>4 DEF GoesOn
    <3>2. row'.md.rejection_count <= rejections
      BY <1>1, <1>2, <3>1, FlushCount DEF Derived, CountInv, NeverOverCounted
    <3>3. \A q \in Requests : read'[q].md.rejection_count <= rejections
      BY <1>1, <3>1 DEF Derived, CountInv, ControlTypeOK
    <3>4. QED
      BY <1>1, <2>4, <3>2, <3>3 DEF GoesOn, CountInv, NeverOverCounted
  <2>5. ASSUME NEW new \in Row, NEW mark \in BOOLEAN, Writes(p, new, mark)
        PROVE  CountInv'
    <3>1. rejections' \in Nat /\ rejections <= rejections'
      BY <1>2, <2>5 DEF Writes
    <3>2. new.md.rejection_count \in Nat
      BY DEF Row, Metadata
    <3>3. row.exists => new.md.rejection_count <= rejections'
      BY <1>2, <2>5, <3>2 DEF Writes, CountInv
    <3>4. row.md.rejection_count <= rejections'
      BY <1>2, <3>1 DEF CountInv, NeverOverCounted
    <3>5. row'.md.rejection_count <= rejections'
      BY <1>1, <2>5, <3>1, <3>3, <3>4, FlushCount DEF Writes
    <3>6. \A q \in Requests : read'[q].md.rejection_count <= rejections'
      BY <2>5, <3>1, CloseCount DEF Writes
    <3>7. QED
      BY <1>1, <3>5, <3>6 DEF CountInv, NeverOverCounted
  <2>6. CASE EndsLocked(p)
    BY <1>1, <2>2, <2>5, <2>6, EndsLockedIs
  <2>7. CASE Delete(p)
    BY <1>1, <1>2, <2>7 DEF Delete, CountInv, NeverOverCounted, NewRow, NewMetadata
  <2>8. QED
    BY <1>4, <2>1, <2>2, <2>3, <2>4, <2>6, <2>7 DEF StepKind
<1>5. QED
  BY <1>1, <1>3, <1>4, ControlNextIs

(* Nothing has been counted when the mission is created.                   *)
LEMMA InitCount == Init => CountInv
BY ControlInitType, CreatedRow
   DEF Init, RowInit, CountInv, NeverOverCounted, NewRow, NewMetadata

(* With or without row locks, whatever writes race, the counter is at most *)
(* the rejections answered.                                                *)
THEOREM RejectionsNeverInvented == ControlSpec => []NeverOverCounted
<1>1. CountInv => NeverOverCounted
  BY DEF CountInv
<1>2. QED
  BY <1>1, InitCount, NextCount, PTL DEF ControlSpec

-----------------------------------------------------------------------------
(* Merged for a cause.                                                     *)

(* What a session knows of the branch: a copy that has one was not the     *)
(* last to have it, and a run has made one before it goes on.              *)
CauseInv ==
  /\ ControlTypeOK
  /\ MergedForCause
  /\ \A p \in Requests : row.exists /\ read[p].branch => row.branch
  /\ \A p \in Requests : RunGoingOn(p) => read[p].branch

(* A flush leaves the branch recorded in the table, and records a new one. *)
LEMMA FlushBranch ==
  ASSUME CauseInv, NEW p \in Requests, NEW new \in Row, NEW mark \in BOOLEAN,
         read[p].branch => new.branch
  PROVE  LET flushed == Flush(p, new, mark)
         IN  /\ flushed.exists = row.exists
             /\ row.exists /\ (row.branch \/ new.branch) => flushed.branch
             /\ row.exists => flushed.status \in {row.status, new.status}
             /\ flushed.status # row.status => new.status # read[p].status
BY DEF CauseInv, ControlTypeOK, Row, Flush

(* A step that ends a session, or takes one further, keeps the invariant   *)
(* when it merges for a cause and keeps the approvals.                     *)
LEMMA FlushCause ==
  ASSUME CauseInv, ControlTypeOK', NEW p \in Requests, NEW new \in Row, NEW mark \in BOOLEAN,
         read[p].branch => new.branch, row' = Flush(p, new, mark),
         approvals \subseteq approvals',
         new.status = "merged" =>
           read[p].status = "merged" \/ read[p].branch \/ "merge" \in approvals,
         \/ Close(p)
         \/ /\ read' = [read EXCEPT ![p] = new] /\ new.branch
            /\ \E c : call' = [call EXCEPT ![p] = c]
  PROVE  CauseInv'
<1>1. /\ row'.exists = row.exists
      /\ row.exists /\ (row.branch \/ new.branch) => row'.branch
      /\ row.exists => row'.status \in {row.status, new.status}
      /\ row'.status # row.status => new.status # read[p].status
  BY FlushBranch
<1>2. MergedForCause'
  BY <1>1 DEF CauseInv, MergedForCause
<1>3. NewRow.branch = FALSE /\ NoCall.op # "auto_run"
  BY DEF NewRow, NoCall
<1>4. \A q \in Requests : row'.exists /\ read'[q].branch => row'.branch
  BY <1>1, <1>3 DEF CauseInv, ControlTypeOK, Close
<1>5. \A q \in Requests : RunGoingOn(q)' => read'[q].branch
  BY <1>3 DEF CauseInv, ControlTypeOK, Close, RunGoingOn
<1>6. QED
  BY <1>2, <1>4, <1>5 DEF CauseInv

(* Every step keeps the invariant.                                         *)
LEMMA NextCause == CauseInv /\ [ControlNext]_vars => CauseInv'
<1> SUFFICES ASSUME CauseInv, [ControlNext]_vars
             PROVE  CauseInv'
  OBVIOUS
<1>1. ControlTypeOK /\ ControlTypeOK'
  BY ControlNextType DEF CauseInv
<1>2. NewRow.branch = FALSE /\ NoCall.op # "auto_run"
  BY DEF NewRow, NoCall
<1>3. CASE UNCHANGED vars
  BY <1>1, <1>3 DEF vars, CauseInv, MergedForCause, RunGoingOn
<1>4. ASSUME NEW p \in Requests, StepKind(p)
      PROVE  CauseInv'
  <2>1. CASE Opens(p)
    <3>1. RunGoingOn(p)' = FALSE
      BY <1>1, <2>1, LockedCallOps DEF Opens, ControlTypeOK, RunGoingOn
    <3>2. \A q \in Requests \ {p} : call'[q] = call[q] /\ read'[q] = read[q]
      BY <1>1, <2>1 DEF Opens, ControlTypeOK
    <3>3. read'[p] = row /\ UNCHANGED <<row, approvals>>
      BY <1>1, <2>1 DEF Opens, ControlTypeOK
    <3>4. QED
      BY <1>1, <3>1, <3>2, <3>3 DEF CauseInv, MergedForCause, RunGoingOn
  <2>2. ASSUME Refuse(p)
        PROVE  CauseInv'
    BY <1>1, <1>2, <2>2
    DEF Refuse, Close, CauseInv, MergedForCause, ControlTypeOK, RunGoingOn
  <2>3. CASE EndsUnlocked(p)
    <3>1. PICK new \in Derived(p), mark \in BOOLEAN : row' = Flush(p, new, mark)
      BY <2>3 DEF EndsUnlocked
    <3>2. /\ new \in Row /\ (read[p].branch => new.branch)
          /\ new.status = "merged" => read[p].status = "merged" \/ read[p].branch
      BY DEF Derived, MayMerge, CauseInv
    <3>3. QED
      BY <1>1, <2>3, <3>1, <3>2, FlushCause DEF EndsUnlocked
  <2>4. CASE GoesOn(p)
    <3>1. PICK new \in Derived(p), mark \in BOOLEAN :
            /\ row' = Flush(p, new, mark) /\ read' = [read EXCEPT ![p] = new]
            /\ new.branch \/ (RunGoingOn(p) /\ new = read[p])
      BY <2>4 DEF GoesOn
    <3>2. /\ new \in Row /\ (read[p].branch => new.branch) /\ new.branch
          /\ new.status = "merged" => read[p].status = "merged" \/ read[p].branch
      BY <3>1 DEF Derived, MayMerge, CauseInv
    <3>3. UNCHANGED approvals /\ \E c : call' = [call EXCEPT ![p] = c]
      BY <2>4 DEF GoesOn
    <3>4. QED
      BY <1>1, <3>1, <3>2, <3>3, FlushCause
  <2>5. ASSUME NEW new \in Row, NEW mark \in BOOLEAN, Writes(p, new, mark)
        PROVE  CauseInv'
    <3>1. /\ row' = Flush(p, new, mark) /\ Close(p) /\ new.branch = read[p].branch
          /\ approvals \subseteq approvals'
          /\ new.status = "merged" => read[p].status = "merged" \/ "merge" \in approvals
      BY <2>5 DEF Writes
    <3>2. QED
      BY <1>1, <3>1, FlushCause
  <2>6. CASE EndsLocked(p)
    BY <1>1, <2>2, <2>5, <2>6, EndsLockedIs
  <2>7. CASE Delete(p)
    BY <1>1, <1>2, <2>7 DEF Delete, CauseInv, MergedForCause, RunGoingOn, NewRow
  <2>8. QED
    BY <1>4, <2>1, <2>2, <2>3, <2>4, <2>6, <2>7 DEF StepKind
<1>5. QED
  BY <1>1, <1>3, <1>4, ControlNextIs

(* A mission is created without a branch and not merged.                   *)
LEMMA InitCause == Init => CauseInv
<1> SUFFICES ASSUME Init PROVE CauseInv
  OBVIOUS
<1>1. row.status = "created"
  BY CreatedRow DEF Init, RowInit, NewRow
<1>2. NewRow.branch = FALSE /\ NoCall.op # "auto_run"
  BY DEF NewRow, NoCall
<1>3. QED
  BY <1>1, <1>2, ControlInitType DEF Init, RowInit, CauseInv, MergedForCause, RunGoingOn

(* With or without row locks, no lost update and no order of the endpoints *)
(* leaves a mission merged that has neither a branch nor an approval.      *)
THEOREM MergesHaveACause == ControlSpec => []MergedForCause
<1>1. CauseInv => MergedForCause
  BY DEF CauseInv
<1>2. QED
  BY <1>1, InitCause, NextCause, PTL DEF ControlSpec

-----------------------------------------------------------------------------
(* What the lock is worth beside writers that do not take it.              *)

(* The holder of the lock is a session that asked for it, and has read the *)
(* row as it is.                                                           *)
LockInv ==
  /\ ControlTypeOK
  /\ \A p \in Requests : call[p] \in LockedCalls => lock = p
  /\ lock # NoRequest => call[lock] \in LockedCalls
  /\ LockedReadIsCurrent

(* Every step keeps the invariant: who does not hold the lock waits with   *)
(* its write until the holder is gone.                                     *)
LEMMA NextLock ==
  ASSUME RowLocks
  PROVE  LockInv /\ [ControlNext]_vars => LockInv'
<1> SUFFICES ASSUME LockInv, [ControlNext]_vars
             PROVE  LockInv'
  OBVIOUS
<1>1. ControlTypeOK /\ ControlTypeOK'
  BY ControlNextType DEF LockInv
<1>2. NoCall \notin LockedCalls /\ \A c \in ControlCalls : c \notin LockedCalls
  <2>1. NoCall.op = "none"
    BY DEF NoCall
  <2>2. QED
    BY <2>1, LockedCallOps, ControlCallOps DEF ControlOps
<1>3. CASE UNCHANGED vars
  BY <1>1, <1>3 DEF vars, LockInv, LockedReadIsCurrent
<1>4. ASSUME NEW p \in Requests, StepKind(p)
      PROVE  LockInv'
  <2>1. CASE Opens(p)
    <3>1. lock # p
      BY <1>2, <2>1, RowAssumption DEF Opens, LockInv
    <3>2. QED
      BY <1>1, <1>2, <2>1, <3>1, RowAssumption
         DEF Opens, LockInv, LockedReadIsCurrent, ControlTypeOK
  <2>2. ASSUME Close(p), row' = row \/ MayWrite(p)
        PROVE  LockInv'
    <3>1. call' = [call EXCEPT ![p] = NoCall] /\ lock' = IF lock = p THEN NoRequest ELSE lock
      BY <2>2 DEF Close
    <3>2. \A q \in Requests : call'[q] \in LockedCalls => lock' = q
      BY <1>1, <1>2, <3>1 DEF LockInv, ControlTypeOK
    <3>3. lock' # NoRequest => lock' = lock /\ lock # p /\ row' = row
      BY <2>2, <3>1 DEF MayWrite
    <3>4. lock' # NoRequest => call'[lock'] \in LockedCalls /\ read'[lock'] = read[lock']
      BY <1>1, <2>2, <3>1, <3>3 DEF LockInv, ControlTypeOK, Close
    <3>5. QED
      BY <1>1, <3>2, <3>3, <3>4 DEF LockInv, LockedReadIsCurrent
  <2>3. CASE GoesOn(p)
    <3>1. lock = NoRequest /\ lock' = lock
      BY <1>2, <2>3 DEF GoesOn, LockInv, MayWrite
    <3>2. \A q \in Requests : call'[q] \notin LockedCalls
      BY <1>1, <1>2, <2>3, <3>1, RowAssumption DEF GoesOn, LockInv, ControlTypeOK
    <3>3. QED
      BY <1>1, <3>1, <3>2 DEF LockInv, LockedReadIsCurrent
  <2>4. CASE EndsLocked(p)
    BY <1>1, <2>2, <2>4, EndsLockedIs DEF Refuse, Writes
  <2>5. CASE Delete(p)
    BY <1>1, <2>5 DEF Delete, LockInv, LockedReadIsCurrent
  <2>6. QED
    BY <1>4, <2>1, <2>2, <2>3, <2>4, <2>5 DEF StepKind, Refuse, EndsUnlocked
<1>5. QED
  BY <1>1, <1>3, <1>4, ControlNextIs

(* Nobody holds the lock when the mission is created.                      *)
LEMMA InitLock == Init => LockInv
<1>1. NoCall \notin LockedCalls
  <2>1. NoCall.op = "none"
    BY DEF NoCall
  <2>2. QED
    BY <2>1, LockedCallOps
<1>2. QED
  BY <1>1, ControlInitType DEF Init, RowInit, LockInv, LockedReadIsCurrent

(* On PostgreSQL the session that holds the row lock decides on the row as *)
(* it is, although the dashboard and the worker write without it.          *)
THEOREM LockedReadsStayCurrent ==
  ASSUME RowLocks
  PROVE  ControlSpec => []LockedReadIsCurrent
<1>1. LockInv => LockedReadIsCurrent
  BY DEF LockInv
<1>2. QED
  BY <1>1, InitLock, NextLock, PTL DEF ControlSpec

(* A write of the holder that changes the status is one the state machine  *)
(* and the gates allow.                                                    *)
LEMMA LockedStep ==
  ASSUME RowLocks, LockInv, [ControlNext]_vars, lock # NoRequest, row'.status # row.status
  PROVE  /\ call'[lock] = NoCall
         /\ LegalChange(row.status, row'.status)
         /\ row'.status = "execution" => row.md.planning_complete
         /\ row'.status = "merged" => "merge" \in approvals
<1>1. ControlTypeOK /\ lock \in Requests /\ row.exists /\ read[lock] = row
  BY DEF LockInv, LockedReadIsCurrent, ControlTypeOK
<1>2. \A c \in ControlCalls : c \notin LockedCalls
  BY LockedCallOps, ControlCallOps DEF ControlOps
<1>3. PICK p \in Requests : StepKind(p)
  BY <1>1, ControlNextIs DEF vars
<1>4. ~Opens(p) /\ ~Refuse(p)
  BY DEF Opens, Refuse
<1>5. ~EndsUnlocked(p) /\ ~GoesOn(p)
  BY <1>2 DEF EndsUnlocked, GoesOn, MayWrite, LockInv
<1>6. ~Delete(p)
  BY DEF Delete
<1>7. EndsLocked(p)
  BY <1>3, <1>4, <1>5, <1>6 DEF StepKind
<1>8. PICK new \in Row, mark \in BOOLEAN : Writes(p, new, mark)
  BY <1>1, <1>4, <1>7, EndsLockedIs
<1>9. p = lock
  BY <1>8 DEF Writes, MayWrite
<1>10. row'.status = new.status /\ new.status # row.status
  BY <1>1, <1>8, <1>9 DEF Writes, Flush, ControlTypeOK, Row
<1>11. call'[lock] = NoCall
  BY <1>1, <1>8, <1>9 DEF Writes, Close, ControlTypeOK
<1>12. QED
  BY <1>1, <1>8, <1>9, <1>10, <1>11 DEF Writes

(* While a locked session decides, the status moves only by its own legal  *)
(* write, whatever the endpoints that do not lock are doing.               *)
THEOREM LockedChangesAreLegal ==
  ASSUME RowLocks
  PROVE  ControlSpec => LockedChangeIsLegal
<1>1. LockInv /\ [ControlNext]_vars =>
        [lock # NoRequest /\ row'.status # row.status
         => /\ call'[lock] = NoCall
            /\ LegalChange(row.status, row'.status)
            /\ row'.status = "execution" => row.md.planning_complete
            /\ row'.status = "merged" => "merge" \in approvals]_vars
  BY LockedStep
<1>2. QED
  BY <1>1, InitLock, NextLock, PTL DEF ControlSpec, LockedChangeIsLegal

=============================================================================
