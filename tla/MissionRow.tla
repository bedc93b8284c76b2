----------------------------- MODULE MissionRow -----------------------------
(***************************************************************************)
(* One row of the missions table and the database sessions of the requests *)
(* that work on it.  A handler opens a session, reads the row, decides, and *)
(* writes at commit; this module has the steps every handler is made of:   *)
(* opening with or without SELECT ... FOR UPDATE, the flush at commit, and  *)
(* closing.  The modules Missions and Control build the endpoints of them. *)
(***************************************************************************)
EXTENDS StateMachine

CONSTANTS
  Requests,       \* HTTP requests, or worker threads, that work on the mission
  NoRequest,      \* value of lock when no session holds the row lock
  RowLocks        \* TRUE on PostgreSQL; FALSE on SQLite, where FOR UPDATE is a no-op

ASSUME RowAssumption ==
  /\ NoRequest \notin Requests
  /\ RowLocks \in BOOLEAN

VARIABLES
  row,            \* the committed mission row
  approvals,      \* gates for which an approvals row with decision approve exists
  lock,           \* the request that holds the row lock, or NoRequest
  call,           \* call[p]: what request p was asked, or NoCall
  read            \* read[p]: the row as p's session loaded it

rowVars == <<row, approvals, lock, call, read>>

Gates == {"planning", "merge"}

(* The keys of the metadata blob that some guard reads back.  The other    *)
(* keys (histories, git details, audit_passed) are written with the blob   *)
(* and no guard asks for them.                                             *)
Metadata == [planning_complete: BOOLEAN,
             review_passed: BOOLEAN,
             rejection_count: Nat]

MetadataKeys == {"planning_complete", "review_passed", "rejection_count"}

Row == [exists: BOOLEAN, status: Status, branch: BOOLEAN, md: Metadata]

NewMetadata == [planning_complete |-> FALSE, review_passed |-> FALSE,
                rejection_count |-> 0]

NewRow == [exists |-> TRUE, status |-> "created",
           branch |-> FALSE, md |-> NewMetadata]

NoCall == [op |-> "none"]

RowInit(created) ==
  /\ row \in created
  /\ approvals = {}
  /\ lock = NoRequest
  /\ call = [p \in Requests |-> NoCall]
  /\ read = [p \in Requests |-> NewRow]

(* The definitions marked "faulty variant", here and in the other modules, *)
(* are no part of the model: each stands for a slip the code could have    *)
(* made, and shows that a property would have noticed it.                  *)
-----------------------------------------------------------------------------
(* A session that loads the row with a plain read, which waits for nobody. *)
OpenUnlocked(p, c) ==
  /\ call[p] = NoCall
  /\ row.exists
  /\ call' = [call EXCEPT ![p] = c]
  /\ read' = [read EXCEPT ![p] = row]
  /\ UNCHANGED lock

(* Faulty variant: the session is reused and the locked query hands back   *)
(* the copy the session already holds.                                     *)
OpenLockedStale(p, c) ==
  /\ call[p] = NoCall
  /\ row.exists
  /\ RowLocks => lock = NoRequest
  /\ lock' = IF RowLocks THEN p ELSE lock
  /\ call' = [call EXCEPT ![p] = c]
  /\ UNCHANGED read

(* A session that loads the row with SELECT ... FOR UPDATE: it waits until *)
(* no other session holds the row, and holds it until it commits or rolls  *)
(* back.  A missing row is answered 404 and changes nothing.               *)
OpenLocked(p, c) ==
  /\ call[p] = NoCall
  /\ row.exists
  /\ RowLocks => lock = NoRequest
  /\ lock' = IF RowLocks THEN p ELSE lock
  /\ call' = [call EXCEPT ![p] = c]
  /\ read' = [read EXCEPT ![p] = row]

(* The UPDATE and DELETE statements of a commit wait while another session *)
(* holds the row.                                                          *)
MayWrite(p) == lock \in {NoRequest, p}

(* Faulty variant: the commit writes the branch of the copy, changed or    *)
(* not, over what another session has recorded meanwhile.                  *)
FlushWhole(p, new, mark) ==
  IF row.exists
    THEN [row EXCEPT
            !.status = IF new.status = read[p].status THEN @ ELSE new.status,
            !.branch = new.branch,
            !.md     = IF new.md = read[p].md /\ ~mark THEN @ ELSE new.md]
    ELSE row

(* The unit of work writes the columns whose value differs from the one    *)
(* loaded, and the metadata column when the handler marks it modified; it  *)
(* leaves the others as they are in the table.  A row deleted meanwhile is *)
(* not matched by the UPDATE and the commit fails.                         *)
Flush(p, new, mark) ==
  IF row.exists
    THEN [row EXCEPT
            !.status = IF new.status = read[p].status THEN @ ELSE new.status,
            !.branch = IF new.branch = read[p].branch THEN @ ELSE new.branch,
            !.md     = IF new.md = read[p].md /\ ~mark THEN @ ELSE new.md]
    ELSE row

(* The end of a request: its session closes, which ends the transaction.   *)
Close(p) ==
  /\ call' = [call EXCEPT ![p] = NoCall]
  /\ read' = [read EXCEPT ![p] = NewRow]
  /\ lock' = IF lock = p THEN NoRequest ELSE lock

=============================================================================
