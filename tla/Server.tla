-------------------------------- MODULE Server --------------------------------
(***************************************************************************)
(* The server process: what its requests wait for.  Endpoints written as   *)
(* plain functions run in threads; the webhook and the WebSocket handshake *)
(* run on the event loop and hold it until they return.  All of them share *)
(* one pool of database connections, which a waiting request gives up on   *)
(* after a while, and the row lock of a mission, which none gives up on.   *)
(* The session of a request is closed by the event loop after its handler  *)
(* returned, also when the handler raised.                                 *)
(***************************************************************************)
EXTENDS Naturals, FiniteSets

CONSTANTS
  Requests,       \* places for requests under way; an answered one is reused
  NoRequest,      \* value of loop and lock when nobody has them
  Fan,            \* threads of the worker's fan-out pool
  PoolSize,       \* connections the pool may open at once
  GitEnabled      \* TRUE when SOY_GIT_ENABLED is set

ASSUME ServerAssumption ==
  /\ NoRequest \notin Requests
  /\ Fan # {}
  /\ PoolSize \in Nat \ {0}
  /\ GitEnabled \in BOOLEAN

VARIABLES
  kind,           \* kind[r]: the kind of endpoint request r is for
  pc,             \* pc[r]: where the handler of r stands
  thread,         \* thread[r][t]: where thread t of the worker stands in its work for r
  own,            \* requests whose own session has a connection
  loop,           \* the request that occupies the event loop
  lock            \* the request whose transaction holds the row lock

vars == <<kind, pc, thread, own, loop, lock>>

(* locked: transition, reject, approve, PUT; write: the dashboard, DELETE, *)
(* POST of missions and tasks; agent: POST of agents; run, run_all: execute *)
(* and execute-all, whose worker opens sessions of its own; read: listings. *)
OnLoop == {"webhook", "socket"}
Kinds == OnLoop \cup {"locked", "write", "agent", "run", "run_all", "read"}

(* A thread of the worker waits for a connection to load its task, has it, *)
(* works, waits for one to record the outcome, has it, or writes with it   *)
(* what the row lock keeps waiting.                                        *)
Waiting == {"to_load", "to_record"}
Holding == {"load", "record", "write"}
ThreadStates == Waiting \cup Holding \cup {"ended"}

Open ==
  Cardinality(own)
    + Cardinality({w \in Requests \X Fan : thread[w[1]][w[2]] \in Holding})
    + Cardinality({r \in Requests : pc[r] = "graph"})

(* Faulty variant: a connection more than the pool may open.               *)
RoomForOneMore == Open <= PoolSize

Room == Open < PoolSize

NoThreads == [t \in Fan |-> "ended"]

Init ==
  /\ kind = [r \in Requests |-> "none"]
  /\ pc = [r \in Requests |-> "idle"]
  /\ thread = [r \in Requests |-> NoThreads]
  /\ own = {}
  /\ loop = NoRequest
  /\ lock = NoRequest

-----------------------------------------------------------------------------
Goto(r, where) == pc' = [pc EXCEPT ![r] = where]

GoOn(r, where) == Goto(r, where) /\ UNCHANGED <<kind, loop>>

(* The handler returned or raised: a handler on the loop leaves it.  What  *)
(* kind it was makes no difference any more.                               *)
Return(r) ==
  /\ Goto(r, "returned")
  /\ kind' = [kind EXCEPT ![r] = "none"]
  /\ loop' = IF loop = r THEN NoRequest ELSE loop

(* A request that is refused before its first statement has no part in     *)
(* what follows; k is the kind of one that gets that far.                  *)
Begin(r, k) ==
  /\ pc[r] = "idle"
  /\ loop = NoRequest
  /\ kind' = [kind EXCEPT ![r] = k]
  /\ Goto(r, "connect")
  /\ loop' = IF k \in OnLoop THEN r ELSE loop
  /\ UNCHANGED <<thread, own, lock>>

(* The first statement of the session takes a connection from the pool.    *)
Connect(r) ==
  /\ pc[r] = "connect"
  /\ Room
  /\ own' = own \cup {r}
  /\ Goto(r, IF kind[r] = "locked" THEN "lock" ELSE "work")
  /\ UNCHANGED <<kind, thread, loop, lock>>

(* SELECT ... FOR UPDATE; a mission that is not there is answered 404.     *)
LockRow(r) ==
  /\ pc[r] = "lock"
  /\ lock = NoRequest
  /\ \/ lock' = r /\ GoOn(r, "decide")
     \/ Return(r) /\ UNCHANGED lock
  /\ UNCHANGED <<thread, own>>

(* After a commit, which gives the connection back, most handlers refresh  *)
(* the row they answer with, and take a connection again; after a rollback *)
(* none does.                                                              *)
Committed(r) ==
  /\ own' = own \ {r}
  /\ \/ GoOn(r, "reread")
     \/ Return(r)

(* Faulty variant: a lock of the session, which outlives the transaction.  *)
CommitKeepingLock(r) ==
  /\ pc[r] = "decide"
  /\ Committed(r)
  /\ UNCHANGED <<thread, lock>>

(* The commit, or the rollback of a duplicate, gives up the lock as well.  *)
Commit(r) ==
  /\ pc[r] = "decide"
  /\ lock' = NoRequest
  /\ Committed(r)
  /\ UNCHANGED thread

(* A refusal is an exception: the transaction stays open behind it.        *)
Refuse(r) ==
  /\ pc[r] = "decide"
  /\ Return(r)
  /\ UNCHANGED <<thread, own, lock>>

(* A session that did not lock has something to write: its UPDATE, or its  *)
(* INSERT of a row that refers to the mission, is sent with its connection *)
(* in hand ...                                                             *)
SendWrite(r) ==
  /\ pc[r] = "work"
  /\ kind[r] \in {"write", "agent"}
  /\ GoOn(r, "update")
  /\ UNCHANGED <<thread, own, lock>>

(* ... and waits for the lock of another one, without a time limit.        *)
Write(r) ==
  /\ pc[r] = "update"
  /\ lock = NoRequest
  /\ \/ kind[r] = "write" /\ Committed(r)
     \/ /\ kind[r] = "agent"
        /\ own' = own \ {r}
        /\ GoOn(r, "refresh")
  /\ UNCHANGED <<thread, lock>>

(* The webhook inserts a mission, which waits for nobody's lock, or finds  *)
(* the one of an earlier delivery.                                         *)
Ingest(r) ==
  /\ pc[r] = "work"
  /\ kind[r] = "webhook"
  /\ \/ own' = own \ {r} /\ Goto(r, "refresh")
     \/ GitEnabled /\ Goto(r, "git") /\ UNCHANGED own
  /\ UNCHANGED <<kind, thread, loop, lock>>

(* Faulty variant: a handshake goes on to wait for events with a call that *)
(* blocks the loop.                                                        *)
LookBlocking(r) ==
  /\ pc[r] = "work"
  /\ kind[r] # "socket"
  /\ Return(r)
  /\ UNCHANGED <<thread, own, lock>>

(* Nothing to write: a listing, a mission that is not there, a delivery    *)
(* that is ignored.  A handshake closes its session itself, and is over as *)
(* far as this module goes.                                                *)
Look(r) ==
  /\ pc[r] = "work"
  /\ IF kind[r] = "socket"
       THEN /\ own' = own \ {r}
            /\ loop' = NoRequest
            /\ kind' = [kind EXCEPT ![r] = "none"]
            /\ Goto(r, "idle")
       ELSE Return(r) /\ UNCHANGED own
  /\ UNCHANGED <<thread, lock>>

Refresh(r) ==
  /\ pc[r] \in {"refresh", "reread"}
  /\ Room
  /\ own' = own \cup {r}
  /\ CASE pc[r] = "refresh" /\ kind[r] = "agent" -> GoOn(r, "start")
       [] kind[r] = "webhook" /\ GitEnabled -> GoOn(r, "git")
       [] OTHER -> Return(r)
  /\ UNCHANGED <<thread, lock>>

(* The git commands of the webhook, whose failure it swallows.             *)
Git(r) ==
  /\ pc[r] = "git"
  /\ \/ GoOn(r, "write_git")
     \/ Return(r)
  /\ UNCHANGED <<thread, own, lock>>

(* What git did is written to the row of the mission.                      *)
WriteGit(r) ==
  /\ pc[r] = "write_git"
  /\ lock = NoRequest
  /\ own' = own \ {r}
  /\ Return(r)
  /\ UNCHANGED <<thread, lock>>

-----------------------------------------------------------------------------
(* The handler looks its task or mission up and calls the worker, which    *)
(* opens sessions of its own beside that of the request.                   *)
CallWorker(r) ==
  /\ pc[r] = "work"
  /\ \/ kind[r] = "run" /\ Goto(r, "start")
     \/ kind[r] = "run_all" /\ Goto(r, "to_graph")
  /\ UNCHANGED <<kind, thread, own, loop, lock>>

OpenGraph(r) ==
  /\ pc[r] = "to_graph"
  /\ Room
  /\ Goto(r, "graph")
  /\ UNCHANGED <<kind, thread, own, loop, lock>>

CloseGraph(r) ==
  /\ pc[r] = "graph"
  /\ \/ GoOn(r, "start")
     \/ Return(r)
  /\ UNCHANGED <<thread, own, lock>>

(* One thread for a task or an agent, as many as there are for a layer.    *)
StartThreads(r) ==
  /\ pc[r] = "start"
  /\ \E some \in SUBSET Fan :
       /\ some # {}
       /\ kind[r] # "run_all" => Cardinality(some) = 1
       /\ thread' = [thread EXCEPT ![r] =
                       [t \in Fan |-> IF t \in some THEN "to_load" ELSE "ended"]]
  /\ Goto(r, "threads")
  /\ UNCHANGED <<kind, own, loop, lock>>

ThreadGoto(r, t, where) ==
  /\ thread' = [thread EXCEPT ![r][t] = where]
  /\ UNCHANGED <<kind, pc, own, loop, lock>>

OpenSession(r, t) ==
  /\ thread[r][t] \in Waiting
  /\ Room
  /\ ThreadGoto(r, t, IF thread[r][t] = "to_load" THEN "load" ELSE "record")

(* The task is loaded, and the session closed, before the agent works; a   *)
(* finished task, one that is gone, or an agent that is only constructed,  *)
(* needs no more.  In between, the session commits and refreshes, which is *)
(* left out: it gives its connection back and waits for another, as it did *)
(* to get the first.                                                       *)
CloseSession(r, t) ==
  \/ /\ thread[r][t] = "load"
     /\ \/ ThreadGoto(r, t, "ended")
        \/ kind[r] # "agent" /\ ThreadGoto(r, t, "to_record")
  \/ /\ thread[r][t] = "record"
     /\ ThreadGoto(r, t, "ended")

(* What became of an attempt, or that its agent is missing, goes to a row  *)
(* that refers to the mission, and an escalation to the mission: the write *)
(* waits for the row lock, with the connection of the session.  A retry in *)
(* the same thread waits as this attempt did, and is left out.             *)
SendOutcome(r, t) ==
  /\ thread[r][t] \in {"load", "record"}
  /\ kind[r] # "agent"
  /\ ThreadGoto(r, t, "write")

WriteOutcome(r, t) ==
  /\ thread[r][t] = "write"
  /\ lock = NoRequest
  /\ ThreadGoto(r, t, "ended")

(* That an agent could not be constructed is committed by the request.     *)
Join(r) ==
  /\ pc[r] = "threads"
  /\ thread[r] = NoThreads
  /\ \/ Return(r) /\ UNCHANGED own
     \/ kind[r] = "agent" /\ own' = own \ {r} /\ GoOn(r, "reread")
  /\ UNCHANGED <<thread, lock>>

-----------------------------------------------------------------------------
(* Faulty variant: the session is closed, but its connection not given up. *)
CloseKeepingConnection(r) ==
  /\ pc[r] = "returned"
  /\ loop = NoRequest
  /\ lock' = IF lock = r THEN NoRequest ELSE lock
  /\ Goto(r, "idle")
  /\ UNCHANGED <<kind, thread, own, loop>>

(* The end of get_db, a step of the event loop.                            *)
CloseRequest(r) ==
  /\ pc[r] = "returned"
  /\ loop = NoRequest
  /\ own' = own \ {r}
  /\ lock' = IF lock = r THEN NoRequest ELSE lock
  /\ Goto(r, "idle")
  /\ UNCHANGED <<kind, thread, loop>>

(* The pool raises in a request that has waited for thirty seconds, also   *)
(* in one that has committed already; it is answered 500.                  *)
PoolTimeout(r) ==
  /\ pc[r] \in {"connect", "refresh", "reread", "to_graph"}
  /\ ~Room
  /\ Return(r)
  /\ UNCHANGED <<thread, own, lock>>

ThreadTimeout(r, t) ==
  /\ thread[r][t] \in Waiting
  /\ ~Room
  /\ ThreadGoto(r, t, "ended")

Timeout(r) == PoolTimeout(r) \/ \E t \in Fan : ThreadTimeout(r, t)

Progress(r) ==
  \/ Connect(r) \/ LockRow(r) \/ Commit(r) \/ Refuse(r)
  \/ SendWrite(r) \/ Write(r) \/ Look(r)
  \/ Ingest(r) \/ Refresh(r) \/ Git(r) \/ WriteGit(r)
  \/ CallWorker(r) \/ OpenGraph(r) \/ CloseGraph(r) \/ StartThreads(r)
  \/ \E t \in Fan : \/ OpenSession(r, t) \/ CloseSession(r, t)
                    \/ SendOutcome(r, t) \/ WriteOutcome(r, t)
  \/ Join(r) \/ CloseRequest(r)

Next ==
  \E r \in Requests :
    \/ \E k \in Kinds : Begin(r, k)
    \/ Progress(r)
    \/ Timeout(r)

Spec == Init /\ [][Next]_vars

(* A handler that can go on does, and the pool keeps its time limit.  The  *)
(* database hands the lock out in turn, and the loop runs what is ready in *)
(* turn, so neither passes a request over for ever.                        *)
FairSpec == Spec /\ \A r \in Requests : SF_vars(Progress(r) \/ Timeout(r))

-----------------------------------------------------------------------------
Points == {"idle", "connect", "lock", "decide", "work", "update", "refresh", "reread",
           "git", "write_git", "to_graph", "graph", "start", "threads", "returned"}

TypeOK ==
  /\ kind \in [Requests -> Kinds \cup {"none"}]
  /\ pc \in [Requests -> Points]
  /\ thread \in [Requests -> [Fan -> ThreadStates]]
  /\ own \subseteq Requests
  /\ loop \in Requests \cup {NoRequest}
  /\ lock \in Requests \cup {NoRequest}
  /\ Open <= PoolSize

(* The webhook has stopped the loop until the row is free, and the row is  *)
(* held by a refused request whose session the loop has yet to close.      *)
LoopLocked ==
  /\ loop # NoRequest /\ pc[loop] = "write_git"
  /\ lock # NoRequest /\ pc[lock] = "returned"

(* A second connection is asked for while a first one is held: by the      *)
(* worker for a request that keeps its own.                                *)
WantsSecond(r) ==
  r \in own /\ (pc[r] = "to_graph" \/ \E t \in Fan : thread[r][t] \in Waiting)

(* The holder of the row lock needs nothing from the pool until it gives   *)
(* the lock up: those who fill the pool waiting for the row do not keep    *)
(* the row from them.                                                      *)
LockHolderNeedsNoPool ==
  lock # NoRequest => lock \in own /\ pc[lock] \in {"decide", "returned"}

(* The guards of Progress.                                                 *)
Ready(r) ==
  \/ pc[r] \in {"decide", "work", "git", "graph", "start"}
  \/ pc[r] \in {"connect", "refresh", "reread", "to_graph"} /\ Room
  \/ pc[r] \in {"lock", "update", "write_git"} /\ lock = NoRequest
  \/ pc[r] = "threads" /\ thread[r] = NoThreads
  \/ pc[r] = "returned" /\ loop = NoRequest
  \/ \E t \in Fan : \/ thread[r][t] \in {"load", "record"}
                    \/ thread[r][t] \in Waiting /\ Room
                    \/ thread[r][t] = "write" /\ lock = NoRequest

(* When nothing can go on but by a timeout of the pool, or at all, it is   *)
(* for one of three causes: LoopLocked, a worker that wants a second       *)
(* connection, or a handler on the loop that wants one.  Endpoints with    *)
(* one session, in threads, never wait for each other in a circle.         *)
NoOtherCircle ==
  (\E r \in Requests : pc[r] # "idle") /\ (\A r \in Requests : ~Ready(r))
    => \/ LoopLocked
       \/ \E r \in Requests : WantsSecond(r)
       \/ loop # NoRequest /\ pc[loop] \in {"connect", "refresh"}

(* Every request is answered and its session closed, thanks to the time    *)
(* limit of the pool, unless the process is in LoopLocked.                 *)
RequestsAreAnswered ==
  \A r \in Requests : pc[r] # "idle" ~> pc[r] = "idle" \/ LoopLocked

=============================================================================
