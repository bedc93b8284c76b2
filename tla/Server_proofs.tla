----------------------------- MODULE Server_proofs -----------------------------
(***************************************************************************)
(* Proofs about the connection pool and the row lock, for any number of    *)
(* requests, threads and connections.                                      *)
(***************************************************************************)
EXTENDS Server, FiniteSetTheorems, TLAPS

-----------------------------------------------------------------------------
(* The inductive invariant.                                                *)

(* What Open counts, beside the sessions of the requests themselves.       *)
Held == {w \in Requests \X Fan : thread[w[1]][w[2]] \in Holding}
Graphs == {r \in Requests : pc[r] = "graph"}

(* However many requests there are, finitely many have a connection.       *)
Pooled ==
  /\ IsFiniteSet(own) /\ IsFiniteSet(Held) /\ IsFiniteSet(Graphs)
  /\ Open <= PoolSize

Typed ==
  /\ kind \in [Requests -> Kinds \cup {"none"}]
  /\ pc \in [Requests -> Points]
  /\ thread \in [Requests -> [Fan -> ThreadStates]]
  /\ own \subseteq Requests
  /\ loop \in Requests \cup {NoRequest}
  /\ lock \in Requests \cup {NoRequest}

(* A request decides under the lock, and asks for it with a connection.    *)
Locked ==
  /\ LockHolderNeedsNoPool
  /\ \A r \in Requests : pc[r] = "decide" => lock = r
  /\ \A r \in Requests : pc[r] = "lock" => r \in own

ServerInv == Typed /\ Pooled /\ Locked

-----------------------------------------------------------------------------
(* The sum of what the pool has given out is a number.                     *)
LEMMA OpenIsSum ==
  ASSUME IsFiniteSet(own), IsFiniteSet(Held), IsFiniteSet(Graphs)
  PROVE  /\ Open = Cardinality(own) + Cardinality(Held) + Cardinality(Graphs)
         /\ Cardinality(own) \in Nat /\ Cardinality(Held) \in Nat
         /\ Cardinality(Graphs) \in Nat
BY FS_CardinalityType DEF Open, Held, Graphs

(* A subset of a finite set with one more element.                         *)
LEMMA OneMore ==
  ASSUME NEW S, IsFiniteSet(S), NEW x, NEW T \in SUBSET (S \cup {x})
  PROVE  IsFiniteSet(T) /\ Cardinality(T) \in Nat /\ Cardinality(T) <= Cardinality(S) + 1
<1>1. /\ IsFiniteSet(S \cup {x}) /\ Cardinality(S) \in Nat
      /\ Cardinality(S \cup {x}) <= Cardinality(S) + 1
  <2>1. IsFiniteSet(S \cup {x}) /\ Cardinality(S) \in Nat
    BY FS_AddElement, FS_CardinalityType
  <2>2. CASE x \in S
    <3>1. S \cup {x} = S
      BY <2>2
    <3>2. QED
      BY <2>1, <3>1
  <2>3. CASE x \notin S
    BY <2>1, <2>3, FS_AddElement
  <2>4. QED
    BY <2>1, <2>2, <2>3
<1>2. IsFiniteSet(T) /\ Cardinality(T) <= Cardinality(S \cup {x})
  BY <1>1, FS_Subset
<1>3. QED
  BY <1>1, <1>2, FS_CardinalityType

(* A step that opens at most one connection, and then one that the pool    *)
(* has room for.                                                           *)
LEMMA PoolStep ==
  ASSUME Pooled, NEW x, PoolSize \in Nat,
         \/ own' \subseteq own /\ Held' \subseteq Held /\ Graphs' \subseteq Graphs
         \/ /\ Room
            /\ own' \subseteq own \cup {x} /\ Held' \subseteq Held /\ Graphs' \subseteq Graphs
         \/ /\ Room
            /\ own' \subseteq own /\ Held' \subseteq Held \cup {x} /\ Graphs' \subseteq Graphs
         \/ /\ Room
            /\ own' \subseteq own /\ Held' \subseteq Held /\ Graphs' \subseteq Graphs \cup {x}
  PROVE  Pooled'
<1>1. IsFiniteSet(own) /\ IsFiniteSet(Held) /\ IsFiniteSet(Graphs)
  BY DEF Pooled
<1>2. /\ Open = Cardinality(own) + Cardinality(Held) + Cardinality(Graphs)
      /\ Cardinality(own) \in Nat /\ Cardinality(Held) \in Nat
      /\ Cardinality(Graphs) \in Nat
  BY <1>1, OpenIsSum
<1>3. IsFiniteSet(own') /\ IsFiniteSet(Held') /\ IsFiniteSet(Graphs')
  BY <1>1, OneMore
<1>4. /\ Open' = Cardinality(own') + Cardinality(Held') + Cardinality(Graphs')
      /\ Cardinality(own') \in Nat /\ Cardinality(Held') \in Nat
      /\ Cardinality(Graphs') \in Nat
  BY <1>3, FS_CardinalityType DEF Open, Held, Graphs
<1>5. /\ own' \subseteq own => Cardinality(own') <= Cardinality(own)
      /\ Held' \subseteq Held => Cardinality(Held') <= Cardinality(Held)
      /\ Graphs' \subseteq Graphs => Cardinality(Graphs') <= Cardinality(Graphs)
  BY <1>1, FS_Subset
<1>6. /\ own' \subseteq own \cup {x} => Cardinality(own') <= Cardinality(own) + 1
      /\ Held' \subseteq Held \cup {x} => Cardinality(Held') <= Cardinality(Held) + 1
      /\ Graphs' \subseteq Graphs \cup {x} => Cardinality(Graphs') <= Cardinality(Graphs) + 1
  BY <1>1, OneMore
<1>7. Open' <= PoolSize
  BY <1>2, <1>4, <1>5, <1>6 DEF Pooled, Room
<1>8. QED
  BY <1>3, <1>7 DEF Pooled

-----------------------------------------------------------------------------
(* Steps of the handler of a request.                                      *)

(* Where the handlers stand after one of them has moved.                   *)
LEMMA Moves ==
  ASSUME Typed, NEW r \in Requests, NEW to \in Points, Goto(r, to)
  PROVE  /\ pc' \in [Requests -> Points] /\ pc'[r] = to
         /\ \A q \in Requests \ {r} : pc'[q] = pc[q]
BY DEF Goto, Typed

(* A handler that returned.                                                *)
LEMMA Returns ==
  ASSUME Typed, NEW r \in Requests, Return(r)
  PROVE  /\ Goto(r, "returned")
         /\ kind' \in [Requests -> Kinds \cup {"none"}]
         /\ loop' \in Requests \cup {NoRequest}
BY DEF Return, Typed

(* A handler moves, with its connection, without it, or with the one it    *)
(* has got from the pool; the lock is not its own, and stays where it is.  *)
LEMMA MoveInv ==
  ASSUME ServerInv, NEW r \in Requests, NEW to \in Points \ {"graph", "decide"},
         Goto(r, to), UNCHANGED <<thread, lock>>,
         kind' \in [Requests -> Kinds \cup {"none"}],
         loop' \in Requests \cup {NoRequest},
         own' \in {own, own \ {r}} \/ (Room /\ own' = own \cup {r}),
         lock # r, to = "lock" => r \in own'
  PROVE  ServerInv'
<1>1. /\ pc' \in [Requests -> Points] /\ pc'[r] = to
      /\ \A q \in Requests \ {r} : pc'[q] = pc[q]
  BY Moves DEF ServerInv
<1>2. Typed'
  BY <1>1 DEF ServerInv, Typed
<1>3. Held' \subseteq Held /\ Graphs' \subseteq Graphs
  BY <1>1 DEF Held, Graphs
<1>4. Pooled'
  BY <1>3, PoolStep, ServerAssumption DEF ServerInv
<1>5. Locked'
  BY <1>1 DEF ServerInv, Typed, Locked, LockHolderNeedsNoPool
<1>6. QED
  BY <1>2, <1>4, <1>5 DEF ServerInv

(* Only a request that decides, or has been refused, holds the lock.       *)
LEMMA NotTheHolder ==
  ASSUME ServerInv, NEW r \in Requests, pc[r] \notin {"decide", "returned"}
  PROVE  lock # r
BY ServerAssumption DEF ServerInv, Locked, LockHolderNeedsNoPool

(* A handler moves that does not hold the lock.                            *)
LEMMA PlainMove ==
  ASSUME ServerInv, NEW r \in Requests, pc[r] \notin {"decide", "returned"},
         NEW to \in Points \ {"graph", "decide", "lock"},
         Goto(r, to), UNCHANGED <<thread, lock>>,
         kind' \in [Requests -> Kinds \cup {"none"}],
         loop' \in Requests \cup {NoRequest},
         own' \in {own, own \ {r}} \/ (Room /\ own' = own \cup {r})
  PROVE  ServerInv'
BY MoveInv, NotTheHolder

(* The same of one that only goes on.                                      *)
LEMMA PlainGoOn ==
  ASSUME ServerInv, NEW r \in Requests, pc[r] \notin {"decide", "returned"},
         NEW to \in Points \ {"graph", "decide", "lock"},
         GoOn(r, to), UNCHANGED <<thread, lock>>,
         own' \in {own, own \ {r}} \/ (Room /\ own' = own \cup {r})
  PROVE  ServerInv'
BY PlainMove DEF GoOn, ServerInv, Typed

(* The same of one that returns.                                           *)
LEMMA PlainReturn ==
  ASSUME ServerInv, NEW r \in Requests, pc[r] \notin {"decide", "returned"},
         Return(r), UNCHANGED <<thread, lock>>,
         own' \in {own, own \ {r}} \/ (Room /\ own' = own \cup {r})
  PROVE  ServerInv'
<1>1. "returned" \in Points \ {"graph", "decide", "lock"}
  BY DEF Points
<1>2. QED
  BY <1>1, PlainMove, Returns DEF ServerInv

(* A request arrives.                                                      *)
LEMMA BeginInv ==
  ASSUME ServerInv, NEW r \in Requests, NEW k \in Kinds, Begin(r, k)
  PROVE  ServerInv'
<1>1. /\ kind' \in [Requests -> Kinds \cup {"none"}] /\ loop' \in Requests \cup {NoRequest}
      /\ "connect" \in Points \ {"graph", "decide", "lock"}
  BY DEF Begin, ServerInv, Typed, Points
<1>2. QED
  BY <1>1, PlainMove DEF Begin

(* It gets a connection.                                                   *)
LEMMA ConnectInv ==
  ASSUME ServerInv, NEW r \in Requests, Connect(r)
  PROVE  ServerInv'
<1>1. PICK to \in {"lock", "work"} : Goto(r, to)
  BY DEF Connect
<1>2. to \in Points \ {"graph", "decide"} /\ lock # r
  BY NotTheHolder DEF Connect, Points
<1>3. kind' \in [Requests -> Kinds \cup {"none"}] /\ loop' \in Requests \cup {NoRequest}
  BY DEF Connect, ServerInv, Typed
<1>4. QED
  BY <1>1, <1>2, <1>3, MoveInv DEF Connect

(* It gets the row lock, and keeps its connection.                         *)
LEMMA LockRowInv ==
  ASSUME ServerInv, NEW r \in Requests, LockRow(r)
  PROVE  ServerInv'
<1>1. /\ pc[r] = "lock" /\ lock = NoRequest /\ r \in own /\ UNCHANGED <<thread, own>>
  BY DEF LockRow, ServerInv, Locked
<1>2. CASE Return(r) /\ UNCHANGED lock
  BY <1>1, <1>2, PlainReturn
<1>3. CASE lock' = r /\ GoOn(r, "decide")
  <2>1. /\ pc' \in [Requests -> Points] /\ pc'[r] = "decide"
        /\ \A q \in Requests \ {r} : pc'[q] = pc[q]
    BY <1>3, Moves DEF ServerInv, GoOn, Points
  <2>2. Typed'
    BY <1>1, <1>3, <2>1 DEF ServerInv, Typed, GoOn
  <2>3. Pooled'
    <3>1. Held' \subseteq Held /\ Graphs' \subseteq Graphs
      BY <1>1, <2>1 DEF Held, Graphs
    <3>2. QED
      BY <1>1, <3>1, PoolStep, ServerAssumption DEF ServerInv
  <2>4. Locked'
    BY <1>1, <1>3, <2>1, ServerAssumption DEF ServerInv, Typed, Locked, LockHolderNeedsNoPool
  <2>5. QED
    BY <2>2, <2>3, <2>4 DEF ServerInv
<1>4. QED
  BY <1>2, <1>3 DEF LockRow

(* The lock is given up: by the commit, or when the session is closed.     *)
LEMMA UnlockInv ==
  ASSUME ServerInv, NEW r \in Requests, NEW to \in {"idle", "reread", "returned"},
         Goto(r, to), UNCHANGED thread,
         kind' \in [Requests -> Kinds \cup {"none"}],
         loop' \in Requests \cup {NoRequest},
         own' = own \ {r}, lock' \in {lock, NoRequest},
         lock' # r, lock \notin {r, NoRequest} => lock' = lock
  PROVE  ServerInv'
<1>1. to \in Points
  BY DEF Points
<1>2. /\ pc' \in [Requests -> Points] /\ pc'[r] = to
      /\ \A q \in Requests \ {r} : pc'[q] = pc[q]
  BY <1>1, Moves DEF ServerInv
<1>3. Typed'
  BY <1>2 DEF ServerInv, Typed
<1>4. Pooled'
  <2>1. Held' \subseteq Held /\ Graphs' \subseteq Graphs
    BY <1>2 DEF Held, Graphs
  <2>2. QED
    BY <2>1, PoolStep, ServerAssumption DEF ServerInv
<1>5. Locked'
  BY <1>2, ServerAssumption DEF ServerInv, Typed, Locked, LockHolderNeedsNoPool
<1>6. QED
  BY <1>3, <1>4, <1>5 DEF ServerInv

(* The commit of the request that decides.                                 *)
LEMMA CommitInv ==
  ASSUME ServerInv, NEW r \in Requests, Commit(r)
  PROVE  ServerInv'
<1>1. pc[r] = "decide" /\ lock = r /\ lock' = NoRequest /\ own' = own \ {r} /\ UNCHANGED thread
  BY DEF Commit, Committed, ServerInv, Locked
<1>2. r # NoRequest
  BY ServerAssumption
<1>3. CASE GoOn(r, "reread")
  BY <1>1, <1>2, <1>3, UnlockInv DEF GoOn, ServerInv, Typed
<1>4. CASE Return(r)
  BY <1>1, <1>2, <1>4, UnlockInv, Returns DEF ServerInv
<1>5. QED
  BY <1>3, <1>4 DEF Commit, Committed

(* The end of get_db.                                                      *)
LEMMA CloseRequestInv ==
  ASSUME ServerInv, NEW r \in Requests, CloseRequest(r)
  PROVE  ServerInv'
<1>1. /\ r # NoRequest /\ Goto(r, "idle") /\ own' = own \ {r} /\ UNCHANGED <<kind, thread, loop>>
      /\ lock' = IF lock = r THEN NoRequest ELSE lock
  BY ServerAssumption DEF CloseRequest
<1>2. kind' \in [Requests -> Kinds \cup {"none"}] /\ loop' \in Requests \cup {NoRequest}
  BY <1>1 DEF ServerInv, Typed
<1>3. QED
  BY <1>1, <1>2, UnlockInv

(* A refusal leaves the transaction open, and its lock held.               *)
LEMMA RefuseInv ==
  ASSUME ServerInv, NEW r \in Requests, Refuse(r)
  PROVE  ServerInv'
<1>1. pc[r] = "decide" /\ lock = r /\ UNCHANGED <<thread, own, lock>> /\ Return(r)
  BY DEF Refuse, ServerInv, Locked
<1>2. /\ pc' \in [Requests -> Points] /\ pc'[r] = "returned"
      /\ \A q \in Requests \ {r} : pc'[q] = pc[q]
  BY <1>1, Moves, Returns DEF ServerInv, Points
<1>3. Typed'
  BY <1>1, <1>2, Returns DEF ServerInv, Typed
<1>4. Pooled'
  <2>1. Held' \subseteq Held /\ Graphs' \subseteq Graphs
    BY <1>1, <1>2 DEF Held, Graphs
  <2>2. QED
    BY <1>1, <2>1, PoolStep, ServerAssumption DEF ServerInv
<1>5. Locked'
  BY <1>1, <1>2 DEF ServerInv, Typed, Locked, LockHolderNeedsNoPool
<1>6. QED
  BY <1>3, <1>4, <1>5 DEF ServerInv

(* A session that did not lock has something to write.                     *)
LEMMA SendWriteInv ==
  ASSUME ServerInv, NEW r \in Requests, SendWrite(r)
  PROVE  ServerInv'
<1>1. pc[r] = "work" /\ GoOn(r, "update") /\ UNCHANGED <<thread, own, lock>>
  BY DEF SendWrite
<1>2. "update" \in Points \ {"graph", "decide", "lock"}
  BY DEF Points
<1>3. QED
  BY <1>1, <1>2, PlainGoOn

(* It writes.                                                              *)
LEMMA WriteInv ==
  ASSUME ServerInv, NEW r \in Requests, Write(r)
  PROVE  ServerInv'
<1>1. pc[r] = "update" /\ own' = own \ {r} /\ UNCHANGED <<thread, lock>>
  BY DEF Write, Committed
<1>2. CASE Return(r)
  BY <1>1, <1>2, PlainReturn
<1>3. ASSUME NEW to \in {"refresh", "reread"}, GoOn(r, to)
      PROVE  ServerInv'
  <2>1. to \in Points \ {"graph", "decide", "lock"}
    BY DEF Points
  <2>2. QED
    BY <1>1, <1>3, <2>1, PlainGoOn
<1>4. QED
  BY <1>2, <1>3 DEF Write, Committed

(* The webhook writes.                                                     *)
LEMMA IngestInv ==
  ASSUME ServerInv, NEW r \in Requests, Ingest(r)
  PROVE  ServerInv'
<1>1. pc[r] = "work" /\ UNCHANGED <<kind, thread, loop, lock>>
  BY DEF Ingest
<1>2. PICK to \in {"refresh", "git"} : Goto(r, to) /\ own' \in {own, own \ {r}}
  BY DEF Ingest
<1>3. to \in Points \ {"graph", "decide", "lock"}
  BY DEF Points
<1>4. QED
  BY <1>1, <1>2, <1>3, PlainGoOn DEF GoOn

(* A session has nothing to write.                                         *)
LEMMA LookInv ==
  ASSUME ServerInv, NEW r \in Requests, Look(r)
  PROVE  ServerInv'
<1>1. pc[r] = "work" /\ UNCHANGED <<thread, lock>>
  BY DEF Look
<1>2. CASE Return(r) /\ UNCHANGED own
  BY <1>1, <1>2, PlainReturn
<1>3. CASE /\ own' = own \ {r} /\ loop' = NoRequest
           /\ kind' = [kind EXCEPT ![r] = "none"] /\ Goto(r, "idle")
  <2>1. kind' \in [Requests -> Kinds \cup {"none"}] /\ "idle" \in Points \ {"graph", "decide", "lock"}
    BY <1>3 DEF ServerInv, Typed, Points
  <2>2. QED
    BY <1>1, <1>3, <2>1, PlainMove
<1>4. QED
  BY <1>2, <1>3 DEF Look

(* The row is read again after a commit.                                   *)
LEMMA RefreshInv ==
  ASSUME ServerInv, NEW r \in Requests, Refresh(r)
  PROVE  ServerInv'
<1>1. pc[r] \in {"refresh", "reread"} /\ Room /\ own' = own \cup {r} /\ UNCHANGED <<thread, lock>>
  BY DEF Refresh
<1>2. CASE Return(r)
  BY <1>1, <1>2, PlainReturn
<1>3. ASSUME NEW to \in {"start", "git"}, GoOn(r, to)
      PROVE  ServerInv'
  <2>1. to \in Points \ {"graph", "decide", "lock"}
    BY DEF Points
  <2>2. QED
    BY <1>1, <1>3, <2>1, PlainGoOn
<1>4. QED
  BY <1>2, <1>3 DEF Refresh

(* The git commands of the webhook.                                        *)
LEMMA GitInv ==
  ASSUME ServerInv, NEW r \in Requests, Git(r) \/ WriteGit(r)
  PROVE  ServerInv'
<1>1. pc[r] \in {"git", "write_git"} /\ own' \in {own, own \ {r}} /\ UNCHANGED <<thread, lock>>
  BY DEF Git, WriteGit
<1>2. CASE Return(r)
  BY <1>1, <1>2, PlainReturn
<1>3. CASE GoOn(r, "write_git")
  <2>1. "write_git" \in Points \ {"graph", "decide", "lock"}
    BY DEF Points
  <2>2. QED
    BY <1>1, <1>3, <2>1, PlainGoOn
<1>4. QED
  BY <1>2, <1>3 DEF Git, WriteGit

(* The request waits in vain for a connection.                             *)
LEMMA PoolTimeoutInv ==
  ASSUME ServerInv, NEW r \in Requests, PoolTimeout(r)
  PROVE  ServerInv'
<1>1. /\ pc[r] \notin {"decide", "returned"} /\ Return(r)
      /\ UNCHANGED <<thread, own, lock>>
  BY DEF PoolTimeout
<1>2. QED
  BY <1>1, PlainReturn

-----------------------------------------------------------------------------
(* Steps of the worker.                                                    *)

(* The worker is called.                                                   *)
LEMMA CallWorkerInv ==
  ASSUME ServerInv, NEW r \in Requests, CallWorker(r)
  PROVE  ServerInv'
<1>1. pc[r] = "work" /\ UNCHANGED <<kind, thread, own, loop, lock>>
  BY DEF CallWorker
<1>2. PICK to \in {"start", "to_graph"} : Goto(r, to)
  BY DEF CallWorker
<1>3. to \in Points \ {"graph", "decide", "lock"}
  BY DEF Points
<1>4. QED
  BY <1>1, <1>2, <1>3, PlainGoOn DEF GoOn

(* The worker gets a connection for the graph.                             *)
LEMMA OpenGraphInv ==
  ASSUME ServerInv, NEW r \in Requests, OpenGraph(r)
  PROVE  ServerInv'
<1>1. pc[r] = "to_graph" /\ Room /\ Goto(r, "graph") /\ UNCHANGED <<kind, thread, own, loop, lock>>
  BY DEF OpenGraph
<1>2. /\ pc' \in [Requests -> Points] /\ pc'[r] = "graph"
      /\ \A q \in Requests \ {r} : pc'[q] = pc[q]
  BY <1>1, Moves DEF ServerInv, Points
<1>3. Typed'
  BY <1>1, <1>2 DEF ServerInv, Typed
<1>4. Pooled'
  <2>1. Held' \subseteq Held /\ Graphs' \subseteq Graphs \cup {r}
    BY <1>1, <1>2 DEF Held, Graphs
  <2>2. QED
    BY <1>1, <2>1, PoolStep, ServerAssumption DEF ServerInv
<1>5. Locked'
  BY <1>1, <1>2, NotTheHolder DEF ServerInv, Typed, Locked, LockHolderNeedsNoPool
<1>6. QED
  BY <1>3, <1>4, <1>5 DEF ServerInv

(* And gives it back.                                                      *)
LEMMA CloseGraphInv ==
  ASSUME ServerInv, NEW r \in Requests, CloseGraph(r)
  PROVE  ServerInv'
<1>1. pc[r] = "graph" /\ UNCHANGED <<thread, own, lock>>
  BY DEF CloseGraph
<1>2. CASE Return(r)
  BY <1>1, <1>2, PlainReturn
<1>3. CASE GoOn(r, "start")
  <2>1. "start" \in Points \ {"graph", "decide", "lock"}
    BY DEF Points
  <2>2. QED
    BY <1>1, <1>3, <2>1, PlainGoOn
<1>4. QED
  BY <1>2, <1>3 DEF CloseGraph

(* Its threads start without a connection.                                 *)
LEMMA StartThreadsInv ==
  ASSUME ServerInv, NEW r \in Requests, StartThreads(r)
  PROVE  ServerInv'
<1>1. pc[r] = "start" /\ Goto(r, "threads") /\ UNCHANGED <<kind, own, loop, lock>>
  BY DEF StartThreads
<1>2. PICK some \in SUBSET Fan :
        thread' = [thread EXCEPT ![r] =
                     [t \in Fan |-> IF t \in some THEN "to_load" ELSE "ended"]]
  BY DEF StartThreads
<1>3. /\ pc' \in [Requests -> Points] /\ pc'[r] = "threads"
      /\ \A q \in Requests \ {r} : pc'[q] = pc[q]
  BY <1>1, Moves DEF ServerInv, Points
<1>4. /\ thread' \in [Requests -> [Fan -> ThreadStates]]
      /\ \A t \in Fan : thread'[r][t] \notin Holding
      /\ \A q \in Requests \ {r} : thread'[q] = thread[q]
  BY <1>2 DEF ServerInv, Typed, ThreadStates, Waiting, Holding
<1>5. Typed'
  BY <1>1, <1>3, <1>4 DEF ServerInv, Typed
<1>6. Pooled'
  <2>1. Held' \subseteq Held
    <3>1. ASSUME NEW q \in Requests, NEW t \in Fan, thread'[q][t] \in Holding
          PROVE  thread[q][t] \in Holding
      BY <1>4, <3>1
    <3>2. QED
      BY <3>1 DEF Held
  <2>2. Graphs' \subseteq Graphs
    BY <1>3 DEF Graphs
  <2>3. QED
    BY <1>1, <2>1, <2>2, PoolStep, ServerAssumption DEF ServerInv
<1>7. Locked'
  BY <1>1, <1>3, NotTheHolder DEF ServerInv, Typed, Locked, LockHolderNeedsNoPool
<1>8. QED
  BY <1>5, <1>6, <1>7 DEF ServerInv

(* A thread moves, and opens a session only when there is room.            *)
LEMMA ThreadInv ==
  ASSUME ServerInv, NEW r \in Requests, NEW t \in Fan, NEW where \in ThreadStates,
         ThreadGoto(r, t, where),
         where \in Holding => thread[r][t] \in Holding \/ Room
  PROVE  ServerInv'
<1>1. /\ thread' \in [Requests -> [Fan -> ThreadStates]]
      /\ thread'[r][t] = where
      /\ \A q \in Requests, u \in Fan :
           thread'[q][u] = thread[q][u] \/ (q = r /\ u = t)
  BY DEF ThreadGoto, ServerInv, Typed
<1>2. UNCHANGED <<kind, pc, own, loop, lock>>
  BY DEF ThreadGoto
<1>3. Typed' /\ Locked'
  BY <1>1, <1>2 DEF ServerInv, Typed, Locked, LockHolderNeedsNoPool
<1>4. Pooled'
  <2>1. Graphs' = Graphs
    BY <1>2 DEF Graphs
  <2>2. Held' \subseteq Held \cup {<<r, t>>}
    BY <1>1 DEF Held
  <2>3. where \notin Holding \/ thread[r][t] \in Holding => Held' \subseteq Held
    BY <1>1 DEF Held
  <2>4. QED
    BY <1>2, <2>1, <2>2, <2>3, PoolStep, ServerAssumption DEF ServerInv
<1>5. QED
  BY <1>3, <1>4 DEF ServerInv

(* The threads of the worker.                                              *)
LEMMA ThreadsInv ==
  ASSUME ServerInv, NEW r \in Requests, NEW t \in Fan,
         \/ OpenSession(r, t) \/ CloseSession(r, t) \/ SendOutcome(r, t)
         \/ WriteOutcome(r, t) \/ ThreadTimeout(r, t)
  PROVE  ServerInv'
<1>1. PICK where \in {"load", "record", "ended", "to_record", "write"} :
        /\ ThreadGoto(r, t, where)
        /\ where \in Holding => thread[r][t] \in Holding \/ Room
  BY DEF OpenSession, CloseSession, SendOutcome, WriteOutcome, ThreadTimeout, Holding
<1>2. where \in ThreadStates
  BY DEF ThreadStates, Waiting, Holding
<1>3. QED
  BY <1>1, <1>2, ThreadInv

(* The request goes on when its threads have ended.                        *)
LEMMA JoinInv ==
  ASSUME ServerInv, NEW r \in Requests, Join(r)
  PROVE  ServerInv'
<1>1. pc[r] = "threads" /\ own' \in {own, own \ {r}} /\ UNCHANGED <<thread, lock>>
  BY DEF Join
<1>2. CASE Return(r)
  BY <1>1, <1>2, PlainReturn
<1>3. CASE GoOn(r, "reread")
  <2>1. "reread" \in Points \ {"graph", "decide", "lock"}
    BY DEF Points
  <2>2. QED
    BY <1>1, <1>3, <2>1, PlainGoOn
<1>4. QED
  BY <1>2, <1>3 DEF Join

-----------------------------------------------------------------------------
(* The invariant holds initially.                                          *)
LEMMA InitInv == Init => ServerInv
<1> SUFFICES ASSUME Init
             PROVE  ServerInv
  OBVIOUS
<1>1. Typed
  BY DEF Init, Typed, Points, ThreadStates, NoThreads
<1>2. Pooled
  <2>1. own = {} /\ Held = {} /\ Graphs = {}
    BY DEF Init, Held, Graphs, NoThreads, Holding
  <2>2. /\ IsFiniteSet(own) /\ IsFiniteSet(Held) /\ IsFiniteSet(Graphs)
        /\ Cardinality(own) = 0 /\ Cardinality(Held) = 0 /\ Cardinality(Graphs) = 0
    BY <2>1, FS_EmptySet
  <2>3. Open = 0
    BY <2>2, OpenIsSum
  <2>4. QED
    BY <2>2, <2>3, ServerAssumption DEF Pooled
<1>3. Locked
  BY DEF Init, Locked, LockHolderNeedsNoPool
<1>4. QED
  BY <1>1, <1>2, <1>3 DEF ServerInv

(* Every step keeps the invariant.                                         *)
LEMMA NextInv == ServerInv /\ [Next]_vars => ServerInv'
<1> SUFFICES ASSUME ServerInv, [Next]_vars
             PROVE  ServerInv'
  OBVIOUS
<1>1. CASE UNCHANGED vars
  BY <1>1 DEF vars, ServerInv, Typed, Pooled, Open, Held, Graphs, Locked,
              LockHolderNeedsNoPool
<1>2. ASSUME NEW r \in Requests, Progress(r)
      PROVE  ServerInv'
  BY <1>2, ConnectInv, LockRowInv, CommitInv, RefuseInv, SendWriteInv, WriteInv, LookInv, IngestInv,
     RefreshInv, GitInv, CallWorkerInv, OpenGraphInv, CloseGraphInv, StartThreadsInv,
     ThreadsInv, JoinInv, CloseRequestInv DEF Progress
<1>3. ASSUME NEW r \in Requests, Timeout(r)
      PROVE  ServerInv'
  BY <1>3, PoolTimeoutInv, ThreadsInv DEF Timeout
<1>4. QED
  BY <1>1, <1>2, <1>3, BeginInv DEF Next

(* The invariant is one.                                                   *)
LEMMA InvHolds == Spec => []ServerInv
BY InitInv, NextInv, PTL DEF Spec

(* The pool never gives out more connections than it may, to requests and  *)
(* to the worker together.                                                 *)
THEOREM TypeCorrect == Spec => []TypeOK
<1>1. ServerInv => TypeOK
  BY DEF ServerInv, Typed, Pooled, TypeOK
<1>2. QED
  BY <1>1, InvHolds, PTL

(* The holder of the row lock waits for nobody: it has its connection, and *)
(* either decides or only has to be closed.                                *)
THEOREM LockIsGivenUp == Spec => []LockHolderNeedsNoPool
<1>1. ServerInv => LockHolderNeedsNoPool
  BY DEF ServerInv, Locked
<1>2. QED
  BY <1>1, InvHolds, PTL

-----------------------------------------------------------------------------
(* Who waits for whom.                                                     *)

(* Who has a connection of his own, and where a handler on the loop is.    *)
Seated(r) ==
  /\ r \in own => pc[r] \notin {"idle", "connect", "refresh", "reread"}
  /\ pc[r] \in {"lock", "work", "update", "to_graph", "graph", "start", "threads"} => r \in own
  /\ r = loop => /\ pc[r] \in {"connect", "work", "refresh", "git", "write_git"}
                 /\ kind[r] \in OnLoop

Placed == \A r \in Requests : Seated(r)

(* A step of r that leaves the others where they are.                      *)
LEMMA OthersSeated ==
  ASSUME Placed, NEW r \in Requests, Seated(r)',
         \A q \in Requests \ {r} :
           /\ pc'[q] = pc[q] /\ kind'[q] = kind[q] /\ (q \in own' <=> q \in own)
           /\ q = loop' => q = loop
  PROVE  Placed'
<1>1. ASSUME NEW q \in Requests \ {r}
      PROVE  Seated(q)'
  BY DEF Placed, Seated
<1>2. QED
  BY <1>1 DEF Placed

(* The handler moves, and what kind of endpoint it is for is the same.     *)
LEMMA SeatedGoOn ==
  ASSUME Typed, Placed, NEW r \in Requests, NEW to \in Points, GoOn(r, to),
         own' \in {own, own \cup {r}, own \ {r}},
         r \in own' => to \notin {"idle", "connect", "refresh", "reread"},
         to \in {"lock", "work", "update", "to_graph", "graph", "start", "threads"} => r \in own',
         r = loop => to \in {"connect", "work", "refresh", "git", "write_git"}
  PROVE  Placed'
<1>1. /\ pc' \in [Requests -> Points] /\ pc'[r] = to
      /\ \A q \in Requests \ {r} : pc'[q] = pc[q]
      /\ UNCHANGED <<kind, loop>>
  BY Moves DEF GoOn
<1>2. Seated(r)'
  BY <1>1 DEF Placed, Seated
<1>3. QED
  BY <1>1, <1>2, OthersSeated

(* The handler returns, and leaves the loop.                               *)
LEMMA SeatedReturn ==
  ASSUME Typed, Placed, NEW r \in Requests, Return(r),
         own' \in {own, own \cup {r}, own \ {r}}
  PROVE  Placed'
<1>1. /\ pc' \in [Requests -> Points] /\ pc'[r] = "returned"
      /\ \A q \in Requests \ {r} : pc'[q] = pc[q]
  BY Moves, Returns DEF Points
<1>2. /\ \A q \in Requests \ {r} : kind'[q] = kind[q]
      /\ loop' = NoRequest \/ (loop' = loop /\ loop # r)
  BY DEF Return, Typed
<1>3. Seated(r)'
  BY <1>1, <1>2, ServerAssumption DEF Seated
<1>4. QED
  BY <1>1, <1>2, <1>3, OthersSeated, ServerAssumption

(* The threads of the worker move, and no handler does.                    *)
LEMMA SeatedThreads ==
  ASSUME Placed, UNCHANGED <<kind, pc, own, loop>>
  PROVE  Placed'
BY DEF Placed, Seated

(* A request arrives.                                                      *)
LEMMA SeatedBegin ==
  ASSUME Typed, Placed, NEW r \in Requests, NEW k \in Kinds, Begin(r, k)
  PROVE  Placed'
<1>1. /\ pc' \in [Requests -> Points] /\ pc'[r] = "connect"
      /\ \A q \in Requests \ {r} : pc'[q] = pc[q]
  BY Moves DEF Begin, Points
<1>2. /\ pc[r] = "idle" /\ loop = NoRequest /\ UNCHANGED own
      /\ kind'[r] = k /\ \A q \in Requests \ {r} : kind'[q] = kind[q]
      /\ loop' = r => k \in OnLoop
      /\ loop' \in {r, NoRequest}
  BY ServerAssumption DEF Begin, Typed
<1>3. Seated(r)'
  BY <1>1, <1>2 DEF Placed, Seated
<1>4. QED
  BY <1>1, <1>2, <1>3, OthersSeated, ServerAssumption

(* A handshake is over, or the session of a request is closed.             *)
LEMMA SeatedEnd ==
  ASSUME Typed, Placed, NEW r \in Requests, Goto(r, "idle"), own' = own \ {r},
         loop' = NoRequest, \A q \in Requests \ {r} : kind'[q] = kind[q]
  PROVE  Placed'
<1>1. pc'[r] = "idle" /\ \A q \in Requests \ {r} : pc'[q] = pc[q]
  BY Moves DEF Points
<1>2. Seated(r)'
  BY <1>1, ServerAssumption DEF Seated
<1>3. QED
  BY <1>1, <1>2, OthersSeated, ServerAssumption

(* Steps of a request that go on with its connection as it is.             *)
LEMMA SeatedHandler ==
  ASSUME Typed, Placed, NEW r \in Requests,
         \/ Connect(r) \/ LockRow(r) \/ Commit(r) \/ Refuse(r) \/ SendWrite(r) \/ Write(r)
         \/ Ingest(r) \/ Git(r) \/ WriteGit(r) \/ PoolTimeout(r)
  PROVE  Placed'
<1>1. CASE Return(r) /\ own' \in {own, own \ {r}}
  BY <1>1, SeatedReturn
<1>2. CASE Connect(r)
  <2>1. PICK to \in {"lock", "work"} : GoOn(r, to) /\ (kind[r] \in OnLoop => to = "work")
    BY <1>2 DEF Connect, GoOn, OnLoop
  <2>2. to \in Points /\ own' = own \cup {r} /\ (r = loop => to = "work")
    BY <1>2, <2>1 DEF Connect, Points, Placed, Seated
  <2>3. QED
    BY <2>1, <2>2, SeatedGoOn
<1>3. CASE LockRow(r) /\ GoOn(r, "decide") /\ UNCHANGED own
  <2>1. pc[r] = "lock" /\ r \in own /\ r # loop /\ "decide" \in Points
    BY <1>3 DEF LockRow, Placed, Seated, Points
  <2>2. QED
    BY <1>3, <2>1, SeatedGoOn
<1>4. CASE (Commit(r) \/ Write(r)) /\ own' = own \ {r}
             /\ (GoOn(r, "reread") \/ GoOn(r, "refresh"))
  <2>1. r # loop
    BY <1>4 DEF Commit, Write, Placed, Seated, OnLoop
  <2>2. "reread" \in Points /\ "refresh" \in Points
    BY DEF Points
  <2>3. QED
    BY <1>4, <2>1, <2>2, SeatedGoOn
<1>5. CASE Ingest(r)
  <2>1. PICK to \in {"refresh", "git"} :
          GoOn(r, to) /\ own' \in {own, own \ {r}} /\ (to = "refresh" => r \notin own')
    BY <1>5 DEF Ingest, GoOn
  <2>2. to \in Points
    BY DEF Points
  <2>3. QED
    BY <2>1, <2>2, SeatedGoOn
<1>6. CASE GoOn(r, "write_git") /\ UNCHANGED own
  BY <1>6, SeatedGoOn DEF Points
<1>7. CASE SendWrite(r)
  <2>1. r \in own /\ r # loop /\ "update" \in Points
    BY <1>7 DEF SendWrite, Placed, Seated, OnLoop, Points
  <2>2. QED
    BY <1>7, <2>1, SeatedGoOn DEF SendWrite
<1>8. QED
  BY <1>1, <1>2, <1>3, <1>4, <1>5, <1>6, <1>7 DEF LockRow, Commit, Committed, Refuse, Write,
     Git, WriteGit, PoolTimeout

(* The row is read again.                                                  *)
LEMMA SeatedRefresh ==
  ASSUME Typed, Placed, NEW r \in Requests, Refresh(r)
  PROVE  Placed'
<1>1. own' = own \cup {r}
  BY DEF Refresh
<1>2. CASE Return(r)
  BY <1>1, <1>2, SeatedReturn
<1>3. CASE GoOn(r, "start") /\ kind[r] = "agent"
  <2>1. r # loop /\ "start" \in Points
    BY <1>3 DEF Placed, Seated, OnLoop, Points
  <2>2. QED
    BY <1>1, <1>3, <2>1, SeatedGoOn
<1>4. CASE GoOn(r, "git")
  BY <1>1, <1>4, SeatedGoOn DEF Points
<1>5. QED
  BY <1>2, <1>3, <1>4 DEF Refresh

(* A session has nothing to write.                                         *)
LEMMA SeatedLook ==
  ASSUME Typed, Placed, NEW r \in Requests, Look(r)
  PROVE  Placed'
<1>1. CASE Return(r) /\ UNCHANGED own
  BY <1>1, SeatedReturn
<1>2. CASE /\ own' = own \ {r} /\ loop' = NoRequest
           /\ kind' = [kind EXCEPT ![r] = "none"] /\ Goto(r, "idle")
  BY <1>2, SeatedEnd DEF Typed
<1>3. QED
  BY <1>1, <1>2 DEF Look

(* The request calls the worker, and goes on when it is done.              *)
LEMMA SeatedWorker ==
  ASSUME Typed, Placed, NEW r \in Requests,
         \/ CallWorker(r) \/ OpenGraph(r) \/ CloseGraph(r) \/ StartThreads(r) \/ Join(r)
  PROVE  Placed'
<1>1. CASE Return(r) /\ UNCHANGED own
  BY <1>1, SeatedReturn
<1>2. r # loop
  BY DEF CallWorker, OpenGraph, CloseGraph, StartThreads, Join, Placed, Seated, OnLoop, Return
<1>3. CASE GoOn(r, "reread") /\ own' = own \ {r}
  BY <1>2, <1>3, SeatedGoOn DEF Points
<1>4. ASSUME NEW to \in {"start", "to_graph", "graph", "threads"}, GoOn(r, to),
             UNCHANGED own, r \in own
      PROVE  Placed'
  BY <1>2, <1>4, SeatedGoOn DEF Points
<1>5. QED
  BY <1>1, <1>3, <1>4 DEF CallWorker, OpenGraph, CloseGraph, StartThreads, Join, GoOn, Placed,
     Seated


(* Every step keeps it.                                                    *)
LEMMA NextPlaced == Typed /\ Placed /\ [Next]_vars => Placed'
<1> SUFFICES ASSUME Typed, Placed, [Next]_vars
             PROVE  Placed'
  OBVIOUS
<1>1. CASE UNCHANGED vars
  BY <1>1, SeatedThreads DEF vars
<1>2. ASSUME NEW r \in Requests, CloseRequest(r)
      PROVE  Placed'
  <2>1. loop' = NoRequest /\ UNCHANGED kind /\ Goto(r, "idle") /\ own' = own \ {r}
    BY <1>2 DEF CloseRequest
  <2>2. QED
    BY <2>1, SeatedEnd
<1>3. ASSUME NEW r \in Requests, NEW t \in Fan,
             \/ OpenSession(r, t) \/ CloseSession(r, t) \/ SendOutcome(r, t)
             \/ WriteOutcome(r, t) \/ ThreadTimeout(r, t)
      PROVE  Placed'
  <2>1. UNCHANGED <<kind, pc, own, loop>>
    BY <1>3 DEF OpenSession, CloseSession, SendOutcome, WriteOutcome, ThreadTimeout, ThreadGoto
  <2>2. QED
    BY <2>1, SeatedThreads
<1>4. ASSUME NEW r \in Requests, Progress(r)
      PROVE  Placed'
  BY <1>2, <1>3, <1>4, SeatedHandler, SeatedRefresh, SeatedLook, SeatedWorker DEF Progress
<1>5. ASSUME NEW r \in Requests, Timeout(r)
      PROVE  Placed'
  BY <1>3, <1>5, SeatedHandler DEF Timeout
<1>6. QED
  BY <1>1, <1>4, <1>5, SeatedBegin DEF Next

(* A pool without room has given a connection to somebody.                 *)
LEMMA FullPool ==
  ASSUME Pooled, ~Room
  PROVE  \/ \E r : r \in own
         \/ \E r \in Requests, t \in Fan : thread[r][t] \in Holding
         \/ \E r \in Requests : pc[r] = "graph"
<1>1. /\ Open = Cardinality(own) + Cardinality(Held) + Cardinality(Graphs)
      /\ Cardinality(own) \in Nat /\ Cardinality(Held) \in Nat
      /\ Cardinality(Graphs) \in Nat
  BY OpenIsSum DEF Pooled
<1>2. Open > 0
  BY <1>1, ServerAssumption DEF Room
<1>3. SUFFICES ASSUME own = {}, Held = {}, Graphs = {} PROVE FALSE
  BY DEF Held, Graphs
<1>4. Cardinality(own) = 0 /\ Cardinality(Held) = 0 /\ Cardinality(Graphs) = 0
  BY <1>3, FS_EmptySet
<1>5. QED
  BY <1>1, <1>2, <1>4

(* Where nobody can go on, the reason is one of the three.                 *)
LEMMA NoOther == ServerInv /\ Placed => NoOtherCircle
<1> SUFFICES ASSUME ServerInv, Placed, NEW r0 \in Requests, pc[r0] # "idle",
                    \A r \in Requests : ~Ready(r),
                    ~LoopLocked, \A r \in Requests : ~WantsSecond(r),
                    ~(loop # NoRequest /\ pc[loop] \in {"connect", "refresh"})
             PROVE  FALSE
  BY DEF NoOtherCircle
<1>1. Typed /\ Pooled /\ Locked
  BY DEF ServerInv
<1>2. loop = NoRequest \/ (loop \in Requests /\ pc[loop] = "write_git")
  BY <1>1 DEF Typed, Placed, Seated, Ready
<1>3. lock = NoRequest
  <2>1. SUFFICES ASSUME lock \in Requests PROVE FALSE
    BY <1>1 DEF Typed
  <2>2. pc[lock] = "returned"
    BY <1>1, <2>1, ServerAssumption DEF Locked, LockHolderNeedsNoPool, Ready
  <2>3. loop # NoRequest
    BY <2>1, <2>2 DEF Ready
  <2>4. QED
    BY <1>2, <2>1, <2>2, <2>3, ServerAssumption DEF LoopLocked
<1>4. loop = NoRequest
  BY <1>2, <1>3 DEF Ready
<1>5. ASSUME NEW r \in Requests
      PROVE  /\ pc[r] \in {"idle", "connect", "refresh", "reread", "to_graph", "threads"}
             /\ pc[r] \notin {"to_graph", "threads"}
             /\ \A t \in Fan : thread[r][t] \notin Holding
  <2>1. pc[r] \in {"idle", "connect", "refresh", "reread", "to_graph", "threads"}
    BY <1>1, <1>3, <1>4 DEF Typed, Points, Ready
  <2>2. \A t \in Fan : thread[r][t] \notin Holding
    BY <1>3 DEF Ready, Holding
  <2>3. pc[r] # "to_graph"
    BY DEF Placed, Seated, WantsSecond
  <2>4. pc[r] # "threads"
    <3>1. SUFFICES ASSUME pc[r] = "threads" PROVE FALSE
      OBVIOUS
    <3>2. r \in own /\ thread[r] # NoThreads
      BY <3>1 DEF Placed, Seated, Ready
    <3>3. \A t \in Fan : thread[r][t] = "ended"
      BY <1>1, <2>2, <3>2 DEF WantsSecond, Typed, ThreadStates
    <3>4. thread[r] \in [Fan -> ThreadStates]
      BY <1>1 DEF Typed
    <3>5. QED
      BY <3>2, <3>3, <3>4 DEF NoThreads
  <2>5. QED
    BY <2>1, <2>2, <2>3, <2>4
<1>6. ~Room
  BY <1>5 DEF Ready
<1>7. own = {}
  BY <1>1, <1>5 DEF Typed, Placed, Seated
<1>8. QED
  BY <1>1, <1>5, <1>6, <1>7, FullPool

(* Requests that wait, and none of which can go on, wait because the       *)
(* webhook on the loop and a refused request wait for each other, because  *)
(* a worker or the loop wants a connection while the pool is used up; the  *)
(* endpoints with one session never close a circle by themselves.          *)
THEOREM OnlyKnownCircles == Spec => []NoOtherCircle
<1>1. Init => Placed
  BY ServerAssumption DEF Init, Placed, Seated
<1>2. ServerInv => Typed
  BY DEF ServerInv
<1>3. QED
  BY <1>1, <1>2, NextPlaced, NoOther, InvHolds, PTL DEF Spec

-----------------------------------------------------------------------------
(* What ends a wait.                                                       *)

(* The guard of Timeout.                                                   *)
MayTimeOut(r) ==
  /\ ~Room
  /\ \/ pc[r] \in {"connect", "refresh", "reread", "to_graph"}
     \/ \E t \in Fan : thread[r][t] \in Waiting

WaitsEnd ==
  (\E r \in Requests : pc[r] # "idle")
    => LoopLocked \/ \E r \in Requests : Ready(r) \/ MayTimeOut(r)

(* Of the circles, the time limit of the pool opens all but the one that   *)
(* goes through the loop and the row lock: unless the process is in        *)
(* LoopLocked, a request under way always has a step, its own or another's.*)
THEOREM OnlyLoopLockedLasts == Spec => []WaitsEnd
<1>1. ASSUME Typed, NoOtherCircle
      PROVE  WaitsEnd
  <2>1. SUFFICES ASSUME \E r \in Requests : pc[r] # "idle", ~LoopLocked,
                        \A r \in Requests : ~Ready(r)
                 PROVE  \E r \in Requests : MayTimeOut(r)
    BY DEF WaitsEnd
  <2>2. CASE \E r \in Requests : WantsSecond(r)
    <3>1. PICK r \in Requests : WantsSecond(r)
      BY <2>2
    <3>2. ~Ready(r)
      BY <2>1
    <3>3. MayTimeOut(r)
      BY <3>1, <3>2 DEF WantsSecond, Ready, MayTimeOut
    <3>4. QED
      BY <3>3
  <2>3. CASE loop # NoRequest /\ pc[loop] \in {"connect", "refresh"}
    <3>1. loop \in Requests
      BY <1>1, <2>3 DEF Typed
    <3>2. ~Ready(loop)
      BY <2>1, <3>1
    <3>3. MayTimeOut(loop)
      BY <2>3, <3>2 DEF Ready, MayTimeOut
    <3>4. QED
      BY <3>1, <3>3
  <2>4. QED
    BY <1>1, <2>1, <2>2, <2>3 DEF NoOtherCircle
<1>2. ServerInv => Typed
  BY DEF ServerInv
<1>3. QED
  BY <1>1, <1>2, OnlyKnownCircles, InvHolds, PTL

(* Without git no handler gets to a git command.                           *)
NoGit == \A r \in Requests : pc[r] \notin {"git", "write_git"}

(* A handler that moves, and not to git.                                   *)
LEMMA NoGitMove ==
  ASSUME Typed, NoGit, NEW r \in Requests, NEW to \in Points \ {"git", "write_git"},
         Goto(r, to)
  PROVE  NoGit'
BY Moves DEF NoGit

(* Every step keeps it: the webhook does not get there.                    *)
LEMMA NoGitStep ==
  ASSUME ~GitEnabled
  PROVE  Typed /\ NoGit /\ [Next]_vars => NoGit'
<1> SUFFICES ASSUME Typed, NoGit, [Next]_vars
             PROVE  NoGit'
  OBVIOUS
<1>1. CASE UNCHANGED pc
  BY <1>1 DEF NoGit
<1>2. ASSUME NEW r \in Requests, Return(r)
      PROVE  NoGit'
  BY <1>2, NoGitMove DEF Return, Points
<1>3. ASSUME NEW r \in Requests, NEW to \in Points \ {"git", "write_git"},
             Goto(r, to) \/ GoOn(r, to)
      PROVE  NoGit'
  BY <1>3, NoGitMove DEF GoOn
<1>4. ASSUME NEW r \in Requests, NEW k \in Kinds, Begin(r, k)
      PROVE  NoGit'
  BY <1>3, <1>4 DEF Begin, Points
<1>5. ASSUME NEW r \in Requests,
             Connect(r) \/ LockRow(r) \/ Commit(r) \/ Refuse(r) \/ SendWrite(r) \/ Write(r)
      PROVE  NoGit'
  BY <1>2, <1>3, <1>5 DEF Connect, LockRow, Commit, Committed, Refuse, SendWrite, Write, Points
<1>6. ASSUME NEW r \in Requests,
             Look(r) \/ Ingest(r) \/ Refresh(r) \/ Git(r) \/ WriteGit(r)
      PROVE  NoGit'
  <2>1. ~Git(r) /\ ~WriteGit(r)
    BY DEF Git, WriteGit, NoGit
  <2>2. QED
    BY <1>2, <1>3, <1>6, <2>1 DEF Look, Ingest, Refresh, Points
<1>7. ASSUME NEW r \in Requests,
             \/ CallWorker(r) \/ OpenGraph(r) \/ CloseGraph(r) \/ StartThreads(r) \/ Join(r)
             \/ CloseRequest(r)
      PROVE  NoGit'
  BY <1>2, <1>3, <1>7
  DEF CallWorker, OpenGraph, CloseGraph, StartThreads, Join, CloseRequest, Points
<1>8. ASSUME NEW r \in Requests, NEW t \in Fan,
             \/ OpenSession(r, t) \/ CloseSession(r, t) \/ SendOutcome(r, t)
             \/ WriteOutcome(r, t) \/ ThreadTimeout(r, t)
      PROVE  NoGit'
  BY <1>1, <1>8
  DEF OpenSession, CloseSession, SendOutcome, WriteOutcome, ThreadTimeout, ThreadGoto
<1>9. ASSUME NEW r \in Requests, PoolTimeout(r)
      PROVE  NoGit'
  BY <1>2, <1>9 DEF PoolTimeout
<1>10. QED
  BY <1>1, <1>4, <1>5, <1>6, <1>7, <1>8, <1>9 DEF Next, Progress, Timeout, vars

(* With SOY_GIT_ENABLED unset, which is its default, the loop never waits  *)
(* for a row: the time limit of the pool opens every circle there is.      *)
THEOREM NoLoopLockWithoutGit ==
  ASSUME ~GitEnabled
  PROVE  Spec => []~LoopLocked
<1>1. Init => NoGit
  BY DEF Init, NoGit
<1>2. ServerInv => Typed
  BY DEF ServerInv
<1>3. Typed /\ NoGit => ~LoopLocked
  BY DEF Typed, NoGit, LoopLocked
<1>4. QED
  BY <1>1, <1>2, <1>3, NoGitStep, InvHolds, PTL DEF Spec

===============================================================================
