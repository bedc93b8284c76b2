---------------------------- MODULE GitWork_proofs ----------------------------
(***************************************************************************)
(* Proofs about the git side of a mission, for any number of calls, of     *)
(* tasks and of names for its branch.                                      *)
(***************************************************************************)
EXTENDS GitWork, TLAPS

-----------------------------------------------------------------------------
(* The inductive invariant.                                                *)

(* Every branch but main is named for a request that read its name, and    *)
(* holds nothing before it exists; what is on record exists, and so does   *)
(* what a call or a task goes on to use.                                   *)
KnownNames ==
  /\ \A b \in Branches : b \notin branches => commits[b] = {}
  /\ \A b \in branches : b = "main" \/ \E c \in Calls : name[c] = b
  /\ row.branch # NoName => row.branch \in branches
  /\ tree # NoTree => tree.branch \in branches
  /\ \A t \in Tasks : pc[t] = "worktree" => name[t] \in branches
  /\ \A c \in Calls :
       /\ pc[c] \in {"idle", "load"} => name[c] = NoName
       /\ pc[c] \in {"clone", "switch", "create"} => name[c] \in Names
       /\ pc[c] = "switch" => branches # {}
       /\ pc[c] \in {"spec", "record_branch", "checkout", "merge"} => name[c] \in branches

(* The autonomous run that created its branch, as long as it goes well;    *)
(* the others end where they would have created it, and none takes the     *)
(* steps of the webhook.                                                   *)
HasCreated(c) ==
  /\ op[c] = "auto_run"
  /\ pc[c] \in {"record_branch", "agent", "commit", "checkout", "merge",
                "record_merge", "merged"}

OneHasCreated ==
  /\ \A c \in Calls : HasCreated(c) =>
       /\ name[c] \in branches \ {"main"}
       /\ \A d \in Calls : HasCreated(d) /\ name[d] = name[c] => d = c
  /\ \A c \in Calls : op[c] = "auto_run" => pc[c] \notin {"clone", "switch", "spec"}

(* While the branch keeps its name, the index has only what a merge of the *)
(* branch left in it, so a squash of the branch into itself has nothing to *)
(* commit.                                                                 *)
IndexFromBranch ==
  /\ (\A c \in Calls : name[c] = NoName) => staged = {}
  /\ OneName => \A c \in Calls : name[c] # NoName => staged \subseteq commits[name[c]]

(* The work of a run is in main or nowhere in the repository.              *)
InMainOrNowhere(c) ==
  c \in commits["main"] \/ (c \notin staged /\ \A b \in Branches : c \notin commits[b])

(* The agent of the run has left nothing in the files once the run has     *)
(* committed, and nothing on a branch alone once it has merged.            *)
RunLeavesNothing ==
  \A c \in Calls : op[c] = "auto_run" =>
    /\ pc[c] \in {"checkout", "merge", "record_merge", "merged"} => c \notin dirty
    /\ OneName /\ pc[c] \in {"record_merge", "merged"} => InMainOrNowhere(c)

GitInv ==
  /\ TypeOK
  /\ KnownNames
  /\ OneHasCreated
  /\ IndexFromBranch
  /\ RunLeavesNothing

(* Beside the types: tasks go one by one, each starts with an empty        *)
(* worktree, and only those that committed have work on a branch.          *)
TaskInv ==
  /\ \A t, u \in Tasks : Active(t) /\ Active(u) => t = u
  /\ \A t \in Tasks : pc[t] \in {"agent", "push"} => tree = NoTree \/ tree.work \subseteq {t}
  /\ \A t \in Tasks : t \in staged \/ (\E b \in Branches : t \in commits[b]) =>
       pc[t] \in {"record", "completed", "dead"}

-----------------------------------------------------------------------------
(* Lemmas about the operators.                                             *)

(* Names and branches are apart from the missing name.                     *)
LEMMA BranchNames ==
  /\ "main" \in Branches /\ Names \subseteq Branches /\ NoName \notin Branches
  /\ NoName \notin Names
BY GitAssumption DEF Branches

(* Only the process that goes somewhere moves.                             *)
LEMMA GotoMoves ==
  ASSUME TypeOK, NEW p \in Work, NEW location \in Locations, Goto(p, location)
  PROVE  /\ pc' \in [Work -> Locations]
         /\ pc'[p] = location
         /\ \A q \in Work : q # p => pc'[q] = pc[q]
BY DEF TypeOK, Goto

(* A commit adds work to one branch.                                       *)
LEMMA CommitAdds ==
  ASSUME TypeOK, NEW work \in SUBSET Work, CommitToHead(work)
  PROVE  /\ commits' \in [Branches -> SUBSET Work]
         /\ commits'[head] = commits[head] \cup work
         /\ \A b \in Branches : b # head => commits'[b] = commits[b]
         /\ \A b \in Branches : commits[b] \subseteq commits'[b]
BY BranchNames DEF TypeOK, CommitToHead

(* Where a call may begin, and the name that it has read then.             *)
LEMMA FirstStepIs ==
  ASSUME TypeOK, NEW o \in Ops
  PROVE  /\ FirstStep(o) \in {"clone", "create", "load", "commit", "checkout", "error"}
         /\ o = "auto_run" => FirstStep(o) = "load"
         /\ NameFor(o) \in Names \cup {NoName}
         /\ FirstStep(o) \in {"clone", "create"} => NameFor(o) \in Names
         /\ FirstStep(o) = "load" => NameFor(o) = NoName
         /\ FirstStep(o) = "checkout" => NameFor(o) = row.branch /\ row.branch # NoName
<1>1. /\ FirstStep("webhook") = "clone" /\ FirstStep("branch") = "create"
      /\ FirstStep("auto_run") = "load" /\ FirstStep("commit") = "commit"
      /\ FirstStep("squash") = IF row.branch = NoName THEN "error" ELSE "checkout"
      /\ FirstStep("merge") = IF row.branch = NoName THEN "error" ELSE "checkout"
  BY DEF FirstStep
<1>2. /\ NameFor("webhook") = row.prefix /\ NameFor("branch") = row.prefix
      /\ NameFor("auto_run") = NoName /\ NameFor("commit") = NoName
      /\ NameFor("squash") = row.branch /\ NameFor("merge") = row.branch
  BY DEF NameFor
<1>3. row.prefix \in Names /\ row.branch \in Names \cup {NoName}
  BY DEF TypeOK
<1>4. QED
  BY <1>1, <1>2, <1>3 DEF Ops

(* The work that git handles is work.                                      *)
LEMMA WorkSets ==
  ASSUME TypeOK, NEW c \in Calls, name[c] \in Branches
  PROVE  /\ Unmerged(c) \in SUBSET Work /\ Unmerged(c) \subseteq commits[name[c]]
         /\ commits[name[c]] \subseteq Unmerged(c) \cup commits[head]
BY DEF TypeOK, Unmerged

LEMMA IndexSets ==
  ASSUME TypeOK
  PROVE  /\ InIndex \in SUBSET Work /\ InIndex \subseteq staged
         /\ staged \subseteq InIndex \cup commits[head]
         /\ Uncommitted \in SUBSET Work /\ Uncommitted \subseteq staged \cup dirty
BY DEF TypeOK, InIndex, Uncommitted, Work

-----------------------------------------------------------------------------
(* Every step keeps the invariant.                                         *)

(* The invariant holds initially.                                          *)
LEMMA InitInv == Init => GitInv
<1> SUFFICES ASSUME Init
             PROVE  GitInv
  OBVIOUS
<1>1. TypeOK
  BY BranchNames DEF Init, TypeOK, Ops, Locations
<1>2. KnownNames
  BY <1>1, BranchNames DEF Init, KnownNames, Work
<1>3. OneHasCreated /\ IndexFromBranch /\ RunLeavesNothing
  BY <1>1 DEF Init, OneHasCreated, HasCreated, IndexFromBranch, RunLeavesNothing, Work
<1>4. QED
  BY <1>1, <1>2, <1>3 DEF GitInv

(* A name, once read, stays; so a second name stays a second name.         *)
LEMMA NamesStay ==
  ASSUME TypeOK, NEW c \in Calls, NEW n, name' = [name EXCEPT ![c] = n], name[c] = NoName
  PROVE  /\ \A d \in Calls : name[d] # NoName => name'[d] = name[d]
         /\ OneName' => OneName
<1>1. \A d \in Calls : d # c => name'[d] = name[d]
  BY DEF TypeOK, Work
<1>2. QED
  BY <1>1 DEF OneName

(* A call that reads a name and touches nothing else.                      *)
LEMMA ReadsName ==
  ASSUME GitInv, NEW c \in Calls, NEW n \in Names \cup {NoName},
         name' = [name EXCEPT ![c] = n], name[c] = NoName,
         UNCHANGED <<branches, commits, staged>>
  PROVE  /\ name' \in [Work -> Names \cup {NoName}]
         /\ name'[c] = n /\ \A p \in Work : p # c => name'[p] = name[p]
         /\ \A b \in branches : b = "main" \/ \E d \in Calls : name'[d] = b
         /\ IndexFromBranch'
<1>1. /\ name' \in [Work -> Names \cup {NoName}]
      /\ name'[c] = n /\ \A p \in Work : p # c => name'[p] = name[p]
      /\ \A d \in Calls : d # c => name'[d] = name[d]
  BY DEF GitInv, TypeOK, Work
<1>2. (\A d \in Calls : name[d] # NoName => name'[d] = name[d]) /\ (OneName' => OneName)
  BY NamesStay DEF GitInv
<1>3. \A b \in branches : b = "main" \/ \E d \in Calls : name'[d] = b
  <2>1. \A b \in branches : b # NoName
    BY BranchNames DEF GitInv, TypeOK
  <2>2. QED
    BY <1>2, <2>1 DEF GitInv, KnownNames
<1>4. (\A d \in Calls : name'[d] = NoName) => staged = {}
  BY <1>1 DEF GitInv, IndexFromBranch
<1>5. ASSUME OneName', NEW d \in Calls, name'[d] # NoName
      PROVE  staged \subseteq commits[name'[d]]
  <2>1. CASE \A e \in Calls : name[e] = NoName
    BY <2>1 DEF GitInv, IndexFromBranch
  <2>2. CASE \E e \in Calls : name[e] # NoName
    <3>1. PICK e \in Calls : name[e] # NoName
      BY <2>2
    <3>2. name'[e] = name[e] /\ name'[d] = name'[e]
      BY <1>2, <1>5, <3>1 DEF OneName
    <3>3. QED
      BY <1>2, <1>5, <3>1, <3>2 DEF GitInv, IndexFromBranch
  <2>3. QED
    BY <2>1, <2>2
<1>6. IndexFromBranch'
  BY <1>4, <1>5 DEF IndexFromBranch
<1>7. QED
  BY <1>1, <1>3, <1>6

(* A call begins.                                                          *)
LEMMA BeginInv ==
  ASSUME GitInv, NEW c \in Calls, Begin(c)
  PROVE  GitInv'
<1>1. PICK o \in Ops : /\ op' = [op EXCEPT ![c] = o] /\ Goto(c, FirstStep(o))
                       /\ name' = [name EXCEPT ![c] = NameFor(o)]
                       /\ UNCHANGED row \/ Rename
  BY DEF Begin
<1>2. /\ pc[c] = "idle" /\ name[c] = NoName
      /\ UNCHANGED <<branches, head, commits, staged, dirty, tree>>
  BY DEF Begin, cloneVars, GitInv, KnownNames
<1>3. /\ pc' \in [Work -> Locations]
      /\ pc'[c] = FirstStep(o)
      /\ \A q \in Work : q # c => pc'[q] = pc[q]
      /\ \A q \in Tasks : pc'[q] = pc[q]
  <2>1. FirstStep(o) \in Locations /\ c \in Work
    BY FirstStepIs DEF GitInv, Locations, Outcomes, Work
  <2>2. QED
    BY <1>1, <2>1, GotoMoves, GitAssumption DEF GitInv, Work
<1>4. /\ op'[c] = o /\ \A d \in Calls : d # c => op'[d] = op[d]
      /\ op' \in [Calls -> Ops]
  BY <1>1 DEF GitInv, TypeOK
<1>5. row' \in [prefix: Names, branch: Names \cup {NoName}, merged: BOOLEAN]
      /\ row'.branch = row.branch
  BY <1>1 DEF Rename, GitInv, TypeOK
<1>6. NameFor(o) \in Names \cup {NoName}
  BY FirstStepIs DEF GitInv
<1>7. /\ name' \in [Work -> Names \cup {NoName}]
      /\ name'[c] = NameFor(o) /\ \A p \in Work : p # c => name'[p] = name[p]
      /\ \A b \in branches : b = "main" \/ \E d \in Calls : name'[d] = b
      /\ IndexFromBranch'
      /\ OneName' => OneName
  BY <1>1, <1>2, <1>6, ReadsName, NamesStay DEF GitInv
<1>8. TypeOK'
  BY <1>2, <1>3, <1>4, <1>5, <1>7 DEF GitInv, TypeOK
<1>9. KnownNames'
  <2>1. \A t \in Tasks : name'[t] = name[t] /\ t # c
    BY <1>7, GitAssumption DEF Work
  <2>2. ASSUME NEW d \in Calls
        PROVE  /\ pc'[d] \in {"idle", "load"} => name'[d] = NoName
               /\ pc'[d] \in {"clone", "switch", "create"} => name'[d] \in Names
               /\ pc'[d] = "switch" => branches # {}
               /\ pc'[d] \in {"spec", "record_branch", "checkout", "merge"}
                    => name'[d] \in branches
    <3>1. CASE d # c
      BY <3>1, <1>3, <1>7 DEF GitInv, KnownNames, Work
    <3>2. CASE d = c
      BY <3>2, <1>3, <1>7, FirstStepIs DEF GitInv, KnownNames
    <3>3. QED
      BY <3>1, <3>2
  <2>3. QED
    BY <1>2, <1>3, <1>5, <1>7, <2>1, <2>2 DEF GitInv, KnownNames
<1>10. OneHasCreated'
  <2>1. ~HasCreated(c)' /\ \A d \in Calls : HasCreated(d)' =>
          d # c /\ HasCreated(d) /\ name'[d] = name[d]
    BY <1>3, <1>4, <1>7, FirstStepIs DEF GitInv, HasCreated, Work
  <2>2. \A d \in Calls : op'[d] = "auto_run" => pc'[d] \notin {"clone", "switch", "spec"}
    BY <1>3, <1>4, FirstStepIs DEF GitInv, OneHasCreated, Work
  <2>3. QED
    BY <1>2, <2>1, <2>2 DEF GitInv, OneHasCreated
<1>11. RunLeavesNothing'
  BY <1>2, <1>3, <1>4, <1>7, FirstStepIs
     DEF GitInv, RunLeavesNothing, InMainOrNowhere, Work
<1>12. QED
  BY <1>7, <1>8, <1>9, <1>10, <1>11 DEF GitInv

(* The row is read again, with the name it has now.                        *)
LEMMA LoadNameInv ==
  ASSUME GitInv, NEW c \in Calls, LoadName(c)
  PROVE  GitInv'
<1>1. /\ pc[c] = "load" /\ name[c] = NoName
      /\ name' = [name EXCEPT ![c] = row.prefix] /\ row.prefix \in Names
      /\ UNCHANGED <<branches, head, commits, staged, dirty, tree, row, op>>
  BY DEF LoadName, cloneVars, GitInv, KnownNames, TypeOK
<1>2. /\ pc' \in [Work -> Locations] /\ pc'[c] = "create"
      /\ \A q \in Work : q # c => pc'[q] = pc[q]
      /\ \A q \in Tasks : pc'[q] = pc[q]
  BY GotoMoves, GitAssumption DEF GitInv, LoadName, Work, Locations
<1>3. /\ name' \in [Work -> Names \cup {NoName}]
      /\ name'[c] = row.prefix /\ \A p \in Work : p # c => name'[p] = name[p]
      /\ \A b \in branches : b = "main" \/ \E d \in Calls : name'[d] = b
      /\ IndexFromBranch'
      /\ OneName' => OneName
  BY <1>1, ReadsName, NamesStay DEF GitInv
<1>4. TypeOK'
  BY <1>1, <1>2, <1>3 DEF GitInv, TypeOK
<1>5. KnownNames'
  <2>1. \A t \in Tasks : name'[t] = name[t]
    BY <1>3, GitAssumption DEF Work
  <2>2. QED
    BY <1>1, <1>2, <1>3, <2>1 DEF GitInv, KnownNames, Work
<1>6. OneHasCreated'
  <2>1. ~HasCreated(c)' /\ \A d \in Calls : HasCreated(d)' =>
          d # c /\ HasCreated(d) /\ name'[d] = name[d]
    BY <1>1, <1>2, <1>3 DEF HasCreated, Work
  <2>2. QED
    BY <1>1, <1>2, <2>1 DEF GitInv, OneHasCreated, Work
<1>7. RunLeavesNothing'
  BY <1>1, <1>2, <1>3 DEF GitInv, RunLeavesNothing, InMainOrNowhere, Work
<1>8. QED
  BY <1>3, <1>4, <1>5, <1>6, <1>7 DEF GitInv

(* The name in the row is changed.                                         *)
LEMMA PutNameInv ==
  ASSUME GitInv, PutName
  PROVE  GitInv'
<1>1. /\ UNCHANGED <<branches, head, commits, staged, dirty, tree, op, name, pc>>
      /\ row' \in [prefix: Names, branch: Names \cup {NoName}, merged: BOOLEAN]
      /\ row'.branch = row.branch
  BY DEF PutName, Rename, cloneVars, GitInv, TypeOK
<1>2. TypeOK' /\ KnownNames'
  BY <1>1 DEF GitInv, TypeOK, KnownNames
<1>3. OneHasCreated' /\ IndexFromBranch' /\ RunLeavesNothing'
  BY <1>1 DEF GitInv, OneHasCreated, HasCreated, IndexFromBranch, RunLeavesNothing,
     InMainOrNowhere, OneName
<1>4. QED
  BY <1>2, <1>3 DEF GitInv

(* A step of a call that goes on to another location.                      *)
Moves(c, from, to) ==
  /\ pc[c] = from
  /\ pc' \in [Work -> Locations]
  /\ pc'[c] = to
  /\ \A d \in Work : d # c => pc'[d] = pc[d]
  /\ \A t \in Tasks : pc'[t] = pc[t]
  /\ UNCHANGED <<tree, op, name>>

(* Going on is such a step.                                                *)
LEMMA CallMoves ==
  ASSUME GitInv, NEW c \in Calls, NEW to \in Locations, Goto(c, to),
         UNCHANGED <<tree, op, name>>
  PROVE  Moves(c, pc[c], to)
BY GotoMoves, GitAssumption DEF GitInv, Moves, Work

(* A step that keeps the names keeps the requests about one branch.        *)
LEMMA OneNameKept ==
  ASSUME UNCHANGED name
  PROVE  OneName' <=> OneName
BY DEF OneName

(* A git command of the call fails.                                        *)
LEMMA RefusesInv ==
  ASSUME GitInv, NEW c \in Calls, NEW location, GitRefuses(c, location)
  PROVE  GitInv'
<1>1. Moves(c, location, "error") /\ UNCHANGED <<cloneVars, row>>
  BY CallMoves DEF GitRefuses, Locations, Outcomes
<1>2. TypeOK' /\ KnownNames' /\ OneHasCreated'
  BY <1>1 DEF Moves, GitInv, TypeOK, KnownNames, OneHasCreated, HasCreated, cloneVars, Work
<1>3. IndexFromBranch' /\ RunLeavesNothing'
  BY <1>1, OneNameKept DEF Moves, GitInv, IndexFromBranch, RunLeavesNothing,
     InMainOrNowhere, cloneVars, Work
<1>4. QED
  BY <1>2, <1>3 DEF GitInv

(* The webhook makes the clone.                                            *)
LEMMA CloneInv ==
  ASSUME GitInv, NEW c \in Calls, Clone(c)
  PROVE  GitInv'
<1>1. Moves(c, "clone", "switch") /\ UNCHANGED <<head, commits, staged, dirty, row>>
  BY CallMoves DEF Clone, Locations
<1>2. branches' = branches \cup {"main"} /\ (branches = {} => head = "main")
  BY DEF Clone, GitInv, TypeOK
<1>3. TypeOK'
  BY <1>1, <1>2, BranchNames DEF Moves, GitInv, TypeOK
<1>4. KnownNames' /\ OneHasCreated'
  BY <1>1, <1>2 DEF Moves, GitInv, KnownNames, OneHasCreated, HasCreated, Work
<1>5. IndexFromBranch' /\ RunLeavesNothing'
  BY <1>1, OneNameKept DEF Moves, GitInv, IndexFromBranch, RunLeavesNothing,
     InMainOrNowhere, Work
<1>6. QED
  BY <1>3, <1>4, <1>5 DEF GitInv

(* A branch is checked out, made at what was checked out if it is new.     *)
LEMMA BranchMade ==
  ASSUME GitInv, NEW c \in Calls, name[c] \in Names, branches # {},
         UNCHANGED <<staged, dirty, name, row, tree>>,
         branches' = branches \cup {name[c]}, head' = name[c],
         commits' = IF name[c] \in branches THEN commits
                    ELSE [commits EXCEPT ![name[c]] = commits[head]]
  PROVE  /\ branches' \in SUBSET Branches
         /\ {head, "main"}' \subseteq branches'
         /\ commits' \in [Branches -> SUBSET Work]
         /\ \A b \in Branches : b \notin branches' => commits'[b] = {}
         /\ \A b \in branches' : b = "main" \/ \E d \in Calls : name[d] = b
         /\ row.branch # NoName => row.branch \in branches'
         /\ tree # NoTree => tree.branch \in branches'
         /\ IndexFromBranch'
         /\ \A d \in Calls : InMainOrNowhere(d) => InMainOrNowhere(d)'
<1>1. /\ name[c] \in Branches /\ name[c] # NoName /\ head \in branches /\ "main" \in branches
      /\ commits \in [Branches -> SUBSET Work] /\ branches \in SUBSET Branches
      /\ head \in Branches
  BY BranchNames DEF GitInv, TypeOK
<1>2. /\ commits' \in [Branches -> SUBSET Work]
      /\ \A b \in Branches : b # name[c] => commits'[b] = commits[b]
      /\ commits'[name[c]] = IF name[c] \in branches THEN commits[name[c]] ELSE commits[head]
  BY <1>1
<1>3. /\ \A b \in Branches : b \notin branches' => commits'[b] = {}
      /\ \A b \in branches' : b = "main" \/ \E d \in Calls : name[d] = b
      /\ row.branch # NoName => row.branch \in branches'
      /\ tree # NoTree => tree.branch \in branches'
  BY <1>1, <1>2 DEF GitInv, KnownNames
<1>4. \A b \in Branches : commits[b] \subseteq commits'[b]
  BY <1>1, <1>2 DEF GitInv, KnownNames
<1>5. IndexFromBranch'
  <2>1. \A d \in Calls : name[d] # NoName => name[d] \in Branches
    BY BranchNames DEF GitInv, TypeOK, Work
  <2>2. QED
    BY <1>4, <2>1, OneNameKept DEF GitInv, IndexFromBranch
<1>6. \A d \in Calls : InMainOrNowhere(d) => InMainOrNowhere(d)'
  BY <1>1, <1>2, BranchNames DEF InMainOrNowhere
<1>7. QED
  BY <1>1, <1>2, <1>3, <1>5, <1>6

(* The webhook checks the branch out.                                      *)
LEMMA SwitchInv ==
  ASSUME GitInv, NEW c \in Calls, SwitchBranch(c)
  PROVE  GitInv'
<1>1. Moves(c, "switch", "spec") /\ UNCHANGED <<staged, dirty, row>>
  BY CallMoves DEF SwitchBranch, Locations
<1>2. /\ branches # {} /\ name[c] \in Names
      /\ branches' = branches \cup {name[c]} /\ head' = name[c]
      /\ commits' = IF name[c] \in branches THEN commits
                    ELSE [commits EXCEPT ![name[c]] = commits[head]]
  BY <1>1 DEF SwitchBranch, Moves, GitInv, KnownNames
<1>3. UNCHANGED <<staged, dirty, name, row, tree, op>>
  BY <1>1 DEF Moves
<1>4. /\ branches' \in SUBSET Branches
      /\ {head, "main"}' \subseteq branches'
      /\ commits' \in [Branches -> SUBSET Work]
      /\ \A b \in Branches : b \notin branches' => commits'[b] = {}
      /\ \A b \in branches' : b = "main" \/ \E d \in Calls : name[d] = b
      /\ row.branch # NoName => row.branch \in branches'
      /\ tree # NoTree => tree.branch \in branches'
      /\ IndexFromBranch'
      /\ \A d \in Calls : InMainOrNowhere(d) => InMainOrNowhere(d)'
  BY <1>2, <1>3, BranchMade
<1>5. TypeOK'
  BY <1>1, <1>3, <1>4 DEF Moves, GitInv, TypeOK
<1>6. KnownNames' /\ OneHasCreated'
  BY <1>1, <1>2, <1>3, <1>4 DEF Moves, GitInv, KnownNames, OneHasCreated, HasCreated, Work
<1>7. RunLeavesNothing'
  BY <1>1, <1>3, <1>4, OneNameKept DEF Moves, GitInv, RunLeavesNothing, Work
<1>8. QED
  BY <1>4, <1>5, <1>6, <1>7 DEF GitInv

(* A call makes its branch, which did not exist, and no other run has.     *)
LEMMA CreateBranchInv ==
  ASSUME GitInv, NEW c \in Calls, CreateBranch(c)
  PROVE  GitInv'
<1>1. Moves(c, "create", "record_branch") /\ UNCHANGED <<staged, dirty, row>>
  BY CallMoves DEF CreateBranch, Locations
<1>2. /\ branches # {} /\ name[c] \notin branches /\ name[c] \in Names
      /\ branches' = branches \cup {name[c]} /\ head' = name[c]
      /\ commits' = [commits EXCEPT ![name[c]] = commits[head]]
  BY <1>1 DEF CreateBranch, Moves, GitInv, KnownNames
<1>3. UNCHANGED <<staged, dirty, name, row, tree, op>>
  BY <1>1 DEF Moves
<1>4. /\ branches' \in SUBSET Branches
      /\ {head, "main"}' \subseteq branches'
      /\ commits' \in [Branches -> SUBSET Work]
      /\ \A b \in Branches : b \notin branches' => commits'[b] = {}
      /\ \A b \in branches' : b = "main" \/ \E d \in Calls : name[d] = b
      /\ row.branch # NoName => row.branch \in branches'
      /\ tree # NoTree => tree.branch \in branches'
      /\ IndexFromBranch'
      /\ \A d \in Calls : InMainOrNowhere(d) => InMainOrNowhere(d)'
  BY <1>2, <1>3, BranchMade
<1>5. TypeOK'
  BY <1>1, <1>3, <1>4 DEF Moves, GitInv, TypeOK
<1>6. KnownNames'
  BY <1>1, <1>2, <1>3, <1>4 DEF Moves, GitInv, KnownNames, Work
<1>7. OneHasCreated'
  <2>1. \A d \in Calls : HasCreated(d) => name[d] # name[c]
    BY <1>2 DEF GitInv, OneHasCreated
  <2>2. \A d \in Calls : d # c => (HasCreated(d)' <=> HasCreated(d))
    BY <1>1 DEF Moves, HasCreated, Work
  <2>3. "main" \in branches
    BY <1>2 DEF GitInv, TypeOK
  <2>4. ASSUME NEW d \in Calls, HasCreated(d)'
        PROVE  /\ name[d] \in branches' \ {"main"}
               /\ \A e \in Calls : HasCreated(e)' /\ name[e] = name[d] => e = d
    BY <1>2, <2>1, <2>2, <2>3, <2>4 DEF GitInv, OneHasCreated
  <2>5. \A d \in Calls : op'[d] = "auto_run" => pc'[d] \notin {"clone", "switch", "spec"}
    BY <1>1 DEF Moves, GitInv, OneHasCreated, Work
  <2>6. QED
    BY <1>3, <2>4, <2>5 DEF OneHasCreated
<1>8. RunLeavesNothing'
  BY <1>1, <1>3, <1>4, OneNameKept DEF Moves, GitInv, RunLeavesNothing, Work
<1>9. QED
  BY <1>4, <1>5, <1>6, <1>7, <1>8 DEF GitInv

(* The branch is put on record.                                            *)
LEMMA RecordBranchInv ==
  ASSUME GitInv, NEW c \in Calls, RecordBranch(c)
  PROVE  GitInv'
<1>1. /\ Moves(c, "record_branch", IF op[c] = "auto_run" THEN "agent" ELSE "done")
      /\ UNCHANGED cloneVars
      /\ row' \in {row, [row EXCEPT !.branch = name[c]]}
  BY CallMoves DEF RecordBranch, Locations, Outcomes
<1>2. /\ name[c] \in branches /\ name[c] \in Names
      /\ row' \in [prefix: Names, branch: Names \cup {NoName}, merged: BOOLEAN]
      /\ row'.branch \in {row.branch, name[c]}
  <2>1. name[c] \in branches /\ name[c] \in Names
    BY <1>1, BranchNames DEF Moves, GitInv, KnownNames, TypeOK, Work
  <2>2. QED
    BY <1>1, <2>1 DEF GitInv, TypeOK
<1>3. TypeOK'
  BY <1>1, <1>2 DEF Moves, GitInv, TypeOK, cloneVars
<1>4. KnownNames'
  BY <1>1, <1>2 DEF Moves, GitInv, KnownNames, Work, cloneVars
<1>5. OneHasCreated'
  BY <1>1 DEF Moves, GitInv, OneHasCreated, HasCreated, Work, cloneVars
<1>6. IndexFromBranch' /\ RunLeavesNothing'
  BY <1>1, OneNameKept DEF Moves, GitInv, IndexFromBranch, RunLeavesNothing,
     InMainOrNowhere, Work, cloneVars
<1>7. QED
  BY <1>3, <1>4, <1>5, <1>6 DEF GitInv

(* The agent of an autonomous run has worked.                              *)
LEMMA RunAgentInv ==
  ASSUME GitInv, NEW c \in Calls, RunAgent(c)
  PROVE  GitInv'
<1>1. /\ Moves(c, "agent", "commit") /\ dirty' \in {dirty, dirty \cup {c}}
      /\ UNCHANGED <<branches, head, commits, staged, row>>
  BY CallMoves DEF RunAgent, Locations
<1>2. TypeOK'
  BY <1>1 DEF Moves, GitInv, TypeOK
<1>3. KnownNames' /\ OneHasCreated'
  BY <1>1 DEF Moves, GitInv, KnownNames, OneHasCreated, HasCreated, Work
<1>4. IndexFromBranch' /\ RunLeavesNothing'
  BY <1>1, OneNameKept DEF Moves, GitInv, IndexFromBranch, RunLeavesNothing,
     InMainOrNowhere, Work
<1>5. QED
  BY <1>2, <1>3, <1>4 DEF GitInv

(* A commit to the branch that is checked out, for what the invariant says *)
(* of the branches and the index.                                          *)
LEMMA CommitKeeps ==
  ASSUME GitInv, NEW work \in SUBSET Work, CommitToHead(work), branches # {},
         UNCHANGED <<branches, head, name>>, staged' \in {staged, {}}
  PROVE  /\ commits' \in [Branches -> SUBSET Work]
         /\ staged' \in SUBSET Work
         /\ \A b \in Branches : b \notin branches => commits'[b] = {}
         /\ IndexFromBranch'
         /\ \A d \in Calls \ work : InMainOrNowhere(d) => InMainOrNowhere(d)'
<1>1. /\ commits' \in [Branches -> SUBSET Work]
      /\ commits'[head] = commits[head] \cup work
      /\ \A b \in Branches : b # head => commits'[b] = commits[b]
      /\ \A b \in Branches : commits[b] \subseteq commits'[b]
  BY CommitAdds DEF GitInv
<1>2. head \in branches /\ staged \in SUBSET Work
  BY DEF GitInv, TypeOK
<1>3. \A b \in Branches : b \notin branches => commits'[b] = {}
  BY <1>1, <1>2 DEF GitInv, KnownNames
<1>4. IndexFromBranch'
  <2>1. \A d \in Calls : name[d] # NoName => name[d] \in Branches
    BY BranchNames DEF GitInv, TypeOK, Work
  <2>2. QED
    BY <1>1, <2>1, OneNameKept DEF GitInv, IndexFromBranch
<1>5. \A d \in Calls \ work : InMainOrNowhere(d) => InMainOrNowhere(d)'
  BY <1>1, <1>2, BranchNames DEF InMainOrNowhere
<1>6. QED
  BY <1>1, <1>2, <1>3, <1>4, <1>5

(* It commits the specification.                                           *)
LEMMA CommitSpecInv ==
  ASSUME GitInv, NEW c \in Calls, CommitSpec(c)
  PROVE  GitInv'
<1>1. Moves(c, "spec", "record_branch") /\ UNCHANGED <<branches, head, dirty, row>>
  BY CallMoves DEF CommitSpec, Locations
<1>2. CommitToHead(InIndex \cup {c}) /\ staged' = {}
  BY DEF CommitSpec
<1>3. InIndex \cup {c} \in SUBSET Work /\ InIndex \subseteq staged /\ branches # {}
  BY <1>1, IndexSets DEF Moves, GitInv, KnownNames, Work
<1>4. /\ commits' \in [Branches -> SUBSET Work]
      /\ \A b \in Branches : b \notin branches => commits'[b] = {}
      /\ IndexFromBranch'
      /\ \A d \in Calls \ (InIndex \cup {c}) : InMainOrNowhere(d) => InMainOrNowhere(d)'
  BY <1>1, <1>2, <1>3, CommitKeeps DEF Moves
<1>5. TypeOK'
  BY <1>1, <1>2, <1>4 DEF Moves, GitInv, TypeOK
<1>6. KnownNames'
  BY <1>1, <1>4 DEF Moves, GitInv, KnownNames, Work
<1>7. op[c] # "auto_run"
  BY <1>1 DEF Moves, GitInv, OneHasCreated
<1>8. OneHasCreated'
  BY <1>1, <1>7 DEF Moves, GitInv, OneHasCreated, HasCreated, Work
<1>9. RunLeavesNothing'
  <2>1. ASSUME NEW d \in Calls, op[d] = "auto_run", pc'[d] \in {"record_merge", "merged"},
               OneName
        PROVE  InMainOrNowhere(d)'
    <3>1. d # c /\ pc[d] = pc'[d]
      BY <1>1, <1>7, <2>1 DEF Moves, Work
    <3>2. InMainOrNowhere(d)
      BY <2>1, <3>1 DEF GitInv, RunLeavesNothing
    <3>3. CASE d \notin InIndex
      BY <1>4, <3>1, <3>2, <3>3
    <3>4. CASE d \in InIndex
      <4>1. d \in commits["main"]
        BY <1>3, <3>2, <3>4 DEF InMainOrNowhere
      <4>2. QED
        BY <1>2, <1>3, <4>1, CommitAdds, BranchNames DEF GitInv, InMainOrNowhere
    <3>5. QED
      BY <3>3, <3>4
  <2>2. QED
    BY <1>1, <1>7, <2>1, OneNameKept DEF Moves, GitInv, RunLeavesNothing, Work
<1>10. QED
  BY <1>4, <1>5, <1>6, <1>8, <1>9 DEF GitInv

(* All that is in the clone is committed.                                  *)
LEMMA CommitAllInv ==
  ASSUME GitInv, NEW c \in Calls, CommitAll(c)
  PROVE  GitInv'
<1>1. PICK to \in {"done", "checkout"} :
        /\ Moves(c, "commit", to) /\ (to = "checkout" => op[c] = "auto_run")
        /\ UNCHANGED <<branches, head, row>>
  BY CallMoves DEF CommitAll, Locations, Outcomes
<1>2. CommitToHead(Uncommitted) /\ staged' = {} /\ dirty' = {} /\ branches # {}
  BY DEF CommitAll
<1>3. Uncommitted \in SUBSET Work /\ Uncommitted \subseteq staged \cup dirty
  BY IndexSets DEF GitInv
<1>4. /\ commits' \in [Branches -> SUBSET Work]
      /\ \A b \in Branches : b \notin branches => commits'[b] = {}
      /\ IndexFromBranch'
      /\ \A d \in Calls \ Uncommitted : InMainOrNowhere(d) => InMainOrNowhere(d)'
  BY <1>1, <1>2, <1>3, CommitKeeps DEF Moves
<1>5. TypeOK'
  BY <1>1, <1>2, <1>4 DEF Moves, GitInv, TypeOK
<1>6. KnownNames'
  <2>1. to = "checkout" => name[c] \in branches
    BY <1>1 DEF Moves, GitInv, OneHasCreated, HasCreated
  <2>2. QED
    BY <1>1, <1>4, <2>1 DEF Moves, GitInv, KnownNames, Work
<1>7. OneHasCreated'
  BY <1>1 DEF Moves, GitInv, OneHasCreated, HasCreated, Work
<1>8. RunLeavesNothing'
  <2>1. ASSUME NEW d \in Calls, op[d] = "auto_run", pc'[d] \in {"record_merge", "merged"},
               OneName
        PROVE  InMainOrNowhere(d)'
    <3>1. pc[d] = pc'[d]
      BY <1>1, <2>1 DEF Moves, Work
    <3>2. d \notin dirty /\ InMainOrNowhere(d)
      BY <2>1, <3>1 DEF GitInv, RunLeavesNothing
    <3>3. CASE d \notin Uncommitted
      BY <1>4, <3>2, <3>3
    <3>4. CASE d \in Uncommitted
      <4>1. d \in commits["main"]
        BY <1>3, <3>2, <3>4 DEF InMainOrNowhere
      <4>2. QED
        BY <1>2, <1>3, <4>1, CommitAdds, BranchNames DEF GitInv, InMainOrNowhere
    <3>5. QED
      BY <3>3, <3>4
  <2>2. QED
    BY <1>1, <1>2, <2>1, OneNameKept DEF Moves, GitInv, RunLeavesNothing
<1>9. QED
  BY <1>4, <1>5, <1>6, <1>7, <1>8 DEF GitInv

(* The merge checks main out.                                              *)
LEMMA CheckoutInv ==
  ASSUME GitInv, NEW c \in Calls, CheckoutTarget(c)
  PROVE  GitInv'
<1>1. /\ Moves(c, "checkout", "merge") /\ head' = "main"
      /\ UNCHANGED <<branches, commits, staged, dirty, row>>
  BY CallMoves DEF CheckoutTarget, Locations
<1>2. TypeOK'
  BY <1>1, BranchNames DEF Moves, GitInv, TypeOK
<1>3. KnownNames' /\ OneHasCreated'
  BY <1>1 DEF Moves, GitInv, KnownNames, OneHasCreated, HasCreated, Work
<1>4. IndexFromBranch' /\ RunLeavesNothing'
  BY <1>1, OneNameKept DEF Moves, GitInv, IndexFromBranch, RunLeavesNothing,
     InMainOrNowhere, Work
<1>5. QED
  BY <1>2, <1>3, <1>4 DEF GitInv

(* A squash that finds something to commit is made on main while the       *)
(* branch keeps its name, and then main has all of the branch and of the   *)
(* index.                                                                  *)
LEMMA MergeInv ==
  ASSUME GitInv, NEW c \in Calls, MergeBranch(c)
  PROVE  GitInv'
<1>1. Moves(c, "merge", "record_merge") /\ UNCHANGED <<branches, head, dirty, row>>
  BY CallMoves DEF MergeBranch, Locations
<1>2. PICK work \in {Unmerged(c), Unmerged(c) \cup InIndex} :
        /\ CommitToHead(work) /\ staged' \in {staged, {}}
        /\ op[c] # "merge" => work = Unmerged(c) \cup InIndex /\ work # {} /\ staged' = {}
  BY DEF MergeBranch
<1>3. /\ name[c] \in branches /\ name[c] \in Branches /\ name[c] # NoName /\ branches # {}
      /\ head \in branches /\ head \in Branches
  BY <1>1, BranchNames DEF Moves, GitInv, KnownNames, TypeOK
<1>4. /\ work \in SUBSET Work /\ work \subseteq commits[name[c]] \cup staged
      /\ InIndex \subseteq staged /\ staged \subseteq InIndex \cup commits[head]
      /\ commits[name[c]] \subseteq Unmerged(c) \cup commits[head]
  BY <1>3, WorkSets, IndexSets DEF GitInv
<1>5. /\ commits' \in [Branches -> SUBSET Work] /\ staged' \in SUBSET Work
      /\ \A b \in Branches : b \notin branches => commits'[b] = {}
      /\ IndexFromBranch'
      /\ \A d \in Calls \ work : InMainOrNowhere(d) => InMainOrNowhere(d)'
  BY <1>1, <1>2, <1>3, <1>4, CommitKeeps DEF Moves
<1>6. TypeOK'
  BY <1>1, <1>5 DEF Moves, GitInv, TypeOK
<1>7. KnownNames' /\ OneHasCreated'
  BY <1>1, <1>5 DEF Moves, GitInv, KnownNames, OneHasCreated, HasCreated, Work
<1>8. op[c] = "auto_run" /\ OneName => InMainOrNowhere(c)'
  <2> SUFFICES ASSUME op[c] = "auto_run", OneName
               PROVE  InMainOrNowhere(c)'
    OBVIOUS
  <2>1. work = Unmerged(c) \cup InIndex /\ work # {} /\ staged' = {}
    BY <1>2
  <2>2. name[c] # "main"
    BY <1>1 DEF Moves, GitInv, OneHasCreated, HasCreated
  <2>3. \A b \in branches : b = "main" \/ b = name[c]
    <3>1. \A d \in Calls : name[d] \in branches => name[d] = name[c]
      BY <1>3, BranchNames DEF OneName, GitInv, TypeOK
    <3>2. QED
      BY <3>1 DEF GitInv, KnownNames
  <2>4. staged \subseteq commits[name[c]]
    BY <1>3 DEF GitInv, IndexFromBranch
  <2>5. head = "main"
    BY <1>3, <2>1, <2>3, <2>4 DEF Unmerged, InIndex
  <2>6. /\ commits'["main"] = commits["main"] \cup work
        /\ commits'[name[c]] = commits[name[c]]
    BY <1>2, <1>3, <1>4, <2>2, <2>5, CommitAdds DEF GitInv
  <2>7. commits'[name[c]] \subseteq commits'["main"]
    BY <1>4, <2>1, <2>5, <2>6
  <2>8. QED
    BY <1>5, <2>1, <2>3, <2>7 DEF InMainOrNowhere
<1>9. RunLeavesNothing'
  <2>1. ASSUME NEW d \in Calls, d # c, op[d] = "auto_run", OneName,
               pc'[d] \in {"record_merge", "merged"}
        PROVE  InMainOrNowhere(d)'
    <3>1. pc[d] = pc'[d]
      BY <1>1, <2>1 DEF Moves, Work
    <3>2. InMainOrNowhere(d)
      BY <2>1, <3>1 DEF GitInv, RunLeavesNothing
    <3>3. CASE d \notin work
      BY <1>5, <3>2, <3>3
    <3>4. CASE d \in work
      <4>1. d \in commits["main"]
        BY <1>3, <1>4, <3>2, <3>4 DEF InMainOrNowhere
      <4>2. QED
        BY <1>2, <1>4, <4>1, CommitAdds, BranchNames DEF GitInv, InMainOrNowhere
    <3>5. QED
      BY <3>3, <3>4
  <2>2. op[c] = "auto_run" => c \notin dirty
    BY <1>1 DEF Moves, GitInv, RunLeavesNothing
  <2>3. QED
    BY <1>1, <1>8, <2>1, <2>2, OneNameKept DEF Moves, GitInv, RunLeavesNothing, Work
<1>10. QED
  BY <1>5, <1>6, <1>7, <1>9 DEF GitInv

(* The merge conflicts.                                                    *)
LEMMA ConflictInv ==
  ASSUME GitInv, NEW c \in Calls, MergeConflicts(c)
  PROVE  GitInv'
<1>1. /\ Moves(c, "merge", "error") /\ staged' = staged \cup Unmerged(c)
      /\ UNCHANGED <<branches, head, commits, dirty, row>>
  BY CallMoves DEF MergeConflicts, Locations, Outcomes
<1>2. name[c] \in branches /\ name[c] \in Branches /\ name[c] # NoName
  BY <1>1, BranchNames DEF Moves, GitInv, KnownNames, TypeOK
<1>3. Unmerged(c) \in SUBSET Work /\ Unmerged(c) \subseteq commits[name[c]]
  BY <1>2, WorkSets DEF GitInv
<1>4. TypeOK'
  BY <1>1, <1>3 DEF Moves, GitInv, TypeOK
<1>5. KnownNames' /\ OneHasCreated'
  BY <1>1 DEF Moves, GitInv, KnownNames, OneHasCreated, HasCreated, Work
<1>6. IndexFromBranch'
  <2>1. ASSUME OneName, NEW d \in Calls, name[d] # NoName
        PROVE  staged' \subseteq commits[name[d]]
    BY <1>1, <1>2, <1>3, <2>1 DEF OneName, GitInv, IndexFromBranch
  <2>2. QED
    BY <1>1, <1>2, <2>1, OneNameKept DEF Moves, IndexFromBranch
<1>7. RunLeavesNothing'
  <2>1. \A d \in Calls : InMainOrNowhere(d) => InMainOrNowhere(d)'
    BY <1>1, <1>2, <1>3 DEF InMainOrNowhere
  <2>2. QED
    BY <1>1, <2>1, OneNameKept DEF Moves, GitInv, RunLeavesNothing, Work
<1>8. QED
  BY <1>4, <1>5, <1>6, <1>7 DEF GitInv

(* The merge is put on record.                                             *)
LEMMA RecordMergeInv ==
  ASSUME GitInv, NEW c \in Calls, RecordMerge(c)
  PROVE  GitInv'
<1>1. /\ Moves(c, "record_merge", "merged") /\ UNCHANGED cloneVars
      /\ row' = [row EXCEPT !.merged = TRUE]
  BY CallMoves DEF RecordMerge, Locations, Outcomes
<1>2. TypeOK'
  BY <1>1 DEF Moves, GitInv, TypeOK, cloneVars
<1>3. row'.branch = row.branch
  BY <1>1 DEF GitInv, TypeOK
<1>4. KnownNames' /\ OneHasCreated'
  BY <1>1, <1>3 DEF Moves, GitInv, KnownNames, OneHasCreated, HasCreated, Work, cloneVars
<1>5. IndexFromBranch' /\ RunLeavesNothing'
  BY <1>1, OneNameKept DEF Moves, GitInv, IndexFromBranch, RunLeavesNothing,
     InMainOrNowhere, Work, cloneVars
<1>6. QED
  BY <1>2, <1>4, <1>5 DEF GitInv

-----------------------------------------------------------------------------
(* Steps of the tasks, which leave the clone's own files alone.            *)

(* A step of a task that leaves the index and the calls as they are.       *)
TaskMoves(t, from, to) ==
  /\ pc[t] = from
  /\ pc' \in [Work -> Locations]
  /\ pc'[t] = to
  /\ \A u \in Work : u # t => pc'[u] = pc[u]
  /\ \A c \in Calls : pc'[c] = pc[c]
  /\ UNCHANGED <<branches, head, staged, dirty, row, op>>

(* Going on is such a step.                                                *)
LEMMA TaskGoto ==
  ASSUME GitInv, NEW t \in Tasks, NEW to \in Locations, Goto(t, to),
         UNCHANGED <<branches, head, staged, dirty, row, op>>
  PROVE  TaskMoves(t, pc[t], to)
BY GotoMoves, GitAssumption DEF GitInv, TaskMoves, Work

(* What each step of a task does to the branches and the worktree.         *)
LEMMA TaskStepIs ==
  ASSUME GitInv, NEW t \in Tasks, TaskStep(t)
  PROVE  \/ /\ StartTask(t) /\ TaskMoves(t, "idle", "worktree")
            /\ UNCHANGED <<commits, tree>>
         \/ /\ TaskMoves(t, "worktree", "no_worktree") /\ tree' = NoTree
            /\ UNCHANGED <<commits, name>>
         \/ /\ TaskMoves(t, "worktree", "agent")
            /\ tree' = [branch |-> name[t], work |-> {}]
            /\ UNCHANGED <<commits, name>>
         \/ AgentWrites(t) /\ pc[t] = "agent"
         \/ CommitAndPush(t) /\ TaskMoves(t, "push", "record")
         \/ /\ \/ TaskMoves(t, "agent", "failed") \/ TaskMoves(t, "agent", "push")
               \/ TaskMoves(t, "push", "record") \/ TaskMoves(t, "record", "completed")
            /\ UNCHANGED <<commits, tree, name>>
<1> USE DEF cloneVars
<1>1. CASE StartTask(t)
  BY <1>1, TaskGoto DEF StartTask, Locations
<1>2. CASE CreateWorktree(t)
  BY <1>2, TaskGoto DEF CreateWorktree, AddWorktree, Locations, Outcomes
<1>3. CASE AgentWrites(t)
  BY <1>3 DEF AgentWrites
<1>4. CASE AgentEnds(t)
  BY <1>4, TaskGoto DEF AgentEnds, Locations, Outcomes
<1>5. CASE CommitAndPush(t)
  BY <1>5, TaskGoto DEF CommitAndPush, Locations
<1>6. CASE CommitRaises(t) \/ RecordSuccess(t)
  BY <1>6, TaskGoto DEF CommitRaises, RecordSuccess, Locations, Outcomes
<1>7. QED
  BY <1>1, <1>2, <1>3, <1>4, <1>5, <1>6 DEF TaskStep

(* A step of a task keeps the invariant when it adds at most the work of   *)
(* tasks to a branch that exists, and leaves the worktree on such a        *)
(* branch.                                                                 *)
LEMMA TaskKeeps ==
  ASSUME GitInv, NEW t \in Tasks,
         UNCHANGED <<branches, head, staged, dirty, row, op>>,
         pc' \in [Work -> Locations],
         \A c \in Calls : pc'[c] = pc[c] /\ name'[c] = name[c],
         name' \in [Work -> Names \cup {NoName}],
         \A u \in Tasks : pc'[u] = "worktree" => name'[u] \in branches,
         tree' \in [branch: Names, work: SUBSET Tasks] \cup {NoTree},
         tree' # NoTree => tree'.branch \in branches,
         commits' \in [Branches -> SUBSET Work],
         \A b \in Branches : b \notin branches => commits'[b] = {},
         \A b \in Branches : commits[b] \subseteq commits'[b],
         \A b \in Branches : commits'[b] \subseteq commits[b] \cup Tasks
  PROVE  GitInv'
<1>1. TypeOK'
  BY DEF GitInv, TypeOK
<1>2. KnownNames' /\ OneHasCreated'
  BY DEF GitInv, KnownNames, OneHasCreated, HasCreated
<1>3. OneName' <=> OneName
  BY DEF OneName
<1>4. IndexFromBranch'
  <2>1. \A c \in Calls : name[c] # NoName => name[c] \in Branches
    BY BranchNames DEF GitInv, TypeOK, Work
  <2>2. QED
    BY <1>3, <2>1 DEF GitInv, IndexFromBranch
<1>5. RunLeavesNothing'
  <2>1. \A c \in Calls : InMainOrNowhere(c) => InMainOrNowhere(c)'
    BY BranchNames, GitAssumption DEF InMainOrNowhere
  <2>2. QED
    BY <1>3, <2>1 DEF GitInv, RunLeavesNothing
<1>6. QED
  BY <1>1, <1>2, <1>4, <1>5 DEF GitInv

(* Every step of a task keeps the invariant.                               *)
LEMMA TaskStepInv ==
  ASSUME GitInv, NEW t \in Tasks, TaskStep(t)
  PROVE  GitInv'
<1>1. /\ tree \in [branch: Names, work: SUBSET Tasks] \cup {NoTree}
      /\ commits \in [Branches -> SUBSET Work] /\ name \in [Work -> Names \cup {NoName}]
      /\ pc \in [Work -> Locations] /\ branches \subseteq Branches
      /\ \A b \in Branches : b \notin branches => commits[b] = {}
      /\ tree # NoTree => tree.branch \in branches
      /\ \A u \in Tasks : pc[u] = "worktree" => name[u] \in branches
  BY DEF GitInv, TypeOK, KnownNames
<1>2. t \in Work /\ (\A u \in Tasks : u \in Work) /\ \A c \in Calls : c # t /\ c \in Work
  BY GitAssumption DEF Work
<1>3. CASE StartTask(t) /\ TaskMoves(t, "idle", "worktree") /\ UNCHANGED <<commits, tree>>
  <2>1. /\ row.branch \in Names /\ row.branch \in branches
        /\ name' = [name EXCEPT ![t] = row.branch]
    BY <1>3 DEF StartTask, GitInv, KnownNames, TypeOK
  <2>2. /\ name' \in [Work -> Names \cup {NoName}] /\ name'[t] = row.branch
        /\ \A p \in Work : p # t => name'[p] = name[p]
    BY <1>1, <1>2, <2>1
  <2>3. /\ UNCHANGED <<branches, head, staged, dirty, row, op>>
        /\ pc' \in [Work -> Locations]
        /\ \A c \in Calls : pc'[c] = pc[c] /\ name'[c] = name[c]
        /\ \A u \in Tasks : pc'[u] = "worktree" => name'[u] \in branches
    BY <1>1, <1>2, <1>3, <2>1, <2>2 DEF TaskMoves
  <2>4. \A b \in Branches : commits[b] \subseteq commits'[b]
                            /\ commits'[b] \subseteq commits[b] \cup Tasks
    BY <1>3
  <2>5. QED
    BY <1>1, <1>3, <2>2, <2>3, <2>4, TaskKeeps
<1>4. ASSUME NEW from, NEW to \in Locations \ {"worktree"}, TaskMoves(t, from, to),
             UNCHANGED <<commits, name>>,
             tree' \in [branch: Names, work: SUBSET Tasks] \cup {NoTree},
             tree' # NoTree => tree'.branch \in branches
      PROVE  GitInv'
  <2>1. /\ UNCHANGED <<branches, head, staged, dirty, row, op>>
        /\ pc' \in [Work -> Locations]
        /\ \A c \in Calls : pc'[c] = pc[c] /\ name'[c] = name[c]
        /\ \A u \in Tasks : pc'[u] = "worktree" => name'[u] \in branches
    BY <1>1, <1>2, <1>4 DEF TaskMoves
  <2>2. \A b \in Branches : commits[b] \subseteq commits'[b]
                            /\ commits'[b] \subseteq commits[b] \cup Tasks
    BY <1>4
  <2>3. QED
    BY <1>1, <1>4, <2>1, <2>2, TaskKeeps
<1>5. CASE TaskMoves(t, "worktree", "no_worktree") /\ tree' = NoTree
           /\ UNCHANGED <<commits, name>>
  BY <1>4, <1>5 DEF Locations, Outcomes
<1>6. CASE /\ TaskMoves(t, "worktree", "agent") /\ UNCHANGED <<commits, name>>
           /\ tree' = [branch |-> name[t], work |-> {}]
  <2>1. name[t] \in branches /\ name[t] \in Names
    BY <1>1, <1>2, <1>6, BranchNames DEF TaskMoves
  <2>2. QED
    BY <1>4, <1>6, <2>1 DEF Locations
<1>7. CASE AgentWrites(t)
  <2>1. /\ tree' = [tree EXCEPT !.work = @ \cup {t}] /\ tree # NoTree
        /\ UNCHANGED <<cloneVars, row, op, name, pc>>
    BY <1>7 DEF AgentWrites
  <2>2. /\ tree' \in [branch: Names, work: SUBSET Tasks] \cup {NoTree}
        /\ tree'.branch = tree.branch
    BY <1>1, <2>1
  <2>3. UNCHANGED <<branches, head, commits, staged, dirty>>
    BY <2>1 DEF cloneVars
  <2>4. \A b \in Branches : commits[b] \subseteq commits'[b]
                            /\ commits'[b] \subseteq commits[b] \cup Tasks
    BY <2>3
  <2>5. QED
    BY <1>1, <2>1, <2>2, <2>3, <2>4, TaskKeeps
<1>8. CASE CommitAndPush(t) /\ TaskMoves(t, "push", "record")
  <2>1. /\ tree \in [branch: Names, work: SUBSET Tasks] /\ tree.branch \in branches
        /\ tree' = [tree EXCEPT !.work = {}]
        /\ commits' = [commits EXCEPT ![tree.branch] = @ \cup tree.work]
        /\ UNCHANGED name
    BY <1>1, <1>8 DEF CommitAndPush
  <2>2. /\ tree' \in [branch: Names, work: SUBSET Tasks] \cup {NoTree}
        /\ tree'.branch = tree.branch
    BY <2>1
  <2>3. tree.branch \in Branches /\ tree.work \in SUBSET Tasks /\ tree.work \in SUBSET Work
    BY <1>1, <2>1 DEF Work
  <2>4. /\ commits' \in [Branches -> SUBSET Work]
        /\ \A b \in Branches : b \notin branches => commits'[b] = {}
        /\ \A b \in Branches : commits[b] \subseteq commits'[b]
        /\ \A b \in Branches : commits'[b] \subseteq commits[b] \cup Tasks
    BY <1>1, <2>1, <2>3
  <2>5. /\ UNCHANGED <<branches, head, staged, dirty, row, op>>
        /\ pc' \in [Work -> Locations]
        /\ \A c \in Calls : pc'[c] = pc[c] /\ name'[c] = name[c]
        /\ \A u \in Tasks : pc'[u] = "worktree" => name'[u] \in branches
    BY <1>1, <1>2, <1>8, <2>1 DEF TaskMoves
  <2>6. QED
    BY <1>1, <2>1, <2>2, <2>4, <2>5, TaskKeeps
<1>9. CASE /\ \/ TaskMoves(t, "agent", "failed") \/ TaskMoves(t, "agent", "push")
              \/ TaskMoves(t, "push", "record") \/ TaskMoves(t, "record", "completed")
           /\ UNCHANGED <<commits, tree, name>>
  <2>1. tree' \in [branch: Names, work: SUBSET Tasks] \cup {NoTree}
        /\ (tree' # NoTree => tree'.branch \in branches)
    BY <1>1, <1>9
  <2>2. QED
    BY <1>4, <1>9, <2>1 DEF Locations, Outcomes
<1>10. QED
  BY <1>3, <1>5, <1>6, <1>7, <1>8, <1>9, TaskStepIs

(* The process dies; the files stay as they are.                           *)
LEMMA CrashInv ==
  ASSUME GitInv, Crash
  PROVE  GitInv'
<1>1. /\ \A p \in Work : pc'[p] \in {pc[p], "dead"}
      /\ \A p \in Work : pc'[p] = "idle" => pc[p] = "idle"
      /\ pc' \in [Work -> Locations]
      /\ UNCHANGED <<branches, head, commits, staged, dirty, tree, row, op, name>>
  BY DEF Crash, Active, GitInv, TypeOK, Locations, Outcomes, cloneVars
<1>2. TypeOK' /\ KnownNames'
  BY <1>1 DEF GitInv, TypeOK, KnownNames, Work
<1>3. OneHasCreated'
  BY <1>1 DEF GitInv, OneHasCreated, HasCreated, Work
<1>4. IndexFromBranch' /\ RunLeavesNothing'
  BY <1>1, OneNameKept DEF GitInv, IndexFromBranch, RunLeavesNothing, InMainOrNowhere, Work
<1>5. QED
  BY <1>2, <1>3, <1>4 DEF GitInv

(* Every step keeps the invariant.                                         *)
LEMMA NextInv == GitInv /\ [Next]_vars => GitInv'
<1> SUFFICES ASSUME GitInv, [Next]_vars
             PROVE  GitInv'
  OBVIOUS
<1>1. ASSUME NEW c \in Calls, CallStep(c)
      PROVE  GitInv'
  BY <1>1, BeginInv, LoadNameInv, RefusesInv, CloneInv, SwitchInv, CommitSpecInv,
     CreateBranchInv, RecordBranchInv, RunAgentInv, CommitAllInv, CheckoutInv, MergeInv,
     ConflictInv, RecordMergeInv DEF CallStep
<1>2. CASE UNCHANGED vars
  BY <1>2 DEF vars, GitInv, TypeOK, KnownNames, OneHasCreated, HasCreated,
     IndexFromBranch, RunLeavesNothing, InMainOrNowhere, OneName
<1>3. QED
  BY <1>1, <1>2, TaskStepInv, PutNameInv, CrashInv DEF Next

(* The invariant is one.                                                   *)
LEMMA InvHolds == Spec => []GitInv
BY InitInv, NextInv, PTL DEF Spec

(* Whatever git commands interleave, fail or are cut off, what is checked  *)
(* out exists, and only requests leave work in the clone's files and only  *)
(* tasks in the worktree.                                                  *)
THEOREM TypeCorrect == Spec => []TypeOK
<1>1. GitInv => TypeOK
  BY DEF GitInv
<1>2. QED
  BY <1>1, InvHolds, PTL

(* Whatever names requests send and change, at most one autonomous run at  *)
(* a time is at work for a branch: creating the branch lets one of them    *)
(* pass, for good.  Runs for branches of different names are not kept      *)
(* apart.                                                                  *)
THEOREM CreationExcludes == Spec => []OneRunPerBranch
<1>1. GitInv => OneRunPerBranch
  BY DEF GitInv, OneHasCreated, HasCreated, OneRunPerBranch, RunsIn
<1>2. QED
  BY <1>1, InvHolds, PTL

(* What is on record exists, and so does the branch that a task or a merge *)
(* has read there, whatever names are sent while it is being made.         *)
THEOREM RecordIsOfABranch == Spec => []RecordedBranchExists
<1>1. GitInv => RecordedBranchExists
  BY DEF GitInv, KnownNames, RecordedBranchExists
<1>2. QED
  BY <1>1, InvHolds, PTL

(* As long as all requests have been about one branch, a run that reports  *)
(* a merge has its agent's work in main, although other calls check        *)
(* branches out, commit and fail between its steps.                        *)
THEOREM ReportedMergeIsMade == Spec => []AutoRunWorkIsMerged
<1>1. GitInv => AutoRunWorkIsMerged
  BY DEF GitInv, RunLeavesNothing, InMainOrNowhere, AutoRunWorkIsMerged
<1>2. QED
  BY <1>1, InvHolds, PTL

-----------------------------------------------------------------------------
(* Tasks that run one by one.                                              *)

(* Every step keeps what is said of the tasks.                             *)
LEMMA NextTasks ==
  ASSUME ~ParallelTasks
  PROVE  GitInv /\ TaskInv /\ [Next]_vars => TaskInv'
<1> SUFFICES ASSUME GitInv, TaskInv, [Next]_vars
             PROVE  TaskInv'
  OBVIOUS
<1> DEFINE Holds(t) == t \in staged \/ \E b \in Branches : t \in commits[b]
<1>1. /\ dirty \subseteq Calls /\ head \in Branches
      /\ commits \in [Branches -> SUBSET Work]
      /\ tree \in [branch: Names, work: SUBSET Tasks] \cup {NoTree}
      /\ \A c \in Calls : pc[c] = "merge" => name[c] \in Branches
  BY BranchNames DEF GitInv, TypeOK, KnownNames
<1>2. CASE UNCHANGED vars \/ PutName
  BY <1>2 DEF vars, cloneVars, PutName, TaskInv, Active
<1>3. ASSUME NEW c \in Calls, CallStep(c)
      PROVE  TaskInv'
  <2>1. UNCHANGED tree /\ \A t \in Tasks : pc'[t] = pc[t]
    <3>1. \A to : pc' = [pc EXCEPT ![c] = to] => \A t \in Tasks : pc'[t] = pc[t]
      BY GitAssumption DEF GitInv, TypeOK, Work
    <3>2. UNCHANGED tree /\ \E to : pc' = [pc EXCEPT ![c] = to]
      BY <1>3 DEF CallStep, Begin, LoadName, GitRefuses, Clone, SwitchBranch, CommitSpec,
         CreateBranch, RecordBranch, RunAgent, CommitAll, CheckoutTarget, MergeBranch,
         MergeConflicts, RecordMerge, Goto
    <3>3. QED
      BY <3>1, <3>2
  <2>2. ASSUME NEW t \in Tasks, Holds(t)'
        PROVE  Holds(t)
    <3>1. t \notin dirty /\ t # c
      BY <1>1, GitAssumption
    <3>2. ASSUME NEW work \in SUBSET Work, CommitToHead(work), t \in work => Holds(t),
                 staged' \in {staged, {}}
          PROVE  Holds(t)
      BY <1>1, <2>2, <3>2, CommitAdds DEF GitInv
    <3>3. /\ t \in InIndex => Holds(t)
          /\ t \in Uncommitted => Holds(t)
      BY <3>1 DEF InIndex, Uncommitted
    <3>4. pc[c] = "merge" =>
            /\ t \in Unmerged(c) => Holds(t)
            /\ Unmerged(c) \in SUBSET Work
      BY <1>1, WorkSets DEF GitInv, Unmerged
    <3>5. CASE CommitSpec(c) \/ CommitAll(c)
      BY <3>1, <3>2, <3>3, <3>5, IndexSets DEF CommitSpec, CommitAll, GitInv, Work
    <3>6. CASE MergeBranch(c)
      <4>1. PICK work \in {Unmerged(c), Unmerged(c) \cup InIndex} :
              CommitToHead(work) /\ staged' \in {staged, {}}
        BY <3>6 DEF MergeBranch
      <4>2. pc[c] = "merge" /\ InIndex \in SUBSET Work
        BY <3>6, IndexSets DEF MergeBranch, GitInv
      <4>3. work \in SUBSET Work /\ (t \in work => Holds(t))
        BY <3>3, <3>4, <4>1, <4>2
      <4>4. QED
        BY <3>2, <4>1, <4>3
    <3>7. CASE SwitchBranch(c) \/ CreateBranch(c)
      <4>1. /\ UNCHANGED staged
            /\ \/ UNCHANGED commits
               \/ commits' = [commits EXCEPT ![name[c]] = commits[head]]
        BY <3>7 DEF SwitchBranch, CreateBranch
      <4>2. QED
        BY <1>1, <2>2, <4>1
    <3>8. CASE MergeConflicts(c)
      BY <2>2, <3>4, <3>8 DEF MergeConflicts
    <3>9. CASE UNCHANGED <<commits, staged>>
      BY <2>2, <3>9
    <3>10. QED
      BY <1>3, <3>5, <3>6, <3>7, <3>8, <3>9 DEF CallStep, Begin, LoadName, GitRefuses,
         Clone, RecordBranch, RunAgent, CheckoutTarget, RecordMerge, cloneVars
  <2>3. QED
    BY <2>1, <2>2 DEF TaskInv, Active
<1>4. ASSUME NEW t \in Tasks, TaskStep(t)
      PROVE  TaskInv'
  <2>1. CASE StartTask(t) /\ TaskMoves(t, "idle", "worktree") /\ UNCHANGED <<commits, tree>>
    <3>1. \A u \in Tasks : ~Active(u)
      BY <2>1 DEF StartTask
    <3>2. \A u \in Tasks : pc[u] \notin {"agent", "push"}
      BY <3>1 DEF Active, Outcomes
    <3>3. QED
      BY <2>1, <3>1, <3>2 DEF TaskMoves, TaskInv, Active, Work
  <2>2. CASE /\ TaskMoves(t, "worktree", "no_worktree") /\ tree' = NoTree
             /\ UNCHANGED <<commits, name>>
    BY <2>2 DEF TaskMoves, TaskInv, Active, Outcomes, Work
  <2>3. CASE /\ TaskMoves(t, "worktree", "agent") /\ UNCHANGED <<commits, name>>
             /\ tree' = [branch |-> name[t], work |-> {}]
    <3>1. tree'.work = {}
      BY <2>3
    <3>2. QED
      BY <2>3, <3>1 DEF TaskMoves, TaskInv, Active, Outcomes, Work
  <2>4. CASE AgentWrites(t) /\ pc[t] = "agent"
    <3>1. \A u \in Tasks : pc[u] \in {"agent", "push"} => u = t
      BY <2>4 DEF TaskInv, Active, Outcomes
    <3>2. tree # NoTree /\ tree' = [tree EXCEPT !.work = @ \cup {t}]
          /\ UNCHANGED <<commits, staged, pc>>
      BY <2>4 DEF AgentWrites, cloneVars
    <3>3. tree'.work = tree.work \cup {t}
      BY <1>1, <3>2
    <3>4. QED
      BY <2>4, <3>1, <3>2, <3>3 DEF TaskInv, Active
  <2>5. CASE /\ \/ TaskMoves(t, "agent", "failed") \/ TaskMoves(t, "agent", "push")
                \/ TaskMoves(t, "push", "record") \/ TaskMoves(t, "record", "completed")
             /\ UNCHANGED <<commits, tree, name>>
    BY <2>5 DEF TaskMoves, TaskInv, Active, Outcomes, Work
  <2>6. CASE CommitAndPush(t) /\ TaskMoves(t, "push", "record")
    <3>1. /\ tree \in [branch: Names, work: SUBSET Tasks] /\ tree.work \subseteq {t}
          /\ tree' = [tree EXCEPT !.work = {}]
          /\ commits' = [commits EXCEPT ![tree.branch] = @ \cup tree.work]
      BY <1>1, <2>6 DEF CommitAndPush, TaskInv
    <3>2. tree'.work = {} /\ tree.branch \in Branches
      BY <3>1 DEF Branches
    <3>3. \A b \in Branches : commits'[b] \subseteq commits[b] \cup {t}
      BY <1>1, <3>1, <3>2
    <3>4. QED
      BY <2>6, <3>2, <3>3 DEF TaskMoves, TaskInv, Active, Outcomes, Work
  <2>7. QED
    BY <1>4, <2>1, <2>2, <2>3, <2>4, <2>5, <2>6, TaskStepIs
<1>5. CASE Crash
  <2>1. /\ \A p \in Work : pc'[p] = IF Active(p) THEN "dead" ELSE pc[p]
        /\ UNCHANGED <<cloneVars, tree>>
    BY <1>5 DEF Crash
  <2>2. \A t \in Tasks : ~Active(t)' /\ pc'[t] \notin {"agent", "push"}
    BY <2>1 DEF Active, Outcomes, Work
  <2>3. \A t \in Tasks : pc[t] \in {"record", "completed", "dead"}
                           => pc'[t] \in {"completed", "dead"}
    BY <2>1 DEF Active, Outcomes, Work
  <2>4. QED
    BY <2>1, <2>2, <2>3 DEF TaskInv, cloneVars
<1>6. QED
  BY <1>2, <1>3, <1>4, <1>5 DEF Next

(* No task has begun, and no work exists, at first.                        *)
LEMMA InitTasks == Init => TaskInv
BY DEF Init, TaskInv, Active, Work

(* When tasks run one by one, what an attempt wrote before it failed stays *)
(* out of every branch for good.                                           *)
THEOREM FailedAttemptsLeaveNoTrace ==
  ASSUME ~ParallelTasks
  PROVE  Spec => []FailedWorkStaysOut
<1>1. TaskInv => FailedWorkStaysOut
  BY DEF TaskInv, FailedWorkStaysOut
<1>2. QED
  BY <1>1, InvHolds, InitTasks, NextTasks, PTL DEF Spec

=============================================================================
