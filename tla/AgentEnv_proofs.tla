--------------------------- MODULE AgentEnv_proofs ---------------------------
(***************************************************************************)
(* Proofs about the API key in the environment, for any number of threads  *)
(* that construct agents.                                                  *)
(***************************************************************************)
EXTENDS AgentEnv, TLAPS

-----------------------------------------------------------------------------
(* The inductive invariant.                                                *)

(* The values the variable can have: the key of the operator, or what the  *)
(* process started with and what constructions leave behind.               *)
Possible ==
  IF openai = OpenaiKey THEN {OpenaiKey}
  ELSE {Unset, Empty, IF ollama = OllamaKey THEN OllamaKey ELSE Placeholder}

(* Every value saved for later is one the variable can have.               *)
OnlyPossible ==
  /\ openai \in {Unset, Empty, OpenaiKey}
  /\ ollama \in {Empty, OllamaKey}
  /\ env \in Possible
  /\ \A b \in Builders :
       build[b].pc \in {"saved", "exported", "constructed"} => build[b].prev \in Possible

(* Until two constructions meet or one raises, there is one at most, and   *)
(* it leads the environment away from what it was and back.                *)
Stages ==
  ~disturbed =>
    /\ \A b, c \in Building : b = c
    /\ Building = {} => env = openai
    /\ \A b \in Building :
         /\ build[b].pc \in {"resolved", "saved"} => env = openai
         /\ build[b].pc # "resolved" => build[b].prev = openai

(* A construction that met no other is alone, and exports its own key.     *)
AloneUnlessOverlapped ==
  \A b \in Building \ overlapped :
    /\ \A c \in Building : c = b
    /\ build[b].pc = "exported" => env = build[b].key

AgentInv ==
  /\ TypeOK
  /\ OnlyPossible
  /\ Stages
  /\ AloneUnlessOverlapped
  /\ ConstructorSeesItsKey
  /\ KeysAreTrue

-----------------------------------------------------------------------------
(* What is found follows from what the operator configured.                *)
LEMMA FoundKey ==
  ASSUME OnlyPossible
  PROVE  /\ Found \in Keys
         /\ Configured \in {OpenaiKey, OllamaKey, Empty}
         /\ Configured # Empty => Found = Configured
         /\ Configured = Empty => Found \in {Empty, Placeholder}
         /\ Configured = Empty /\ env = openai => Found = Empty
         /\ openai = OpenaiKey => env = OpenaiKey
BY DEF OnlyPossible, Possible, Found, Configured, Keys, Unset, Empty, Placeholder,
   OpenaiKey, OllamaKey

(* The key a construction goes on with.                                    *)
LEMMA KeyResolved ==
  ASSUME OnlyPossible, NEW model \in Models
  PROVE  /\ ResolvedKey(model) \in Keys
         /\ Configured # Empty => ResolvedKey(model) = Configured
         /\ Configured = Empty =>
              \/ ResolvedKey(model) = Placeholder /\ (model = "local" \/ env # openai)
              \/ ResolvedKey(model) = Empty /\ model = "cloud"
BY FoundKey DEF ResolvedKey, Models, Keys, Empty, Placeholder, OpenaiKey, OllamaKey

(* Exporting a key leaves the variable with a value it can have.           *)
LEMMA ExportedIsPossible ==
  ASSUME AgentInv, NEW b \in Building
  PROVE  build[b].key \in Possible
<1>1. CASE Configured # Empty
  BY <1>1 DEF AgentInv, KeysAreTrue, OnlyPossible, Possible, Configured, Empty,
     OpenaiKey, OllamaKey
<1>2. CASE Configured = Empty
  BY <1>2 DEF AgentInv, KeysAreTrue, OnlyPossible, Possible, Configured, Empty,
     OpenaiKey, OllamaKey, Placeholder
<1>3. QED
  BY <1>1, <1>2

(* What KeysAreTrue says of the construction c.                            *)
KeyIsTrue(c) ==
  /\ Configured # Empty => build[c].key = Configured
  /\ Configured = Empty =>
       \/ build[c].key = Placeholder /\ (build[c].model = "local" \/ disturbed)
       \/ build[c].key = Empty /\ build[c].model = "cloud"

(* What planning reported, and every construction that keeps its key and   *)
(* model, stays true when nothing else that is asked for changes.          *)
LEMMA KeysStayTrue ==
  ASSUME KeysAreTrue, UNCHANGED <<openai, ollama, reported>>, disturbed => disturbed',
         \A c \in Building' : \/ KeyIsTrue(c)'
                             \/ /\ c \in Building
                                /\ build'[c].key = build[c].key
                                /\ build'[c].model = build[c].model
  PROVE  KeysAreTrue'
<1>1. Configured' = Configured
  BY DEF Configured
<1>2. ASSUME NEW c \in Building' PROVE KeyIsTrue(c)'
  <2>1. CASE KeyIsTrue(c)'
    BY <2>1
  <2>2. CASE ~KeyIsTrue(c)'
    <3>1. /\ KeyIsTrue(c)
          /\ build'[c].key = build[c].key /\ build'[c].model = build[c].model
      BY <1>2, <2>2 DEF KeysAreTrue, KeyIsTrue
    <3>2. QED
      BY <1>1, <3>1 DEF KeyIsTrue
  <2>3. QED
    BY <2>1, <2>2
<1>3. QED
  BY <1>1, <1>2 DEF KeysAreTrue, KeyIsTrue

(* The invariant holds initially.                                          *)
LEMMA InitInv == Init => AgentInv
<1> SUFFICES ASSUME Init
             PROVE  AgentInv
  OBVIOUS
<1>1. NoBuild.pc = "idle" /\ Building = {}
  BY DEF Init, NoBuild, Building
<1>2. TypeOK
  BY DEF Init, TypeOK, NoBuild, Keys, Models, Unset, Empty, OpenaiKey, OllamaKey
<1>3. OnlyPossible
  BY DEF Init, OnlyPossible, Possible, NoBuild, Unset, Empty, OpenaiKey
<1>4. ConstructorSeesItsKey
  BY DEF Init, ConstructorSeesItsKey, NoBuild
<1>5. KeysAreTrue
  BY <1>1 DEF Init, KeysAreTrue
<1>6. QED
  BY <1>1, <1>2, <1>3, <1>4, <1>5 DEF Init, AgentInv, Stages, AloneUnlessOverlapped

-----------------------------------------------------------------------------
(* A construction that begins keeps the invariant.                         *)
LEMMA ResolveInv ==
  ASSUME AgentInv, NEW b \in Builders, NEW model \in Models, Resolve(b, model)
  PROVE  AgentInv'
<1> DEFINE new == [NoBuild EXCEPT !.pc = "resolved", !.model = model,
                                  !.key = ResolvedKey(model)]
<1>1. /\ new.pc = "resolved" /\ new.model = model /\ new.key = ResolvedKey(model)
      /\ build' = [build EXCEPT ![b] = new]
      /\ UNCHANGED <<env, openai, ollama, reported>>
  BY DEF Resolve, NoBuild
<1>2. TypeOK'
  BY KeyResolved DEF AgentInv, TypeOK, Resolve, NoBuild, Building, Keys, Unset
<1> HIDE DEF new
<1>3. /\ b \notin Building
      /\ Building' = Building \cup {b}
      /\ build'[b] = new
      /\ \A c \in Builders : c # b => build'[c] = build[c]
  BY <1>1 DEF AgentInv, TypeOK, Building, Resolve
<1>4. OnlyPossible'
  BY <1>1, <1>3 DEF AgentInv, OnlyPossible, Possible
<1>5. Stages'
  <2>1. disturbed' = (disturbed \/ Building # {})
    BY DEF Resolve
  <2> SUFFICES ASSUME ~disturbed' PROVE Stages'
    BY DEF Stages
  <2>2. Building = {} /\ env = openai
    BY <2>1 DEF AgentInv, Stages, Building
  <2>3. QED
    BY <1>1, <1>3, <2>2 DEF Stages
<1>6. overlapped' = IF Building = {} THEN overlapped \ {b}
                                     ELSE overlapped \cup Building \cup {b}
  BY DEF Resolve
<1>7. AloneUnlessOverlapped'
  BY <1>1, <1>3, <1>6 DEF AgentInv, AloneUnlessOverlapped
<1>8. ConstructorSeesItsKey'
  BY <1>1, <1>3, <1>6 DEF AgentInv, ConstructorSeesItsKey
<1>9. KeysAreTrue'
  <2>1. disturbed \/ Building # {} \/ env = openai
    BY DEF AgentInv, Stages
  <2>2. disturbed => disturbed'
    BY DEF Resolve
  <2>3. Building # {} => disturbed'
    BY DEF Resolve
  <2>4. KeyIsTrue(b)'
    <3>1. Configured' = Configured
      BY <1>1 DEF Configured
    <3>2. QED
      BY <1>1, <1>3, <2>1, <2>2, <2>3, <3>1, KeyResolved DEF AgentInv, KeyIsTrue
  <2>5. QED
    BY <1>1, <1>3, <2>2, <2>4, KeysStayTrue DEF AgentInv, Building
<1>10. QED
  BY <1>2, <1>4, <1>5, <1>7, <1>8, <1>9 DEF AgentInv

(* A step of the construction b from one stage to the next, which keeps    *)
(* its key and model and the history variables.                            *)
Proceeds(b, from, to) ==
  /\ build[b].pc = from /\ from # "idle"
  /\ to # "idle"
  /\ build' = [build EXCEPT ![b] = build'[b]]
  /\ build'[b].pc = to /\ build'[b].key = build[b].key /\ build'[b].model = build[b].model
  /\ UNCHANGED <<openai, ollama, reported, overlapped, disturbed>>

(* Such a step changes nothing that is said of the keys.                   *)
LEMMA ProceedsKeepsKeys ==
  ASSUME AgentInv, NEW b \in Builders, NEW from, NEW to, Proceeds(b, from, to)
  PROVE  /\ Building' = Building /\ b \in Building
         /\ \A c \in Builders : c # b => build'[c] = build[c]
         /\ KeysAreTrue'
         /\ Possible' = Possible
<1>1. /\ Building' = Building /\ b \in Building
      /\ \A c \in Builders : c # b => build'[c] = build[c]
  BY DEF AgentInv, TypeOK, Proceeds, Building
<1>2. KeysAreTrue'
  <2>1. \A c \in Building' : /\ c \in Building
                            /\ build'[c].key = build[c].key
                            /\ build'[c].model = build[c].model
    BY <1>1 DEF Proceeds, Building
  <2>2. UNCHANGED <<openai, ollama, reported>> /\ (disturbed => disturbed')
    BY DEF Proceeds
  <2>3. QED
    BY <2>1, <2>2, KeysStayTrue DEF AgentInv
<1>3. QED
  BY <1>1, <1>2 DEF Possible, Proceeds

(* The old value is remembered.                                            *)
LEMMA SnapshotInv ==
  ASSUME AgentInv, NEW b \in Builders, Snapshot(b)
  PROVE  AgentInv'
<1>1. /\ build[b].pc = "resolved" /\ build'[b].pc = "saved"
      /\ build'[b].prev = env /\ env' = env
      /\ Proceeds(b, "resolved", "saved")
  BY DEF AgentInv, TypeOK, Snapshot, Proceeds
<1>2. TypeOK'
  BY DEF AgentInv, TypeOK, Snapshot
<1>3. OnlyPossible'
  BY <1>1, ProceedsKeepsKeys DEF AgentInv, OnlyPossible, Proceeds
<1>4. Stages'
  BY <1>1, ProceedsKeepsKeys DEF AgentInv, Stages, Proceeds
<1>5. AloneUnlessOverlapped' /\ ConstructorSeesItsKey'
  BY <1>1, ProceedsKeepsKeys
     DEF AgentInv, AloneUnlessOverlapped, ConstructorSeesItsKey, Proceeds
<1>6. QED
  BY <1>1, <1>2, <1>3, <1>4, <1>5, ProceedsKeepsKeys DEF AgentInv

(* The key is exported, over whatever another construction left.           *)
LEMMA ExportInv ==
  ASSUME AgentInv, NEW b \in Builders, Export(b)
  PROVE  AgentInv'
<1>1. /\ build[b].pc = "saved" /\ build'[b].pc = "exported"
      /\ build'[b].prev = build[b].prev /\ env' = build[b].key
      /\ Proceeds(b, "saved", "exported")
  BY DEF AgentInv, TypeOK, Export, Proceeds
<1>2. TypeOK'
  BY DEF AgentInv, TypeOK, Export
<1>3. OnlyPossible'
  BY <1>1, ProceedsKeepsKeys, ExportedIsPossible DEF AgentInv, OnlyPossible, Proceeds
<1>4. Stages'
  BY <1>1, ProceedsKeepsKeys DEF AgentInv, Stages, Proceeds
<1>5. AloneUnlessOverlapped' /\ ConstructorSeesItsKey'
  BY <1>1, ProceedsKeepsKeys
     DEF AgentInv, AloneUnlessOverlapped, ConstructorSeesItsKey, Proceeds
<1>6. QED
  BY <1>1, <1>2, <1>3, <1>4, <1>5, ProceedsKeepsKeys DEF AgentInv

(* The constructor looks at the environment.                               *)
LEMMA ConstructInv ==
  ASSUME AgentInv, NEW b \in Builders, Construct(b)
  PROVE  AgentInv'
<1>1. /\ build[b].pc = "exported" /\ build'[b].pc = "constructed"
      /\ build'[b].prev = build[b].prev /\ build'[b].seen = env /\ env' = env
      /\ Proceeds(b, "exported", "constructed")
  BY DEF AgentInv, TypeOK, Construct, Proceeds
<1>2. TypeOK'
  BY DEF AgentInv, TypeOK, Construct
<1>3. OnlyPossible'
  BY <1>1, ProceedsKeepsKeys DEF AgentInv, OnlyPossible, Proceeds
<1>4. Stages'
  BY <1>1, ProceedsKeepsKeys DEF AgentInv, Stages, Proceeds
<1>5. AloneUnlessOverlapped' /\ ConstructorSeesItsKey'
  BY <1>1, ProceedsKeepsKeys
     DEF AgentInv, AloneUnlessOverlapped, ConstructorSeesItsKey, Proceeds
<1>6. QED
  BY <1>1, <1>2, <1>3, <1>4, <1>5, ProceedsKeepsKeys DEF AgentInv

(* A construction that ends, well or not, leaves the others as they are.   *)
LEMMA EndInv ==
  ASSUME AgentInv, NEW b \in Builders, build' = [build EXCEPT ![b] = NoBuild],
         b \in Building, disturbed' \in {disturbed, TRUE},
         UNCHANGED <<openai, ollama, reported, overlapped>>
  PROVE  /\ Building' = Building \ {b}
         /\ \A c \in Builders : c # b => build'[c] = build[c]
         /\ env' \in Keys => TypeOK'
         /\ env' \in Possible => OnlyPossible'
         /\ KeysAreTrue'
         /\ AloneUnlessOverlapped' /\ ConstructorSeesItsKey'
<1>1. /\ Building' = Building \ {b} /\ build'[b].pc = "idle"
      /\ \A c \in Builders : c # b => build'[c] = build[c]
  BY DEF AgentInv, TypeOK, Building, NoBuild
<1>2. env' \in Keys => TypeOK'
  BY DEF AgentInv, TypeOK, NoBuild, Models, Keys, Unset
<1>3. env' \in Possible => OnlyPossible'
  BY <1>1 DEF AgentInv, OnlyPossible, Possible
<1>4. KeysAreTrue'
  <2>1. \A c \in Building' : /\ c \in Building
                            /\ build'[c].key = build[c].key
                            /\ build'[c].model = build[c].model
    BY <1>1 DEF Building
  <2>2. disturbed => disturbed'
    OBVIOUS
  <2>3. QED
    BY <2>1, <2>2, KeysStayTrue DEF AgentInv
<1>5. AloneUnlessOverlapped' /\ ConstructorSeesItsKey'
  BY <1>1 DEF AgentInv, AloneUnlessOverlapped, ConstructorSeesItsKey
<1>6. QED
  BY <1>1, <1>2, <1>3, <1>4, <1>5

(* The constructor raises and nobody puts the environment back.            *)
LEMMA RaiseInv ==
  ASSUME AgentInv, NEW b \in Builders, Raise(b)
  PROVE  AgentInv'
<1>1. b \in Building
  BY DEF Raise, Building
<1>2. env' \in Keys /\ env' \in Possible
  BY DEF Raise, AgentInv, TypeOK, OnlyPossible
<1>3. Stages'
  BY DEF Raise, Stages
<1>4. QED
  BY <1>1, <1>2, <1>3, EndInv DEF AgentInv, Raise

(* The old value is put back.                                              *)
LEMMA RestoreInv ==
  ASSUME AgentInv, NEW b \in Builders, Restore(b)
  PROVE  AgentInv'
<1>1. b \in Building /\ env' = build[b].prev
  BY DEF Restore, Building
<1>2. env' \in Keys /\ env' \in Possible
  BY <1>1 DEF Restore, AgentInv, TypeOK, OnlyPossible
<1>3. Stages'
  <2>1. Building' = Building \ {b}
    BY <1>1, EndInv DEF Restore
  <2>2. ~disturbed => Building = {b} /\ build[b].prev = openai
    BY <1>1 DEF AgentInv, Stages, Restore
  <2>3. QED
    BY <1>1, <2>1, <2>2 DEF Restore, Stages
<1>4. QED
  BY <1>1, <1>2, <1>3, EndInv DEF AgentInv, Restore

(* What planning reports is true when it is stored, and stays true.        *)
LEMMA PlanningInv ==
  ASSUME AgentInv, TriggerPlanning
  PROVE  AgentInv'
<1>1. /\ reported' = [key |-> Found # Empty, quiet |-> ~disturbed /\ Building = {}]
      /\ UNCHANGED <<env, openai, ollama, build, overlapped, disturbed>>
  BY DEF TriggerPlanning
<1>2. Building' = Building /\ Configured' = Configured
  BY <1>1 DEF Building, Configured
<1>3. reported'.quiet => env = openai
  BY <1>1 DEF AgentInv, Stages
<1>4. KeysAreTrue'
  BY <1>1, <1>2, <1>3, FoundKey DEF AgentInv, KeysAreTrue
<1>5. TypeOK'
  BY <1>1 DEF AgentInv, TypeOK
<1>6. QED
  BY <1>1, <1>2, <1>4, <1>5 DEF AgentInv, OnlyPossible, Possible, Stages,
     AloneUnlessOverlapped, ConstructorSeesItsKey

(* Every step keeps the invariant.                                         *)
LEMMA NextInv == AgentInv /\ [Next]_vars => AgentInv'
<1> SUFFICES ASSUME AgentInv, [Next]_vars
             PROVE  AgentInv'
  OBVIOUS
<1>1. CASE UNCHANGED vars
  BY <1>1 DEF vars, AgentInv, TypeOK, OnlyPossible, Possible, Stages, Building,
     AloneUnlessOverlapped, ConstructorSeesItsKey, KeysAreTrue, Configured
<1>2. QED
  BY <1>1, ResolveInv, SnapshotInv, ExportInv, ConstructInv, RaiseInv, RestoreInv,
     PlanningInv DEF Next

(* The invariant is one.                                                   *)
LEMMA InvHolds == Spec => []AgentInv
BY InitInv, NextInv, PTL DEF Spec

-----------------------------------------------------------------------------
(* However many constructions interleave or raise, a key the operator set  *)
(* is what the process has, and constructions that neither met nor raised  *)
(* leave the environment as it was.                                        *)
THEOREM EnvironmentIsKept == Spec => []EnvironmentKept
<1>1. AgentInv => EnvironmentKept
  BY FoundKey DEF AgentInv, Stages, EnvironmentKept
<1>2. QED
  BY <1>1, InvHolds, PTL

(* Every agent has the key the operator configured, and planning reports   *)
(* what there is.                                                          *)
THEOREM EveryKeyIsTrue == Spec => []KeysAreTrue
<1>1. AgentInv => KeysAreTrue
  BY DEF AgentInv
<1>2. QED
  BY <1>1, InvHolds, PTL

(* A construction that met no other finds its own key, whatever earlier    *)
(* ones left behind.                                                       *)
THEOREM UndisturbedConstructor == Spec => []ConstructorSeesItsKey
<1>1. AgentInv => ConstructorSeesItsKey
  BY DEF AgentInv
<1>2. QED
  BY <1>1, InvHolds, PTL

=============================================================================
