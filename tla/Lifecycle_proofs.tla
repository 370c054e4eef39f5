--------------------------- MODULE Lifecycle_proofs ---------------------------
(***************************************************************************)
(* Proofs about Lifecycle, for any number of processes, addresses and      *)
(* services, with failing calls, crashes and expired sessions.             *)
(***************************************************************************)
EXTENDS Lifecycle, FiniteSetTheorems, WellFoundedInduction, TLAPS

-----------------------------------------------------------------------------
(***************************************************************************)
(* The service a loop is at                                                *)
(***************************************************************************)
\* A finite set of numbers has a least one: the set of those below it is
\* minimal among such sets.
LEMMA LeastExists ==
  ASSUME NEW S \in SUBSET Nat, IsFiniteSet(S), S # {}
  PROVE  \E s \in S : \A t \in S : s <= t
<1>. DEFINE Below(s) == {t \in S : t < s}
            All == {Below(s) : s \in S}
            R == StrictSubsetOrdering(S)
<1>1. IsWellFoundedOn(R, SUBSET S)
  BY FS_StrictSubsetOrderingWellFounded, FS_FiniteSubsetsOfFinite
<1>2. All \subseteq SUBSET S /\ All # {}
  OBVIOUS
<1>3. PICK B \in All : \A C \in All : ~(<<C, B>> \in R)
  <2>. HIDE DEF R, All
  <2>. QED BY <1>1, <1>2, WFMin
<1>4. PICK s \in S : B = Below(s)
  BY <1>3
<1>5. \A t \in S : ~(t < s)
  <2>. SUFFICES ASSUME NEW t \in S, t < s PROVE FALSE
    OBVIOUS
  <2>1. Below(t) \subseteq Below(s) /\ t \in Below(s) /\ t \notin Below(t)
    <3>1. \A u \in S : u \in Nat
      OBVIOUS
    <3>2. \A u \in S : u < t => u < s
      BY <3>1
    <3>3. ~(t < t)
      BY <3>1
    <3>. QED BY <3>2, <3>3
  <2>2. <<Below(t), Below(s)>> \in R
    BY <2>1 DEF StrictSubsetOrdering
  <2>. QED BY <1>3, <1>4, <2>2
<1>. QED BY <1>5

LEMMA CurrentInTodo ==
  ASSUME TypeOK, NEW a \in Apps, todo[a] # {}
  PROVE  Current(a) \in todo[a] /\ Current(a) \in Services
<1>1. todo[a] \in SUBSET Services /\ todo[a] \in SUBSET Nat
  BY LifecycleAssumption DEF TypeOK
<1>2. IsFiniteSet(todo[a])
  BY <1>1, LifecycleAssumption, FS_Subset
<1>3. \E s \in todo[a] : \A t \in todo[a] : s <= t
  BY <1>1, <1>2, LeastExists
<1>4. Current(a) \in todo[a]
  BY <1>3 DEF Current
<1>. QED BY <1>1, <1>4

-----------------------------------------------------------------------------
(***************************************************************************)
(* Type correctness, and that a loop is at a service as long as it runs    *)
(***************************************************************************)
Registering == {"check", "make", "delete", "create"}

Looping == \A a \in Apps : pc[a] \in Registering \cup {"unregister"} => todo[a] # {}

\* A step of a leaves the other processes as they are.
OthersStay(a) ==
  \A b \in Apps \ {a} :
    /\ pc'[b] = pc[b] /\ todo'[b] = todo[b]
    /\ lost'[b] = lost[b] /\ undeleted'[b] = undeleted[b] /\ unclosed'[b] = unclosed[b]

LEMMA RegisteredTypes ==
  ASSUME TypeOK, NEW a \in Apps, Registered(a)
  PROVE  /\ todo' \in [Apps -> SUBSET Services]
         /\ pc' \in [Apps -> Stage]
         /\ pc'[a] \in {"check", "listen", "ready"}
         /\ pc'[a] = "check" => todo'[a] # {}
         /\ pc'[a] = "ready" => todo'[a] = {}
         /\ \A b \in Apps \ {a} : pc'[b] = pc[b] /\ todo'[b] = todo[b]
<1>1. todo' \in [Apps -> SUBSET Services] /\ todo'[a] = todo[a] \ {Current(a)}
      /\ \A b \in Apps \ {a} : todo'[b] = todo[b]
  BY DEF Registered, TypeOK
<1>2. round[a] \in {1, 2}
  BY DEF TypeOK
<1>3. AfterRound(round[a]) \in {"listen", "ready"}
  BY <1>2 DEF AfterRound
<1>4. pc' = [pc EXCEPT ![a] = IF todo'[a] = {} THEN AfterRound(round[a]) ELSE "check"]
  BY DEF Registered
<1>. QED BY <1>1, <1>3, <1>4 DEF TypeOK, Stage

LEMMA DiesTypes ==
  ASSUME TypeOK, NEW a \in Apps, Dies(a)
  PROVE  /\ pc' \in [Apps -> Stage] /\ pc'[a] = "dead"
         /\ OthersStay(a)
         /\ round' \in [Apps -> 1..2]
         /\ todo' \in [Apps -> SUBSET Services]
         /\ checks' \in [Apps -> 0..DrainChecks]
         /\ lost' \in [Apps -> BOOLEAN]
         /\ undeleted' \in [Apps -> SUBSET Services]
         /\ unclosed' \in [Apps -> BOOLEAN]
         /\ conns' \in [Apps -> 0..MaxConns]
         /\ ticking' \in [Apps -> BOOLEAN]
         /\ sampled' \in [Apps -> 0..MaxConns]
<1>. USE LifecycleAssumption DEF LifecycleAssumption
<1>1. pc' \in [Apps -> Stage] /\ pc'[a] = "dead" /\ \A b \in Apps \ {a} : pc'[b] = pc[b]
  BY DEF Dies, TypeOK, Stage
<1>2. OthersStay(a)
  BY <1>1 DEF Dies, TypeOK, OthersStay
<1>. QED BY <1>1, <1>2 DEF Dies, TypeOK

LEMMA ReleasedType ==
  ASSUME TypeOK, NEW a \in Apps
  PROVE  Released(a) \in [Addresses \X Services -> Apps \cup {None}]
BY DEF Released, TypeOK

LEMMA TypeInductive ==
  /\ Init => TypeOK /\ Looping
  /\ TypeOK /\ Looping /\ [Next]_vars => TypeOK' /\ Looping'
<1>. USE LifecycleAssumption DEF LifecycleAssumption
<1>1. Init => TypeOK /\ Looping
  BY DEF Init, TypeOK, Looping, Registering, Stage, None
<1>. SUFFICES ASSUME TypeOK, Looping, [Next]_vars
              PROVE  TypeOK' /\ Looping'
  BY <1>1
<1>. DEFINE Goal == TypeOK' /\ Looping'
<1>2. ASSUME NEW a \in Apps, CheckService(a) PROVE Goal
  BY <1>2 DEF history, CheckService, Goto, TypeOK, Looping, Registering, Stage, zookeeper, stat
<1>3. ASSUME NEW a \in Apps, MakeService(a) PROVE Goal
  <2>1. todo[a] # {} /\ Current(a) \in Services
    BY <1>3, CurrentInTodo DEF MakeService, Goto, Looping, Registering
  <2>2. CASE Goto(a, "make", "delete") /\ made' = made \cup {Current(a)}
             /\ UNCHANGED <<owner, stat, round, todo, checks, history>>
    BY <1>3, <2>1, <2>2 DEF history, MakeService, Goto, TypeOK, Looping, Registering, Stage, stat
  <2>3. CASE Dies(a) /\ (owner' = Released(a) \/ UNCHANGED owner) /\ UNCHANGED made
    BY <1>3, <2>3, DiesTypes, ReleasedType DEF MakeService, OthersStay, TypeOK, Looping, Registering
  <2>. QED BY <1>3, <2>2, <2>3 DEF MakeService
<1>4. ASSUME NEW a \in Apps, DeleteAddress(a) PROVE Goal
  BY <1>4 DEF history, DeleteAddress, Goto, TypeOK, Looping, Registering, Stage, stat, None
<1>5. ASSUME NEW a \in Apps, CreateAddress(a) PROVE Goal
  <2>1. CASE Registered(a) /\ owner' = [owner EXCEPT ![Node(a, Current(a))] = a]
             /\ UNCHANGED <<stat, round, checks, history>>
    BY <1>5, <2>1, RegisteredTypes
    DEF history, CreateAddress, TypeOK, Looping, Registering, stat
  <2>2. CASE Dies(a) /\ UNCHANGED owner
    BY <1>5, <2>2, DiesTypes DEF CreateAddress, OthersStay, TypeOK, Looping, Registering
  <2>. QED BY <1>5, <2>1, <2>2 DEF CreateAddress
<1>6. ASSUME NEW a \in Apps, Start(a) PROVE Goal
  BY <1>6 DEF history, Start, Goto, TypeOK, Looping, Registering, Stage, zookeeper, stat
<1>7. ASSUME NEW a \in Apps, ListenAndServer(a) PROVE Goal
  BY <1>7 DEF history, ListenAndServer, Goto, TypeOK, Looping, Registering, Stage, zookeeper, stat
<1>8. ASSUME NEW a \in Apps, Assemble(a) PROVE Goal
  BY <1>8 DEF history, Assemble, Goto, TypeOK, Looping, Registering, Stage, zookeeper
<1>9. ASSUME NEW a \in Apps, Destroy(a) PROVE Goal
  BY <1>9 DEF history, Destroy, Goto, TypeOK, Looping, Registering, Stage, zookeeper, stat
<1>10. ASSUME NEW a \in Apps, UnRegisteService(a) PROVE Goal
  <2>1. Current(a) \in Services
    BY <1>10, CurrentInTodo DEF UnRegisteService, Looping
  <2>2. undeleted' \in [Apps -> SUBSET Services]
    BY <1>10, <2>1 DEF UnRegisteService, TypeOK
  <2>3. owner' \in [Addresses \X Services -> Apps \cup {None}]
    BY <1>10 DEF UnRegisteService, TypeOK
  <2>4. pc' \in [Apps -> Stage] /\ todo' \in [Apps -> SUBSET Services] /\ Looping'
    BY <1>10 DEF UnRegisteService, TypeOK, Looping, Registering, Stage
  <2>. QED BY <1>10, <2>2, <2>3, <2>4 DEF UnRegisteService, TypeOK, stat
<1>11. ASSUME NEW a \in Apps, CloseSession(a) PROVE Goal
  <2>1. owner' \in [Addresses \X Services -> Apps \cup {None}]
    BY <1>11, ReleasedType DEF CloseSession, TypeOK
  <2>2. undeleted' \in [Apps -> SUBSET Services] /\ unclosed' \in [Apps -> BOOLEAN]
    BY <1>11 DEF CloseSession, TypeOK
  <2>3. pc' \in [Apps -> Stage] /\ Looping'
    BY <1>11 DEF CloseSession, Goto, TypeOK, Looping, Registering, Stage
  <2>. QED BY <1>11, <2>1, <2>2, <2>3 DEF CloseSession, TypeOK, stat
<1>12. ASSUME NEW a \in Apps, Drain(a) PROVE Goal
  BY <1>12 DEF history, Drain, TypeOK, Looping, Registering, Stage, zookeeper, stat
<1>13. ASSUME NEW a \in Apps, Stop(a) PROVE Goal
  BY <1>13 DEF history, Stop, Goto, TypeOK, Looping, Registering, Stage, zookeeper, stat
<1>14. ASSUME NEW a \in Apps, Shutdown(a) PROVE Goal
  BY <1>14 DEF history, Shutdown, Goto, TypeOK, Looping, Registering, Stage, zookeeper
<1>15. ASSUME NEW a \in Apps, Tick(a) PROVE Goal
  BY <1>15 DEF history, Tick, TypeOK, Looping, zookeeper, main
<1>16. ASSUME NEW a \in Apps, Connect(a) \/ Disconnect(a) PROVE Goal
  <2>1. conns[a] \in 0..MaxConns /\ MaxConns \in Nat
    BY DEF TypeOK
  <2>2. conns' \in [Apps -> 0..MaxConns]
    BY <1>16, <2>1 DEF Connect, Disconnect, TypeOK
  <2>. QED BY <1>16, <2>2 DEF history, Connect, Disconnect, TypeOK, Looping, zookeeper, main
<1>17. ASSUME NEW a \in Apps, Crash(a) PROVE Goal
  BY <1>17, DiesTypes DEF Crash, OthersStay, TypeOK, Looping, Registering, zookeeper
<1>18. ASSUME NEW a \in Apps, Expire(a) PROVE Goal
  <2>1. Running(a) \in BOOLEAN
    BY DEF Running
  <2>. QED BY <1>18, <2>1, ReleasedType DEF Expire, TypeOK, Looping, stat
<1>19. CASE UNCHANGED vars
  BY <1>19 DEF history, vars, zookeeper, stat, main, TypeOK, Looping
<1>. QED
  BY <1>2, <1>3, <1>4, <1>5, <1>6, <1>7, <1>8, <1>9, <1>10, <1>11, <1>12, <1>13,
     <1>14, <1>15, <1>16, <1>17, <1>18, <1>19
  DEF Next, Main, RegisteService

\* Every variable of Lifecycle has its type, for any set of processes, any
\* addresses and services, and all faults.
THEOREM TypeCorrect == Spec => []TypeOK
<1>. QED BY TypeInductive, PTL DEF Spec

-----------------------------------------------------------------------------
(***************************************************************************)
(* What a step of one process can do to the nodes and to the others        *)
(***************************************************************************)
Step(a) ==
  \/ Start(a) \/ Main(a) \/ Destroy(a)
  \/ Tick(a) \/ Connect(a) \/ Disconnect(a)
  \/ Crash(a) \/ Expire(a)

\* A node of a, or at a's address while a runs, can go; the node of the service
\* that a is at can come.
NodeStep(a, n) ==
  \/ owner'[n] = owner[n]
  \/ /\ owner'[n] = None
     /\ owner[n] = a \/ (Running(a) /\ n[1] = address[a])
  \/ /\ owner[n] = None /\ owner'[n] = a
     /\ pc[a] = "create" /\ n = Node(a, Current(a))
     /\ pc'[a] \in {"check", "listen", "ready"}

ServiceStep(a) ==
  made' = made \/ (made' = made \cup {Current(a)} /\ owner' = owner)

LEMMA ReleasedStep ==
  ASSUME TypeOK, NEW a \in Apps, owner' = Released(a), NEW n \in Addresses \X Services
  PROVE  NodeStep(a, n)
BY DEF Released, TypeOK, NodeStep

LEMMA NodeDeleted ==
  ASSUME TypeOK, NEW a \in Apps, Running(a), NEW s \in Services,
         owner' = [owner EXCEPT ![Node(a, s)] = None], NEW n \in Addresses \X Services
  PROVE  NodeStep(a, n)
<1>1. CASE n = Node(a, s)
  BY <1>1 DEF NodeStep, Node, TypeOK
<1>2. CASE n # Node(a, s)
  BY <1>2 DEF NodeStep, TypeOK
<1>. QED BY <1>1, <1>2

LEMMA StepEffect ==
  ASSUME TypeOK, Looping, NEW a \in Apps, Step(a)
  PROVE  /\ address' = address
         /\ OthersStay(a)
         /\ ServiceStep(a)
         /\ \A n \in Addresses \X Services : NodeStep(a, n)
<1>. DEFINE Goal == /\ address' = address /\ OthersStay(a) /\ ServiceStep(a)
                    /\ \A n \in Addresses \X Services : NodeStep(a, n)
<1>1. CASE owner' = owner /\ made' = made /\ address' = address
  <2>1. OthersStay(a)
    <3>1. CASE CreateAddress(a)
      BY <3>1, RegisteredTypes, DiesTypes DEF history, CreateAddress, OthersStay
    <3>2. CASE MakeService(a)
      BY <3>2, DiesTypes DEF history, MakeService, Goto, OthersStay, TypeOK
    <3>3. CASE Crash(a)
      BY <3>3, DiesTypes DEF Crash, OthersStay
    <3>4. CASE Start(a) \/ Destroy(a) \/ CheckService(a) \/ ListenAndServer(a) \/ Assemble(a)
      BY <3>4 DEF history, Start, Destroy, CheckService, ListenAndServer, Assemble, Goto, OthersStay, TypeOK
    <3>5. CASE DeleteAddress(a) \/ UnRegisteService(a) \/ CloseSession(a) \/ Expire(a)
      BY <3>5 DEF history, DeleteAddress, UnRegisteService, CloseSession, Expire, Goto, OthersStay, TypeOK
    <3>6. CASE Drain(a) \/ Stop(a) \/ Shutdown(a) \/ Tick(a) \/ Connect(a) \/ Disconnect(a)
      BY <3>6 DEF history, Drain, Stop, Shutdown, Tick, Connect, Disconnect, main, Goto, OthersStay, TypeOK
    <3>. QED BY <3>1, <3>2, <3>3, <3>4, <3>5, <3>6 DEF Step, Main, RegisteService
  <2>. QED BY <1>1, <2>1 DEF ServiceStep, NodeStep
<1>2. CASE MakeService(a)
  <2>1. CASE Goto(a, "make", "delete") /\ made' = made \cup {Current(a)}
             /\ UNCHANGED <<owner, stat, round, todo, checks, history>>
    BY <1>2, <2>1 DEF history, MakeService, Goto, OthersStay, ServiceStep, NodeStep, TypeOK
  <2>2. CASE Dies(a) /\ owner' = Released(a) /\ UNCHANGED made
    BY <1>2, <2>2, DiesTypes, ReleasedStep DEF MakeService, ServiceStep
  <2>3. CASE UNCHANGED <<owner, made>>
    BY <1>1, <1>2, <2>3 DEF MakeService
  <2>. QED BY <1>2, <2>1, <2>2, <2>3 DEF MakeService
<1>3. CASE DeleteAddress(a)
  <2>1. Running(a) /\ Current(a) \in Services
    BY <1>3, CurrentInTodo DEF DeleteAddress, Goto, Running, Looping, Registering
  <2>2. \A n \in Addresses \X Services : NodeStep(a, n)
    BY <1>3, <2>1, NodeDeleted DEF DeleteAddress, NodeStep
  <2>. QED BY <1>3, <2>2 DEF history, DeleteAddress, Goto, OthersStay, ServiceStep, TypeOK
<1>4. CASE UnRegisteService(a)
  <2>1. Running(a) /\ Current(a) \in Services
    BY <1>4, CurrentInTodo DEF UnRegisteService, Running, Looping
  <2>2. \A n \in Addresses \X Services : NodeStep(a, n)
    BY <1>4, <2>1, NodeDeleted DEF UnRegisteService, NodeStep
  <2>. QED BY <1>4, <2>2 DEF UnRegisteService, OthersStay, ServiceStep, TypeOK
<1>5. CASE CreateAddress(a)
  <2>1. CASE Dies(a) /\ UNCHANGED owner
    BY <1>1, <1>5, <2>1 DEF CreateAddress
  <2>2. CASE /\ owner[Node(a, Current(a))] = None
             /\ Registered(a)
             /\ owner' = [owner EXCEPT ![Node(a, Current(a))] = a]
             /\ UNCHANGED <<stat, round, checks, history>>
    <3>1. ASSUME NEW n \in Addresses \X Services PROVE NodeStep(a, n)
      <4>1. CASE n = Node(a, Current(a))
        BY <1>5, <2>2, <4>1, RegisteredTypes DEF CreateAddress, NodeStep, TypeOK
      <4>2. CASE n # Node(a, Current(a))
        BY <2>2, <4>2 DEF NodeStep, TypeOK
      <4>. QED BY <4>1, <4>2
    <3>. QED BY <1>5, <2>2, <3>1, RegisteredTypes DEF history, CreateAddress, OthersStay, ServiceStep
  <2>. QED BY <1>5, <2>1, <2>2 DEF CreateAddress
<1>6. CASE CloseSession(a)
  <2>1. CASE UNCHANGED owner
    BY <1>1, <1>6, <2>1 DEF CloseSession
  <2>2. CASE owner' = Released(a)
    BY <1>6, <2>2, ReleasedStep DEF CloseSession, Goto, OthersStay, ServiceStep, TypeOK
  <2>. QED BY <1>6, <2>1, <2>2 DEF CloseSession
<1>7. CASE Expire(a)
  BY <1>7, ReleasedStep DEF Expire, OthersStay, ServiceStep, TypeOK
<1>8. CASE Start(a) \/ Destroy(a) \/ CheckService(a) \/ ListenAndServer(a) \/ Assemble(a)
  BY <1>1, <1>8 DEF Start, Destroy, CheckService, ListenAndServer, Assemble, zookeeper
<1>9. CASE Drain(a) \/ Stop(a) \/ Shutdown(a) \/ Tick(a) \/ Connect(a) \/ Disconnect(a) \/ Crash(a)
  BY <1>1, <1>9 DEF Drain, Stop, Shutdown, Tick, Connect, Disconnect, Crash, zookeeper
<1>. QED
  BY <1>2, <1>3, <1>4, <1>5, <1>6, <1>7, <1>8, <1>9 DEF Step, Main, RegisteService

LEMMA NextIsStep == Next => \E a \in Apps : Step(a)
BY DEF Next, Step

-----------------------------------------------------------------------------
(***************************************************************************)
(* A server that is ready owns the nodes of its services                   *)
(***************************************************************************)
\* What Start demands stays true: an address has one running process.
Exclusive ==
  \A a, b \in Apps : Running(a) /\ Running(b) /\ address[a] = address[b] => a = b

\* A server whose session is not lost owns the nodes its loop is done with, and
\* when it is ready the loop is done with all of them.
Owned(a) ==
  pc[a] \in Registering \cup {"ready"} /\ ~lost[a] =>
    \A s \in Services \ todo[a] : owner[Node(a, s)] = a

ReadyDone(a) == pc[a] = "ready" => todo[a] = {}

OwnInv == Exclusive /\ \A a \in Apps : Owned(a) /\ ReadyDone(a)

LEMMA OnlyStartStarts ==
  ASSUME TypeOK, Looping, NEW a \in Apps, Step(a), Running(a)'
  PROVE  Running(a) \/ Start(a)
<1>1. CASE pc' = pc
  BY <1>1 DEF Running
<1>2. CASE RegisteService(a)
  BY <1>2 DEF RegisteService, CheckService, MakeService, DeleteAddress, CreateAddress, Goto, Running
<1>3. CASE ListenAndServer(a) \/ Assemble(a) \/ Destroy(a) \/ UnRegisteService(a) \/ CloseSession(a)
  BY <1>3 DEF ListenAndServer, Assemble, Destroy, UnRegisteService, CloseSession, Goto, Running
<1>4. CASE Drain(a) \/ Stop(a) \/ Shutdown(a) \/ Crash(a)
  BY <1>4 DEF Drain, Stop, Shutdown, Crash, Goto, Running
<1>5. CASE Tick(a) \/ Connect(a) \/ Disconnect(a) \/ Expire(a)
  BY <1>1, <1>5 DEF Tick, Connect, Disconnect, Expire, main
<1>. QED BY <1>2, <1>3, <1>4, <1>5 DEF Step, Main

LEMMA ExclusiveStep ==
  ASSUME TypeOK, Looping, Exclusive, NEW a \in Apps, Step(a)
  PROVE  Exclusive'
<1>1. address' = address /\ OthersStay(a)
  BY StepEffect
<1>2. \A b \in Apps \ {a} : Running(b)' <=> Running(b)
  BY <1>1 DEF OthersStay, Running
<1>3. Running(a)' => Running(a) \/ Start(a)
  BY OnlyStartStarts
<1>4. Start(a) => \A b \in Apps : address[b] = address[a] => ~Running(b)
  BY DEF Start
<1>. SUFFICES ASSUME NEW b \in Apps, NEW c \in Apps,
                     Running(b)', Running(c)', address[b] = address[c]
              PROVE  b = c
  BY <1>1 DEF Exclusive
<1>. QED BY <1>2, <1>3, <1>4 DEF Exclusive

\* The step of another process leaves the nodes of a running server alone.
LEMMA OwnedByOthers ==
  ASSUME TypeOK, Looping, Exclusive, NEW a \in Apps, Step(a), NEW b \in Apps \ {a}, Owned(b)
  PROVE  Owned(b)'
<1>1. address' = address /\ OthersStay(a) /\ \A n \in Addresses \X Services : NodeStep(a, n)
  BY StepEffect
<1>. SUFFICES ASSUME pc[b] \in Registering \cup {"ready"}, ~lost[b],
                     NEW s \in Services \ todo[b]
              PROVE  owner'[Node(b, s)] = b
  BY <1>1 DEF Owned, OthersStay, Node
<1>2. owner[Node(b, s)] = b /\ Node(b, s) \in Addresses \X Services
  BY DEF Owned, Node, TypeOK
<1>3. Running(b)
  BY DEF Running, Registering
<1>4. b # None
  BY LifecycleAssumption DEF None
<1>5. ~(Running(a) /\ Node(b, s)[1] = address[a])
  BY <1>3 DEF Exclusive, Node
<1>. QED BY <1>1, <1>2, <1>4, <1>5 DEF NodeStep

LEMMA OwnedBySelf ==
  ASSUME TypeOK, Looping, NEW a \in Apps, Step(a), Owned(a), ReadyDone(a)
  PROVE  Owned(a)' /\ ReadyDone(a)'
<1>0. address' = address
  BY StepEffect
<1>1. CASE CheckService(a)
  BY <1>0, <1>1 DEF history, CheckService, zookeeper, Goto, Owned, ReadyDone, Registering, Node, TypeOK
<1>2. CASE MakeService(a)
  <2>1. CASE Goto(a, "make", "delete") /\ UNCHANGED <<owner, stat, round, todo, checks, history>>
    BY <1>0, <2>1 DEF history, Goto, Owned, ReadyDone, Registering, Node, TypeOK
  <2>2. CASE Dies(a)
    BY <2>2, DiesTypes DEF Owned, ReadyDone, Registering
  <2>. QED BY <1>2, <2>1, <2>2 DEF MakeService
<1>3. CASE DeleteAddress(a)
  <2>1. Current(a) \in todo[a] /\ Current(a) \in Services
    BY <1>3, CurrentInTodo DEF DeleteAddress, Goto, Looping, Registering
  <2>2. \A s \in Services \ todo[a] : owner'[Node(a, s)] = owner[Node(a, s)]
    BY <1>3, <2>1 DEF DeleteAddress, Node, TypeOK
  <2>. QED BY <1>0, <1>3, <2>2 DEF history, DeleteAddress, Goto, Owned, ReadyDone, Registering, Node, TypeOK
<1>4. CASE CreateAddress(a)
  <2>1. CASE Dies(a)
    BY <2>1, DiesTypes DEF Owned, ReadyDone, Registering
  <2>2. CASE /\ Registered(a)
             /\ owner' = [owner EXCEPT ![Node(a, Current(a))] = a]
             /\ UNCHANGED <<stat, round, checks, history>>
    <3>1. Current(a) \in todo[a] /\ Current(a) \in Services
      BY <1>4, CurrentInTodo DEF CreateAddress, Looping, Registering
    <3>2. todo'[a] = todo[a] \ {Current(a)}
      BY <2>2 DEF Registered, TypeOK
    <3>3. ReadyDone(a)'
      BY <2>2, RegisteredTypes DEF ReadyDone
    <3>4. ASSUME ~lost[a], NEW s \in Services \ todo'[a] PROVE owner'[Node(a, s)] = a
      <4>1. CASE s = Current(a)
        BY <2>2, <3>1, <4>1 DEF Node, TypeOK
      <4>2. CASE s # Current(a)
        <5>1. owner[Node(a, s)] = a
          BY <1>4, <3>2, <3>4, <4>2 DEF CreateAddress, Owned, Registering
        <5>. QED BY <2>2, <4>2, <5>1 DEF Node, TypeOK
      <4>. QED BY <4>1, <4>2
    <3>. QED BY <1>0, <2>2, <3>3, <3>4 DEF history, Owned, Node
  <2>. QED BY <1>4, <2>1, <2>2 DEF CreateAddress
<1>5. CASE Start(a) \/ Assemble(a)
  BY <1>5 DEF history, Start, Assemble, Goto, Owned, ReadyDone, TypeOK
<1>6. CASE ListenAndServer(a) \/ Destroy(a) \/ UnRegisteService(a) \/ CloseSession(a)
  BY <1>6 DEF history, ListenAndServer, Destroy, UnRegisteService, CloseSession, Goto, Owned, ReadyDone,
              Registering, TypeOK
<1>7. CASE Drain(a) \/ Stop(a) \/ Shutdown(a)
  BY <1>7 DEF history, Drain, Stop, Shutdown, Goto, Owned, ReadyDone, Registering, TypeOK
<1>8. CASE Crash(a)
  BY <1>8, DiesTypes DEF Crash, Owned, ReadyDone, Registering
<1>9. CASE Tick(a) \/ Connect(a) \/ Disconnect(a)
  BY <1>0, <1>9 DEF history, Tick, Connect, Disconnect, main, zookeeper, Owned, ReadyDone, Node
<1>10. CASE Expire(a)
  <2>1. pc' = pc /\ todo' = todo
    BY <1>10 DEF Expire
  <2>2. lost'[a] \/ pc[a] \in {"off", "done", "dead"}
    BY <1>10 DEF Expire, Running, TypeOK
  <2>. QED BY <2>1, <2>2 DEF Owned, ReadyDone, Registering
<1>. QED
  BY <1>1, <1>2, <1>3, <1>4, <1>5, <1>6, <1>7, <1>8, <1>9, <1>10 DEF Step, Main, RegisteService

LEMMA OwnInvInductive ==
  /\ Init => OwnInv
  /\ TypeOK /\ Looping /\ OwnInv /\ [Next]_vars => OwnInv'
<1>1. Init => OwnInv
  BY DEF Init, OwnInv, Exclusive, Owned, ReadyDone, Running, Registering
<1>2. ASSUME TypeOK, Looping, OwnInv, NEW a \in Apps, Step(a) PROVE OwnInv'
  <2>1. Exclusive'
    BY <1>2, ExclusiveStep DEF OwnInv
  <2>2. Owned(a)' /\ ReadyDone(a)'
    BY <1>2, OwnedBySelf DEF OwnInv
  <2>3. ASSUME NEW b \in Apps \ {a} PROVE Owned(b)' /\ ReadyDone(b)'
    BY <1>2, StepEffect, OwnedByOthers DEF OwnInv, ReadyDone, OthersStay
  <2>. QED BY <2>1, <2>2, <2>3 DEF OwnInv
<1>3. ASSUME OwnInv, UNCHANGED vars PROVE OwnInv'
  BY <1>3 DEF history, vars, zookeeper, stat, main, OwnInv, Exclusive, Owned, ReadyDone, Running, Node
<1>. QED BY <1>1, <1>2, <1>3, NextIsStep

\* Once initApplication has returned, the nodes of a server's services are its
\* own, however the lives of the processes on its address overlap with those of
\* their sessions, until its own session is lost.
THEOREM ReadyIsRegistered == Spec => []RegisteredWhileReady
<1>1. OwnInv => RegisteredWhileReady
  BY DEF OwnInv, Owned, ReadyDone, RegisteredWhileReady
<1>. QED BY TypeInductive, OwnInvInductive, <1>1, PTL DEF Spec

-----------------------------------------------------------------------------
(***************************************************************************)
(* Servers keep what clients take for granted                              *)
(***************************************************************************)
\* A node is at its owner's address and below the service's node, which is
\* there before the loop comes to delete or create.
OwnNodes == \A n \in Addresses \X Services : owner[n] # None => n[1] = address[owner[n]]

NodesBelow == \A n \in Addresses \X Services : owner[n] # None => n[2] \in made

MadeFirst == \A a \in Apps : pc[a] \in {"delete", "create"} => Current(a) \in made

MemberInv == OwnNodes /\ NodesBelow /\ MadeFirst

LEMMA MadeFirstStep ==
  ASSUME TypeOK, Looping, MadeFirst, NEW a \in Apps, Step(a)
  PROVE  MadeFirst'
<1>1. OthersStay(a) /\ made \subseteq made'
  BY StepEffect DEF ServiceStep
<1>2. ASSUME NEW b \in Apps \ {a}, pc'[b] \in {"delete", "create"}
      PROVE  Current(b)' \in made'
  BY <1>1, <1>2 DEF OthersStay, MadeFirst, Current
<1>3. ASSUME pc'[a] \in {"delete", "create"} PROVE Current(a)' \in made'
  <2>1. CASE CheckService(a) \/ MakeService(a)
    <3>1. CASE Dies(a)
      BY <1>3, <3>1, DiesTypes
    <3>. QED BY <1>3, <2>1, <3>1 DEF CheckService, MakeService, Goto, Current, TypeOK, zookeeper
  <2>2. CASE DeleteAddress(a)
    BY <1>1, <2>2 DEF DeleteAddress, Goto, MadeFirst, Current
  <2>3. CASE CreateAddress(a)
    BY <1>3, <2>3, RegisteredTypes, DiesTypes DEF CreateAddress
  <2>4. CASE Start(a) \/ ListenAndServer(a) \/ Assemble(a) \/ Destroy(a) \/ CloseSession(a)
    BY <1>3, <2>4 DEF Start, ListenAndServer, Assemble, Destroy, CloseSession, Goto, TypeOK
  <2>5. CASE UnRegisteService(a) \/ Drain(a) \/ Stop(a) \/ Shutdown(a)
    BY <1>3, <2>5 DEF UnRegisteService, Drain, Stop, Shutdown, Goto, TypeOK
  <2>6. CASE Tick(a) \/ Connect(a) \/ Disconnect(a) \/ Expire(a)
    BY <1>1, <1>3, <2>6 DEF Tick, Connect, Disconnect, Expire, main, MadeFirst, Current
  <2>7. CASE Crash(a)
    BY <1>3, <2>7, DiesTypes DEF Crash
  <2>. QED
    BY <2>1, <2>2, <2>3, <2>4, <2>5, <2>6, <2>7 DEF Step, Main, RegisteService
<1>. QED BY <1>2, <1>3 DEF MadeFirst

LEMMA MemberInductive ==
  /\ Init => MemberInv
  /\ TypeOK /\ Looping /\ MemberInv /\ [Next]_vars => MemberInv'
<1>1. Init => MemberInv
  BY DEF Init, MemberInv, OwnNodes, NodesBelow, MadeFirst
<1>2. ASSUME TypeOK, Looping, MemberInv, NEW a \in Apps, Step(a) PROVE MemberInv'
  <2>1. address' = address /\ made \subseteq made'
        /\ \A n \in Addresses \X Services : NodeStep(a, n)
    BY <1>2, StepEffect DEF ServiceStep
  <2>2. pc[a] = "create" => Current(a) \in made
    BY <1>2 DEF MemberInv, MadeFirst
  <2>3. OwnNodes'
    BY <1>2, <2>1 DEF MemberInv, OwnNodes, NodeStep, Node
  <2>4. NodesBelow'
    BY <1>2, <2>1, <2>2 DEF MemberInv, NodesBelow, NodeStep, Node
  <2>. QED BY <1>2, <2>3, <2>4, MadeFirstStep DEF MemberInv
<1>3. ASSUME MemberInv, UNCHANGED vars PROVE MemberInv'
  BY <1>3 DEF history, vars, zookeeper, main, MemberInv, OwnNodes, NodesBelow, MadeFirst, Current
<1>. QED BY <1>1, <1>2, <1>3, NextIsStep

LEMMA MembersMove ==
  ASSUME TypeOK, Looping, MemberInv, NEW a \in Apps, Step(a), made' = made,
         NEW s \in Services
  PROVE  [M(s)!Next]_<<s \in made, Members(s)>>
<1>. DEFINE h == address[a]
<1>1. h \in Addresses
  BY DEF TypeOK
<1>2. \A n \in Addresses \X Services : NodeStep(a, n)
  BY StepEffect
<1>3. \A k \in Addresses \ {h} : k \in Members(s)' <=> k \in Members(s)
  <2>. SUFFICES ASSUME NEW k \in Addresses \ {h} PROVE owner'[<<k, s>>] = owner[<<k, s>>]
    BY DEF Members
  <2>1. NodeStep(a, <<k, s>>) /\ (owner[<<k, s>>] = a => k = h)
    BY <1>2, LifecycleAssumption DEF MemberInv, OwnNodes, None
  <2>. QED BY <2>1 DEF NodeStep, Node
<1>4. CASE h \in Members(s) /\ h \notin Members(s)'
  <2>1. Members(s)' = Members(s) \ {h}
    BY <1>3, <1>4 DEF Members
  <2>. QED BY <1>1, <1>4, <2>1 DEF M!Next, M!Leave
<1>5. CASE h \notin Members(s) /\ h \in Members(s)'
  <2>1. Members(s)' = Members(s) \cup {h}
    BY <1>3, <1>5 DEF Members
  <2>2. s \in made
    <3>1. NodeStep(a, <<h, s>>) /\ owner[<<h, s>>] = None /\ owner'[<<h, s>>] # None
      BY <1>1, <1>2, <1>5 DEF Members
    <3>2. pc[a] = "create" /\ <<h, s>> = Node(a, Current(a))
      BY <3>1 DEF NodeStep
    <3>. QED BY <3>2 DEF MemberInv, MadeFirst, Node
  <2>. QED BY <1>1, <1>5, <2>1, <2>2 DEF M!Next, M!Join
<1>6. CASE h \in Members(s) <=> h \in Members(s)'
  <2>1. Members(s)' = Members(s)
    BY <1>3, <1>6 DEF Members
  <2>. QED BY <2>1
<1>. QED BY <1>4, <1>5, <1>6

LEMMA MembershipStep ==
  ASSUME TypeOK, Looping, MemberInv, NEW a \in Apps, Step(a), NEW s \in Services
  PROVE  [M(s)!Next]_<<s \in made, Members(s)>>
<1>1. CASE made' = made
  BY <1>1, MembersMove
<1>2. CASE made' = made \cup {Current(a)} /\ owner' = owner
  <2>1. Members(s)' = Members(s)
    BY <1>2 DEF Members
  <2>2. CASE s = Current(a) /\ s \notin made
    BY <1>2, <2>1, <2>2 DEF M!Next, M!Make
  <2>3. CASE ~(s = Current(a) /\ s \notin made)
    BY <1>2, <2>1, <2>3
  <2>. QED BY <2>2, <2>3
<1>. QED BY <1>1, <1>2, StepEffect DEF ServiceStep

\* What the servers do to the nodes of a service implements Membership: its
\* node appears once, and below it one address at a time comes or goes.
THEOREM MembershipKept == Spec => ServersKeepMembership
<1>1. Init => \A s \in Services : M(s)!Init
  BY DEF Init, M!Init, Members
<1>2. TypeOK /\ Looping /\ MemberInv /\ [Next]_vars
      => [\A s \in Services : [M(s)!Next]_<<s \in made, Members(s)>>]_vars
  BY MembershipStep, NextIsStep
<1>. QED BY TypeInductive, MemberInductive, <1>1, <1>2, PTL DEF Spec, ServersKeepMembership

-----------------------------------------------------------------------------
(***************************************************************************)
(* What a server that shuts down still announces                           *)
(***************************************************************************)
Draining == {"drain", "stop", "shutdown", "done"}

\* Whether a node of a can still be there, given how far its Destroy has come:
\* the deletion is to come or has failed, and in the end Close has failed too.
Remains(a, n) ==
  /\ pc[a] # "off"
  /\ pc[a] = "unregister" => n[2] \in todo[a] \cup undeleted[a]
  /\ pc[a] = "close" => n[2] \in undeleted[a]
  /\ pc[a] \in Draining => n[2] \in undeleted[a] /\ unclosed[a]

Withdrawing ==
  \A a \in Apps : \A n \in Addresses \X Services : owner[n] = a => Remains(a, n)

LEMMA RemainsStep ==
  ASSUME TypeOK, Looping, OwnNodes, NEW a \in Apps, Step(a),
         NEW n \in Addresses \X Services, Remains(a, n), owner[n] = a, owner'[n] = a
  PROVE  Remains(a, n)'
<1>1. a # None /\ n \in DOMAIN owner
  BY LifecycleAssumption DEF None, TypeOK
<1>2. ASSUME pc'[a] \in {"check", "make", "delete", "create", "listen", "assemble", "ready", "dead"}
      PROVE  Remains(a, n)'
  BY <1>2 DEF Remains, Draining
<1>3. CASE RegisteService(a)
  <2>1. CASE CreateAddress(a)
    BY <1>2, <2>1, RegisteredTypes, DiesTypes DEF CreateAddress
  <2>2. CASE MakeService(a)
    BY <1>2, <2>2, DiesTypes DEF MakeService, Goto, TypeOK
  <2>. QED BY <1>2, <1>3, <2>1, <2>2 DEF RegisteService, CheckService, DeleteAddress, Goto, TypeOK
<1>4. CASE Start(a) \/ ListenAndServer(a) \/ Assemble(a)
  BY <1>2, <1>4 DEF Start, ListenAndServer, Assemble, Goto, TypeOK
<1>5. CASE Destroy(a)
  BY <1>5 DEF Destroy, Goto, TypeOK, history, Remains, Draining
<1>6. CASE UnRegisteService(a)
  <2>1. n[2] \in todo[a] \cup undeleted[a] /\ n = Node(a, n[2]) /\ todo[a] # {}
    BY <1>1, <1>6 DEF UnRegisteService, Remains, OwnNodes, Node, Looping
  <2>2. todo'[a] = todo[a] \ {Current(a)}
    BY <1>6 DEF UnRegisteService, TypeOK
  <2>3. n[2] \in todo'[a] \cup undeleted'[a]
    <3>1. CASE owner' = [owner EXCEPT ![Node(a, Current(a))] = None] /\ UNCHANGED undeleted
      <4>1. n[2] # Current(a)
        BY <1>1, <2>1, <3>1
      <4>. QED BY <2>1, <2>2, <3>1, <4>1
    <3>2. CASE undeleted' = [undeleted EXCEPT ![a] = @ \cup {Current(a)}]
      BY <2>1, <2>2, <3>2 DEF TypeOK
    <3>. QED BY <1>6, <3>1, <3>2 DEF UnRegisteService
  <2>4. pc'[a] = "unregister" \/ (pc'[a] = "close" /\ todo'[a] = {})
    BY <1>6 DEF UnRegisteService, TypeOK
  <2>. QED BY <2>3, <2>4 DEF Remains, Draining
<1>7. CASE CloseSession(a)
  <2>1. ~(owner' = Released(a))
    BY <1>1 DEF Released
  <2>2. unclosed'[a] /\ undeleted' = undeleted /\ pc'[a] = "drain" /\ pc[a] = "close"
    BY <1>7, <2>1 DEF CloseSession, Goto, TypeOK
  <2>. QED BY <2>2 DEF Remains
<1>8. CASE Drain(a) \/ Stop(a) \/ Shutdown(a)
  BY <1>8 DEF Drain, Stop, Shutdown, Goto, TypeOK, history, Remains, Draining
<1>9. CASE Tick(a) \/ Connect(a) \/ Disconnect(a)
  BY <1>9 DEF Tick, Connect, Disconnect, main, history, Remains
<1>10. CASE Crash(a)
  BY <1>2, <1>10, DiesTypes DEF Crash
<1>11. CASE Expire(a)
  BY <1>1, <1>11 DEF Expire, Released
<1>. QED
  BY <1>3, <1>4, <1>5, <1>6, <1>7, <1>8, <1>9, <1>10, <1>11 DEF Step, Main

LEMMA WithdrawingStep ==
  ASSUME TypeOK, Looping, OwnNodes, Withdrawing, NEW a \in Apps, Step(a)
  PROVE  Withdrawing'
<1>. SUFFICES ASSUME NEW b \in Apps, NEW n \in Addresses \X Services, owner'[n] = b
              PROVE  Remains(b, n)'
  BY DEF Withdrawing
<1>1. OthersStay(a) /\ NodeStep(a, n)
  BY StepEffect
<1>2. b # None
  BY LifecycleAssumption DEF None
<1>3. CASE b # a
  <2>1. owner[n] = b
    BY <1>1, <1>2, <1>3 DEF NodeStep
  <2>. QED BY <1>1, <1>3, <2>1 DEF OthersStay, Withdrawing, Remains
<1>4. CASE b = a /\ owner[n] = a
  BY <1>4, RemainsStep DEF Withdrawing
<1>5. CASE b = a /\ owner[n] # a
  <2>1. pc'[a] \in {"check", "listen", "ready"}
    BY <1>1, <1>2, <1>5 DEF NodeStep
  <2>. QED BY <1>5, <2>1 DEF Remains, Draining
<1>. QED BY <1>3, <1>4, <1>5

LEMMA WithdrawingInductive ==
  /\ Init => Withdrawing
  /\ TypeOK /\ Looping /\ MemberInv /\ Withdrawing /\ [Next]_vars => Withdrawing'
<1>1. Init => Withdrawing
  BY LifecycleAssumption DEF Init, Withdrawing, None
<1>2. ASSUME Withdrawing, UNCHANGED vars PROVE Withdrawing'
  BY <1>2 DEF vars, zookeeper, main, history, Withdrawing, Remains
<1>. QED BY <1>1, <1>2, WithdrawingStep, NextIsStep DEF MemberInv

\* From the end of registry.Destroy on a server announces a service only if
\* both failed, the deletion of its node and Close, and its session has not
\* been timed out since: whatever failed before and other processes do.
THEOREM WithdrawnBeforeDrain == Spec => []ShutdownIsUnannounced
<1>1. TypeOK /\ Withdrawing => ShutdownIsUnannounced
  BY DEF TypeOK, Withdrawing, Remains, Draining, ShutdownIsUnannounced
<1>. QED BY TypeInductive, MemberInductive, WithdrawingInductive, <1>1, PTL DEF Spec

=============================================================================
