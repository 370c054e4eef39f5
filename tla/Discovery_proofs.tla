--------------------------- MODULE Discovery_proofs ---------------------------
(***************************************************************************)
(* Servers and a client together implement what each of them does alone,   *)
(* so that what is proved of Lifecycle and of ZkClient holds of any number *)
(* of servers and a client that watches them.                              *)
(***************************************************************************)
EXTENDS Discovery, Lifecycle_proofs

\* The client takes no step of a server, and a server's step is one of its own.
THEOREM ServersAsAlone == DiscoverySpec => Spec
<1>1. [DiscoveryNext]_<<vars, client>> => [Next]_vars
  BY DEF DiscoveryNext, ServerStep, ServerMain, ClientStep, Next
<1>. QED BY <1>1, PTL DEF DiscoverySpec, Spec

\* What the servers do to the nodes of the watched service is what ZkClient lets
\* ZooKeeper do by itself, or nothing.
LEMMA ClientStepMapped ==
  [DiscoveryNext]_<<vars, client>> => [Z!Next]_Z!vars
<1>. SUFFICES ASSUME [DiscoveryNext]_<<vars, client>> PROVE [Z!Next]_Z!vars
  OBVIOUS
<1>1. ASSUME UNCHANGED client, Exists' = Exists, Published' = Published PROVE UNCHANGED Z!vars
  BY <1>1 DEF client, Node2Data, Z!vars, Z!zookeeper, Z!threads, Z!history
<1>2. CASE UNCHANGED <<vars, client>>
  <2>1. Exists' = Exists /\ Published' = Published
    BY <1>2 DEF vars, zookeeper, Exists, Published, Members
  <2>. QED BY <1>1, <1>2, <2>1
<1>3. CASE Z!New \/ Z!Listen
  BY <1>3 DEF Z!Next
<1>4. CASE Notify
  <2>1. CASE \E h \in Published' \ Published : Z!Register(h)
    BY <2>1 DEF Published, Members, Z!Next
  <2>2. CASE \E h \in Published \ Published' : Z!Unregister(h)
    BY <2>2 DEF Published, Members, Z!Next
  <2>3. CASE Z!MakeService
    BY <2>3 DEF Z!Next
  <2>. QED BY <1>1, <1>4, <2>1, <2>2, <2>3 DEF Notify
<1>. QED BY <1>2, <1>3, <1>4 DEF DiscoveryNext, ServerStep, ServerMain, ClientStep

\* The client finds in ZooKeeper what ZkClient allows, whatever its servers do:
\* the composition implements ZkClient.
THEOREM ClientAsAlone == DiscoverySpec => Z!Spec
<1>1. Init /\ ClientInit => Z!Init
  <2>. SUFFICES ASSUME Init, ClientInit PROVE Z!Init
    OBVIOUS
  <2>1. Exists \in BOOLEAN
    BY DEF Exists
  <2>3. Published = {}
    <3>1. \A h \in Addresses : owner[<<h, Watched>>] = None
      BY DiscoveryAssumption DEF Init
    <3>. QED BY <3>1 DEF Published, Members
  <2>2. Node2Data = [h \in Addresses |-> "absent"]
    BY <2>3 DEF Node2Data
  <2>4. Node2Data \in [Addresses -> IF Exists THEN {"normal"} \cup {"absent"} ELSE {"absent"}]
    BY <2>2
  <2>. QED BY <2>1, <2>4 DEF ClientInit, Z!Init
<1>. QED BY <1>1, ClientStepMapped, PTL DEF DiscoverySpec, Z!Spec

\* Whatever a client does, the servers it looks for are published as long as they
\* are ready, and withdrawn before they stop, unless the deletions and Close fail.
COROLLARY FoundServersBehave ==
  DiscoverySpec => [](RegisteredWhileReady /\ ShutdownIsUnannounced)
BY ServersAsAlone, ReadyIsRegistered, WithdrawnBeforeDrain, PTL

-----------------------------------------------------------------------------
(***************************************************************************)
(* The theorems of ZkClient, for the client of the composition             *)
(***************************************************************************)
C == INSTANCE ZkClient_proofs WITH
  Hosts <- Addresses, Data <- {"normal"}, Faults <- {}, SessionPath <- FALSE,
  MaxChanges <- 0, changes <- 0, exists <- Exists, node <- Node2Data,
  pc <- clientPc, todo <- clientTodo, services <- pulled, lost <- clientLost

LEMMA ClientConstantsHold == C!ClientConstants
BY DiscoveryAssumption DEF C!ClientConstants, C!IsFiniteSet, IsFiniteSet

LEMMA SameCardinality == \A S : Z!Cardinality(S) = C!Cardinality(S)
BY DEF Z!Cardinality, C!Cardinality

\* Two instances of one module with the same substitution say the same.
LEMMA SameClient == Z!Spec => C!Spec
<1>1. Z!MakeService <=> C!MakeService
  BY DEF Z!MakeService, C!MakeService, Z!zookeeper, C!zookeeper, Z!threads, C!threads,
         Z!history, C!history
<1>2. Z!Expire <=> C!Expire
  BY DEF Z!Expire, C!Expire, Z!CountChange, C!CountChange, Z!Expired, C!Expired, Z!threads,
         C!threads
<1>3. Z!NewChildrenW <=> C!NewChildrenW
  BY DEF Z!NewChildrenW, C!NewChildrenW, Z!ReadAndArm, C!ReadAndArm, Z!Children, C!Children
<1>4. Z!NewStore <=> C!NewStore
  BY DEF Z!NewStore, C!NewStore, Z!Store, C!Store, Z!Nothing, C!Nothing, Z!Uri, C!Uri,
         Z!zookeeper, C!zookeeper, Z!history, C!history
<1>5. Z!TakeEvent <=> C!TakeEvent
  BY DEF Z!TakeEvent, C!TakeEvent, Z!Path, C!Path, Z!Uri, C!Uri, Z!history, C!history
<1>6. Z!OnChildrenW <=> C!OnChildrenW
  BY DEF Z!OnChildrenW, C!OnChildrenW, Z!ReadAndArm, C!ReadAndArm, Z!Children, C!Children,
         Z!Uri, C!Uri
<1>7. Z!OnDeleted <=> C!OnDeleted
  BY DEF Z!OnDeleted, C!OnDeleted, Z!history, C!history
<1>8. Z!OnSessionExpired <=> C!OnSessionExpired
  BY DEF Z!OnSessionExpired, C!OnSessionExpired, Z!Expired, C!Expired, Z!history, C!history
<1>9. Z!ListenStore <=> C!ListenStore
  BY DEF Z!ListenStore, C!ListenStore, Z!Store, C!Store, Z!Nothing, C!Nothing, Z!zookeeper,
         C!zookeeper, Z!history, C!history
<1>10. \A h \in Addresses : Z!Register(h) <=> C!Register(h)
  BY DEF Z!Register, C!Register, Z!Change, C!Change, Z!CountChange, C!CountChange,
         Z!Deliver, C!Deliver, Z!Fires, C!Fires, Z!ChildEvent, C!ChildEvent, Z!Uri, C!Uri,
         Z!threads, C!threads
<1>11. \A h \in Addresses : Z!Unregister(h) <=> C!Unregister(h)
  BY DEF Z!Unregister, C!Unregister, Z!Change, C!Change, Z!CountChange, C!CountChange,
         Z!Deliver, C!Deliver, Z!Fires, C!Fires, Z!ChildEvent, C!ChildEvent, Z!Uri, C!Uri,
         Z!threads, C!threads
<1>12. \A t \in {"new", "listen"} : Z!GetW(t) <=> C!GetW(t)
  BY DEF Z!GetW, C!GetW, Z!Children, C!Children, Z!Meta, C!Meta, Z!history, C!history
<1>13. Z!NodeChange <=> C!NodeChange
  BY SameCardinality DEF Z!NodeChange, C!NodeChange, Z!Unchanged, C!Unchanged, Z!Last, C!Last, Z!Uri, C!Uri,
         Z!zookeeper, C!zookeeper
<1>14. (UNCHANGED Z!vars) <=> (UNCHANGED C!vars)
  BY DEF Z!vars, C!vars, Z!zookeeper, C!zookeeper, Z!threads, C!threads, Z!history,
         C!history
<1>15. [Z!Next]_Z!vars => [C!Next]_C!vars
  BY <1>1, <1>2, <1>3, <1>4, <1>5, <1>6, <1>7, <1>8, <1>9, <1>10, <1>11, <1>12, <1>13, <1>14
  DEF Z!Next, C!Next, Z!New, C!New, Z!Listen, C!Listen
<1>16. Z!Init => C!Init
  BY DEF Z!Init, C!Init, Z!Thread, C!Thread, Z!Nothing, C!Nothing, Z!ChildEvent,
         C!ChildEvent, Z!Uri, C!Uri
<1>. QED BY <1>15, <1>16, PTL DEF Z!Spec, C!Spec

\* The variables of the servers and of the client keep their types.
THEOREM DiscoveryTypeCorrect == DiscoverySpec => []DiscoveryTypeOK
<1>1. C!TypeOK => Z!TypeOK
  BY DEF Z!TypeOK, C!TypeOK, Z!Event, C!Event, Z!ChildEvent, C!ChildEvent, Z!Expired, C!Expired,
         Z!Uri, C!Uri, Z!Path, C!Path, Z!Thread, C!Thread, Z!Metas, C!Metas, Z!Meta, C!Meta
<1>2. DiscoverySpec => []C!TypeOK
  BY ClientAsAlone, SameClient, ClientConstantsHold, C!TypeCorrect, PTL
<1>. QED BY <1>1, <1>2, ServersAsAlone, TypeCorrect, PTL DEF DiscoveryTypeOK

-----------------------------------------------------------------------------
(***************************************************************************)
(* What a client finds                                                     *)
(***************************************************************************)
LEMMA ChildrenArePublished == C!Children = Published /\ C!Uri = Z!Uri
BY DEF C!Children, Node2Data, Published, Members, C!Uri, Z!Uri

\* However many servers there are, a client with nothing left to handle offers as
\* many addresses as are published, and the right last one.
THEOREM ClientFindsAsMany ==
  DiscoverySpec => [](Z!Quiet /\ Connected => Z!SameShape(Found, Published))
<1>1. C!QuietCacheAgrees => (Z!Quiet /\ Connected => Z!SameShape(Found, Published))
  <2>. SUFFICES ASSUME C!QuietCacheAgrees, Z!Quiet, Connected
                PROVE  Z!SameShape(Found, Published)
    OBVIOUS
  <2>1. C!CacheAgrees
    BY DEF C!QuietCacheAgrees, C!Quiet, Z!Quiet, Connected
  <2>2. Found = DOMAIN uri2Services[C!Uri] /\ C!SameShape(Found, Published)
    BY <2>1, ChildrenArePublished DEF C!CacheAgrees, Found
  <2>. QED BY <2>2, SameCardinality DEF Z!SameShape, C!SameShape, Z!Last, C!Last
<1>2. DiscoverySpec => []C!QuietCacheAgrees
  BY ClientAsAlone, SameClient, ClientConstantsHold, C!CacheCorrect, PTL
<1>. QED BY <1>1, <1>2, PTL

\* A server that is ready has its address published, and a published address is
\* that of a process that has been started and has not withdrawn, or that failed
\* to delete its node and to close its session.
Announces(b) ==
  /\ pc[b] # "off"
  /\ pc[b] \in {"drain", "stop", "shutdown", "done"} => unclosed[b] /\ Watched \in undeleted[b]

LEMMA PublishedAreAlive ==
  ASSUME TypeOK, RegisteredWhileReady, Withdrawing, OwnNodes
  PROVE  /\ \A a \in Apps : pc[a] = "ready" /\ ~lost[a] => address[a] \in Published
         /\ \A h \in Published : \E b \in Apps : address[b] = h /\ Announces(b)
<1>0. Watched \in Services /\ \A a \in Apps : a # None
  BY DiscoveryAssumption, LifecycleAssumption DEF None
<1>1. ASSUME NEW a \in Apps, pc[a] = "ready" /\ ~lost[a] PROVE address[a] \in Published
  BY <1>0, <1>1 DEF RegisteredWhileReady, Published, Members, Node, TypeOK
<1>2. ASSUME NEW h \in Published
      PROVE  \E b \in Apps : address[b] = h /\ Announces(b)
  <2>1. h \in Addresses /\ owner[<<h, Watched>>] # None
    BY <1>2 DEF Published, Members
  <2>2. <<h, Watched>> \in Addresses \X Services
    BY <1>0, <2>1
  <2>3. owner[<<h, Watched>>] \in Apps
    BY <2>1, <2>2 DEF TypeOK
  <2>4. address[owner[<<h, Watched>>]] = h
    BY <2>1, <2>2 DEF OwnNodes
  <2>5. Remains(owner[<<h, Watched>>], <<h, Watched>>)
    BY <2>2, <2>3 DEF Withdrawing
  <2>. QED BY <2>3, <2>4, <2>5 DEF Remains, Draining, Announces
<1>. QED BY <1>1, <1>2

(***************************************************************************)
(* On one address or two, with any number of processes that start, crash,  *)
(* lose their sessions and stop on them, a client with nothing left to     *)
(* handle offers exactly the published addresses: each server that is      *)
(* ready, and none that has begun to drain unless its deletion and Close   *)
(* both failed.  (From three addresses on it may offer others: the run     *)
(* zk_exact.)                                                              *)
(***************************************************************************)
THEOREM FoundCorrect ==
  Cardinality(Addresses) <= 2 => (DiscoverySpec => []FoundArePublished)
<1>. SUFFICES ASSUME Cardinality(Addresses) <= 2 PROVE DiscoverySpec => []FoundArePublished
  OBVIOUS
<1>1. \A S, T \in SUBSET Addresses : C!SameShape(S, T) => S = T
  <2>1. C!Cardinality(Addresses) <= 2
    BY DEF Cardinality, C!Cardinality
  <2>. QED BY <2>1, ClientConstantsHold, C!SameShapeIsSame
<1>2. ASSUME DiscoveryTypeOK, RegisteredWhileReady, Withdrawing, OwnNodes,
             Z!Quiet /\ Connected => Z!SameShape(Found, Published)
      PROVE  FoundArePublished
  <2>. SUFFICES ASSUME Z!Quiet, Connected PROVE FoundArePublished
    BY DEF FoundArePublished
  <2>1. Published \in SUBSET Addresses /\ Found \in SUBSET Addresses
    BY <1>2 DEF Published, Members, Found, DiscoveryTypeOK, Z!TypeOK, Z!Metas
  <2>2. C!SameShape(Found, Published)
    BY <1>2, SameCardinality DEF Z!SameShape, C!SameShape, Z!Last, C!Last
  <2>3. Found = Published
    BY <1>1, <2>1, <2>2
  <2>. QED BY <1>2, <2>3, PublishedAreAlive DEF FoundArePublished, DiscoveryTypeOK, Announces
<1>3. DiscoverySpec => [](RegisteredWhileReady /\ Withdrawing /\ OwnNodes)
  <2>1. Spec => []Withdrawing
    BY TypeInductive, MemberInductive, WithdrawingInductive, PTL DEF Spec
  <2>2. Spec => []OwnNodes
    <3>1. MemberInv => OwnNodes
      BY DEF MemberInv
    <3>. QED BY <3>1, TypeInductive, MemberInductive, PTL DEF Spec
  <2>. QED BY <2>1, <2>2, ServersAsAlone, ReadyIsRegistered, PTL
<1>. QED BY <1>2, <1>3, DiscoveryTypeCorrect, ClientFindsAsMany, PTL
=============================================================================
