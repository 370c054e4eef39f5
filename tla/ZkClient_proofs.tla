--------------------------- MODULE ZkClient_proofs ---------------------------
(***************************************************************************)
(* Proofs about ZkClient, for every set of hosts, every kind of fault and  *)
(* every capacity of the event channel.                                    *)
(***************************************************************************)
EXTENDS ZkClient, FiniteSetTheorems, TLAPS

LEMMA HostsAndCapacity ==
  /\ Hosts \subseteq Nat \ {0} /\ IsFiniteSet(Hosts)
  /\ Data \subseteq {"old", "normal", "pre"}
  /\ EventCap \in Nat \ {0}
  BY ClientAssumption DEF ClientConstants

LEMMA NothingIsMetas == Nothing \in Metas
<1>1. Nothing \in [{} -> Meta]
  BY DEF Nothing
<1>. QED BY <1>1 DEF Metas

\* The events ZooKeeper sends for a change of h, as the channel takes them.
LEMMA FiresType ==
  ASSUME NEW h \in Hosts, NEW type \in {"created", "deleted"}
  PROVE  Fires(h, type) \in Seq(Event)
<1>1. [path |-> h, type |-> type] \in Event /\ ChildEvent \in Event
  BY DEF Event
<1>2. <<[path |-> h, type |-> type]>> \in Seq(Event) /\ <<ChildEvent>> \in Seq(Event)
      /\ <<>> \in Seq(Event)
  BY <1>1
<1>. DEFINE a == IF h \in hostWatch THEN <<[path |-> h, type |-> type]>> ELSE <<>>
            b == IF armed THEN <<ChildEvent>> ELSE <<>>
<1>3. a \in Seq(Event) /\ b \in Seq(Event)
  BY <1>2
<1>4. a \o b \in Seq(Event)
  BY <1>3
<1>. QED BY <1>4 DEF Fires

LEMMA DeliverType ==
  ASSUME NEW all \in Seq(Event), Deliver(all)
  PROVE  events' \in Seq(Event)
<1>1. CASE Len(all) <= EventCap
  BY <1>1, HostsAndCapacity DEF Deliver
<1>2. CASE Len(all) > EventCap
  <2>1. EventCap \in 1..Len(all)
    BY <1>2, HostsAndCapacity
  <2>2. SubSeq(all, 1, EventCap) \in Seq(Event)
    BY <2>1
  <2>. QED BY <1>2, <2>2, HostsAndCapacity DEF Deliver
<1>. QED BY <1>1, <1>2, HostsAndCapacity

-----------------------------------------------------------------------------
(***************************************************************************)
(* Type correctness.  NodeChange never runs for an expired session.        *)
(***************************************************************************)
HandlesNodes == pc["listen"] \in {"compare", "pull"} => event # Expired

LEMMA TypeInductive ==
  /\ Init => TypeOK /\ HandlesNodes
  /\ TypeOK /\ HandlesNodes /\ [Next]_vars => TypeOK' /\ HandlesNodes'
<1>. USE HostsAndCapacity
<1>1. Init => TypeOK /\ HandlesNodes
  <2>. SUFFICES ASSUME Init PROVE TypeOK /\ HandlesNodes
    OBVIOUS
  <2>1. node \in [Hosts -> Data \cup {"absent"}]
    BY DEF Init
  <2>2. events \in Seq(Event) /\ event \in Event
    BY DEF Init, Event
  <2>3. services \in [Thread -> Metas] /\ uri2Services \in [DOMAIN uri2Services -> Metas]
    BY NothingIsMetas DEF Init
  <2>4. reached \in BOOLEAN /\ lost \in BOOLEAN /\ overlapped \in BOOLEAN /\ armed \in BOOLEAN
    BY DEF Init
  <2>. QED BY <2>1, <2>2, <2>3, <2>4 DEF Init, TypeOK, Thread, HandlesNodes
<1>2. ASSUME TypeOK, HandlesNodes, [Next]_vars
      PROVE  TypeOK' /\ HandlesNodes'
  <2>. USE <1>2 DEF TypeOK, threads, history, zookeeper, Thread, HandlesNodes
  <2>1. ASSUME NEW h \in Hosts, Register(h)
        PROVE  TypeOK' /\ HandlesNodes'
    <3>1. PICK data \in Data : Change(h, data, "created")
      BY <2>1 DEF Register
    <3>2. events \o Fires(h, "created") \in Seq(Event)
      BY FiresType
    <3>3. events' \in Seq(Event)
      BY <3>1, <3>2, DeliverType DEF Change
    <3>4. lost' \in BOOLEAN /\ armed' \in BOOLEAN /\ exists' \in BOOLEAN
      BY <2>1, <3>1 DEF Change, Deliver, Register
    <3>5. node' \in [Hosts -> Data \cup {"absent"}]
      BY <3>1 DEF Change
    <3>. QED BY <3>1, <3>3, <3>4, <3>5 DEF Change, CountChange
  <2>2. ASSUME NEW h \in Hosts, Unregister(h)
        PROVE  TypeOK' /\ HandlesNodes'
    <3>2. events \o Fires(h, "deleted") \in Seq(Event)
      BY FiresType
    <3>3. events' \in Seq(Event)
      BY <2>2, <3>2, DeliverType DEF Change, Unregister
    <3>4. lost' \in BOOLEAN /\ armed' \in BOOLEAN
      BY <2>2 DEF Change, Deliver, Unregister
    <3>5. node' \in [Hosts -> Data \cup {"absent"}]
      BY <2>2 DEF Change, Unregister
    <3>. QED BY <2>2, <3>3, <3>4, <3>5 DEF Change, CountChange, Unregister
  <2>3. ASSUME Expire
        PROVE  TypeOK' /\ HandlesNodes'
    <3>1. Expired \in Event
      BY DEF Event
    <3>2. events' \in Seq(Event)
      BY <2>3, <3>1 DEF Expire
    <3>3. lost' \in BOOLEAN /\ armed' \in BOOLEAN
      BY <2>3 DEF Expire
    <3>. QED BY <2>3, <3>2, <3>3 DEF Expire, CountChange
  <2>4. ASSUME NewChildrenW
        PROVE  TypeOK' /\ HandlesNodes'
    <3>1. Children \in SUBSET Hosts
      BY DEF Children
    <3>2. armed' \in BOOLEAN /\ reached' \in BOOLEAN
      BY <2>4 DEF NewChildrenW, ReadAndArm
    <3>. QED BY <2>4, <3>1, <3>2 DEF NewChildrenW, ReadAndArm
  <2>5. ASSUME NEW t \in Thread, GetW(t)
        PROVE  TypeOK' /\ HandlesNodes'
    <3>1. PICK h \in todo[t] :
            /\ todo' = [todo EXCEPT ![t] = @ \ {h}]
            /\ \E meta \in Meta :
                 /\ hostWatch' = hostWatch \/ hostWatch' = hostWatch \cup {h}
                 /\ services' = [services EXCEPT ![t] =
                                   [g \in DOMAIN @ \cup {h} |-> IF g = h THEN meta ELSE @[g]]]
      <4>. HIDE DEF TypeOK
      <4>. QED BY <2>5 DEF GetW
    <3>2. PICK meta \in Meta :
            services' = [services EXCEPT ![t] =
                           [g \in DOMAIN @ \cup {h} |-> IF g = h THEN meta ELSE @[g]]]
      BY <3>1
    <3>3. h \in Hosts /\ services[t] \in Metas
      OBVIOUS
    <3>. DEFINE more == [g \in DOMAIN services[t] \cup {h} |-> IF g = h THEN meta ELSE services[t][g]]
    <3>4. PICK S \in SUBSET Hosts : services[t] \in [S -> Meta]
      BY <3>3 DEF Metas
    <3>5. more \in [S \cup {h} -> Meta]
      BY <3>4
    <3>6. services' = [services EXCEPT ![t] = more]
      BY <3>2
    <3>. HIDE DEF more
    <3>7. more \in Metas
      <4>1. S \cup {h} \in SUBSET Hosts
        BY <3>3
      <4>. QED BY <3>5, <4>1 DEF Metas
    <3>8. services' \in [Thread -> Metas]
      BY <3>6, <3>7
    <3>9. todo' \in [Thread -> SUBSET Hosts] /\ hostWatch' \in SUBSET Hosts
      BY <3>1, <3>3
    <3>. QED BY <2>5, <3>8, <3>9 DEF GetW
  <2>6. ASSUME NEW t \in Thread, NEW uri \in Path, NEW next \in {"done", "idle"}, Store(t, uri, next)
        PROVE  TypeOK' /\ HandlesNodes'
    <3>1. services' \in [Thread -> Metas]
      BY <2>6, NothingIsMetas DEF Store
    <3>2. /\ DOMAIN uri2Services' \subseteq Path
          /\ uri2Services' \in [DOMAIN uri2Services' -> Metas]
      BY <2>6 DEF Store
    <3>. QED BY <2>6, <3>1, <3>2 DEF Store
  <2>7. ASSUME TakeEvent
        PROVE  TypeOK' /\ HandlesNodes'
    <3>1. Head(events) \in Event /\ Tail(events) \in Seq(Event)
      BY <2>7 DEF TakeEvent
    <3>. QED BY <2>7, <3>1 DEF TakeEvent
  <2>8. ASSUME OnChildrenW
        PROVE  TypeOK' /\ HandlesNodes'
    <3>1. lost' \in BOOLEAN /\ armed' \in BOOLEAN
      BY <2>8 DEF OnChildrenW, ReadAndArm
    <3>2. Children \in SUBSET Hosts
      BY DEF Children
    <3>3. event # Expired
      BY <2>8 DEF OnChildrenW, Expired
    <3>. QED BY <2>8, <3>1, <3>2, <3>3 DEF OnChildrenW, ReadAndArm
  <2>9. ASSUME OnDeleted
        PROVE  TypeOK' /\ HandlesNodes'
    <3>1. event.path \in Hosts
      BY <2>9 DEF OnDeleted, Event, ChildEvent, Expired
    <3>2. event # Expired
      BY <2>9 DEF OnDeleted, Expired
    <3>. QED BY <2>9, <3>1, <3>2 DEF OnDeleted
  <2>10. ASSUME OnSessionExpired
         PROVE  TypeOK' /\ HandlesNodes'
    BY <2>10 DEF OnSessionExpired
  <2>11. ASSUME NodeChange
         PROVE  TypeOK' /\ HandlesNodes'
    <3>1. overlapped' \in BOOLEAN
      BY <2>11 DEF NodeChange
    <3>. QED BY <2>11, <3>1 DEF NodeChange
  <2>12. CASE ListenStore
    <3>1. event.path \in Path
      BY <2>12 DEF ListenStore, Store, Event, ChildEvent, Path
    <3>. QED BY <2>6, <2>12, <3>1 DEF ListenStore
  <2>13. CASE NewStore
    BY <2>6, <2>13 DEF NewStore, Path
  <2>14. ASSUME MakeService
         PROVE  TypeOK' /\ HandlesNodes'
    BY <2>14 DEF MakeService
  <2>15. CASE UNCHANGED vars
    BY <2>15 DEF vars
  <2>. QED
    BY <2>1, <2>2, <2>3, <2>4, <2>5, <2>7, <2>8, <2>9, <2>10, <2>11, <2>12, <2>13, <2>14, <2>15
    DEF Next, New, Listen
<1>. QED BY <1>1, <1>2

(***************************************************************************)
(* The variables of the client keep their types, and NodeChange is only    *)
(* ever called for nodes.                                                  *)
(***************************************************************************)
THEOREM TypeCorrect == Spec => [](TypeOK /\ HandlesNodes)
  BY TypeInductive, PTL DEF Spec

-----------------------------------------------------------------------------
(***************************************************************************)
(* The inductive invariant behind NothingMissed.  While the watch is armed *)
(* the client has read the current hosts, because ChildrenW reads and arms *)
(* at once; when it has fired, its event is still to be handled.  A        *)
(* session event, the only one that arms without reading, comes from a     *)
(* fault.                                                                  *)
(***************************************************************************)
WatchInv ==
  ~lost =>
    /\ reached /\ armed => seen = Children
    /\ reached /\ ~armed => WillReread
    /\ \A i \in 1..Len(events) : events[i] # Expired
    /\ pc["listen"] = "taken" => event # Expired

LEMMA FiresChild ==
  ASSUME NEW h \in Hosts, NEW type \in {"created", "deleted"}
  PROVE  /\ armed => \E i \in 1..Len(Fires(h, type)) : Fires(h, type)[i] = ChildEvent
         /\ \A i \in 1..Len(Fires(h, type)) : Fires(h, type)[i] # Expired
<1>. DEFINE e == [path |-> h, type |-> type]
<1>1. e # Expired /\ ChildEvent # Expired
  BY DEF Expired, ChildEvent, Uri
<1>2. CASE h \in hostWatch /\ armed
  <2>1. Fires(h, type) = <<e>> \o <<ChildEvent>>
    BY <1>2 DEF Fires
  <2>. HIDE DEF e
  <2>2. <<e>> \in Seq({e, ChildEvent}) /\ <<ChildEvent>> \in Seq({e, ChildEvent})
    OBVIOUS
  <2>3. /\ Len(<<e>> \o <<ChildEvent>>) = 2
        /\ (<<e>> \o <<ChildEvent>>)[1] = e
        /\ (<<e>> \o <<ChildEvent>>)[2] = ChildEvent
    BY <2>2
  <2>. QED BY <1>1, <1>2, <2>1, <2>3
<1>3. CASE h \notin hostWatch /\ armed
  <2>1. Fires(h, type) = <<ChildEvent>>
    BY <1>3 DEF Fires
  <2>. QED BY <1>1, <1>3, <2>1
<1>4. CASE h \in hostWatch /\ ~armed
  <2>1. Fires(h, type) = <<e>>
    BY <1>4 DEF Fires
  <2>. QED BY <1>1, <1>4, <2>1
<1>5. CASE h \notin hostWatch /\ ~armed
  <2>1. Fires(h, type) = <<>>
    BY <1>5 DEF Fires
  <2>. QED BY <1>5, <2>1
<1>. QED BY <1>2, <1>3, <1>4, <1>5

LEMMA ChangeWatched ==
  ASSUME TypeOK, WatchInv, NEW h \in Hosts, NEW data, NEW type \in {"created", "deleted"},
         Change(h, data, type)
  PROVE  WatchInv'
<1>. DEFINE fires == Fires(h, type)
<1>. SUFFICES ASSUME ~lost'
              PROVE  /\ reached' => WillReread'
                     /\ \A i \in 1..Len(events') : events'[i] # Expired
                     /\ pc'["listen"] = "taken" => event' # Expired
  BY DEF WatchInv, Change
<1>1. ~lost /\ events' = events \o fires /\ UNCHANGED <<pc, event, reached>>
  BY DEF Change, Deliver, threads, TypeOK
<1>2. events \in Seq(Event) /\ fires \in Seq(Event)
  BY FiresType DEF TypeOK
<1>3. /\ armed => \E i \in 1..Len(fires) : fires[i] = ChildEvent
      /\ \A i \in 1..Len(fires) : fires[i] # Expired
  BY FiresChild
<1>. HIDE DEF fires
<1>4. /\ Len(events') = Len(events) + Len(fires)
      /\ \A i \in 1..Len(events) : events'[i] = events[i]
      /\ \A i \in 1..Len(fires) : events'[Len(events) + i] = fires[i]
      /\ \A i \in Len(events) + 1 .. Len(events) + Len(fires) : events'[i] = fires[i - Len(events)]
  BY <1>1, <1>2
<1>5. \A i \in 1..Len(events') : events'[i] # Expired
  <2>1. SUFFICES ASSUME NEW i \in 1..Len(events') PROVE events'[i] # Expired
    OBVIOUS
  <2>2. CASE i <= Len(events)
    BY <1>1, <1>2, <1>4, <2>2 DEF WatchInv
  <2>3. CASE i > Len(events)
    <3>1. i - Len(events) \in 1..Len(fires) /\ events'[i] = fires[i - Len(events)]
      BY <1>2, <1>4, <2>3
    <3>. QED BY <1>3, <3>1
  <2>. QED BY <1>2, <2>2, <2>3
<1>6. reached' => WillReread'
  <2>. SUFFICES ASSUME reached PROVE WillReread'
    BY <1>1
  <2>1. CASE armed
    <3>1. PICK i \in 1..Len(fires) : fires[i] = ChildEvent
      BY <1>3, <2>1
    <3>2. Len(events) + i \in 1..Len(events') /\ events'[Len(events) + i] = ChildEvent
      BY <1>2, <1>4, <3>1
    <3>. QED BY <3>2 DEF WillReread
  <2>2. CASE ~armed /\ \E i \in 1..Len(events) : events[i] = ChildEvent
    <3>1. PICK i \in 1..Len(events) : events[i] = ChildEvent
      BY <2>2
    <3>2. i \in 1..Len(events') /\ events'[i] = ChildEvent
      BY <1>2, <1>4, <3>1
    <3>. QED BY <3>2 DEF WillReread
  <2>3. CASE ~armed /\ pc["listen"] = "taken" /\ event = ChildEvent
    BY <1>1, <2>3 DEF WillReread
  <2>. QED BY <1>1, <2>1, <2>2, <2>3 DEF WatchInv, WillReread
<1>. QED BY <1>1, <1>5, <1>6 DEF WatchInv

LEMMA WatchInductive ==
  /\ Init => WatchInv
  /\ TypeOK /\ WatchInv /\ [Next]_vars => WatchInv'
<1>1. Init => WatchInv
  BY DEF Init, WatchInv, Thread
<1>2. ASSUME TypeOK, WatchInv, [Next]_vars
      PROVE  WatchInv'
  <2>. USE <1>2 DEF TypeOK, threads, history, zookeeper
  <2>0. ASSUME UNCHANGED <<node, armed, events, seen, reached, lost>>,
               pc'["listen"] = pc["listen"], event' = event
        PROVE  WatchInv'
    BY <2>0 DEF WatchInv, WillReread, Children
  <2>1. ASSUME NEW h \in Hosts, Register(h) \/ Unregister(h)
        PROVE  WatchInv'
    BY <2>1, ChangeWatched DEF Register, Unregister
  <2>2. CASE Expire
    BY <2>2 DEF Expire, WatchInv
  <2>3. CASE NewChildrenW
    <3>1. pc'["listen"] = pc["listen"]
      BY <2>3 DEF NewChildrenW, Thread
    <3>2. CASE ReadAndArm
      BY <2>3, <3>1, <3>2 DEF NewChildrenW, ReadAndArm, WatchInv, Children
    <3>3. CASE ~ReadAndArm
      BY <2>0, <2>3, <3>1, <3>3 DEF NewChildrenW
    <3>. QED BY <3>2, <3>3
  <2>4. CASE \E t \in Thread : GetW(t)
    BY <2>0, <2>4 DEF GetW
  <2>5. CASE NewStore
    BY <2>0, <2>5 DEF NewStore, Store, Thread
  <2>6. CASE ListenStore
    BY <2>6 DEF ListenStore, Store, Thread, WatchInv, WillReread, Children
  <2>7. CASE TakeEvent
    <3>1. /\ Len(events) >= 1 /\ Len(events') = Len(events) - 1
          /\ \A i \in 1..Len(events') : events'[i] = events[i + 1]
          /\ Head(events) = events[1]
      BY <2>7 DEF TakeEvent
    <3>2. UNCHANGED <<node, armed, seen, reached, lost>>
      BY <2>7 DEF TakeEvent
    <3>. SUFFICES ASSUME ~lost PROVE WatchInv'
      BY <3>2 DEF WatchInv
    <3>3. Head(events) # Expired /\ \A i \in 1..Len(events') : events'[i] # Expired
      BY <3>1 DEF WatchInv
    <3>4. Head(events).path \in Path
      BY <3>1, <3>3 DEF Event, ChildEvent, Path
    <3>5. pc' = [pc EXCEPT !["listen"] = "taken"] /\ event' = Head(events)
      BY <2>7, <3>4 DEF TakeEvent
    <3>6. WillReread => WillReread'
      <4>. SUFFICES ASSUME WillReread PROVE WillReread'
        OBVIOUS
      <4>1. pc["listen"] = "idle"
        BY <2>7 DEF TakeEvent
      <4>2. PICK i \in 1..Len(events) : events[i] = ChildEvent
        BY <4>1 DEF WillReread
      <4>3. CASE i = 1
        BY <3>1, <3>5, <4>2, <4>3 DEF WillReread, Thread
      <4>4. CASE i # 1
        <5>1. i - 1 \in 1..Len(events') /\ events'[i - 1] = events[(i - 1) + 1]
          BY <3>1, <4>4
        <5>2. events'[i - 1] = ChildEvent
          BY <4>2, <5>1
        <5>. QED BY <5>1, <5>2 DEF WillReread
      <4>. QED BY <4>3, <4>4
    <3>. QED BY <3>2, <3>3, <3>5, <3>6 DEF WatchInv, Children
  <2>8. CASE OnChildrenW
    <3>1. pc'["listen"] # "taken"
      BY <2>8 DEF OnChildrenW, Thread
    <3>2. CASE ReadAndArm
      <4>1. armed' = TRUE /\ seen' = Children'
        BY <2>8, <3>2 DEF OnChildrenW, ReadAndArm, Children
      <4>2. UNCHANGED <<events, reached>>
        BY <2>8 DEF OnChildrenW
      <4>3. lost => lost'
        BY <2>8 DEF OnChildrenW
      <4>. QED BY <3>1, <4>1, <4>2, <4>3 DEF WatchInv
    <3>3. CASE ~ReadAndArm
      <4>1. CASE lost'
        BY <4>1 DEF WatchInv
      <4>2. CASE ~lost'
        <5>1. ~lost /\ event.path # Uri /\ UNCHANGED <<armed, seen>>
          <6>1. 0 \notin Children
            BY HostsAndCapacity DEF Children
          <6>2. lost' = lost \/ lost' = (lost \/ event.path = Uri)
            BY <2>8, <3>3 DEF OnChildrenW
          <6>3. event.path \in Children \/ lost' = (lost \/ event.path = Uri)
            BY <2>8, <3>3 DEF OnChildrenW
          <6>4. UNCHANGED <<armed, seen>>
            BY <2>8, <3>3 DEF OnChildrenW
          <6>. QED BY <4>2, <6>1, <6>2, <6>3, <6>4 DEF Uri
        <5>2. event # ChildEvent
          BY <5>1 DEF ChildEvent
        <5>. QED BY <2>8, <3>1, <5>1, <5>2 DEF OnChildrenW, WatchInv, WillReread, Children
      <4>. QED BY <4>1, <4>2
    <3>. QED BY <3>2, <3>3
  <2>9. CASE OnDeleted
    <3>1. event # ChildEvent
      BY <2>9 DEF OnDeleted, ChildEvent
    <3>. QED BY <2>9, <3>1 DEF OnDeleted, Thread, WatchInv, WillReread, Children
  <2>10. CASE OnSessionExpired
    BY <2>10 DEF OnSessionExpired, WatchInv
  <2>11. CASE NodeChange
    BY <2>11 DEF NodeChange, Thread, WatchInv, WillReread, Children
  <2>12. CASE MakeService
    BY <2>0, <2>12 DEF MakeService
  <2>13. CASE UNCHANGED vars
    BY <2>13 DEF vars, WatchInv, WillReread, Children
  <2>. QED
    BY <2>1, <2>2, <2>3, <2>4, <2>5, <2>6, <2>7, <2>8, <2>9, <2>10, <2>11, <2>12, <2>13
    DEF Next, New, Listen, Thread
<1>. QED BY <1>1, <1>2

(***************************************************************************)
(* As long as no call fails, no session expires and no event is dropped,   *)
(* the client never misses a change of the service's hosts.                *)
(***************************************************************************)
THEOREM WatchCorrect == Spec => []NothingMissed
<1>1. WatchInv => NothingMissed
  BY DEF WatchInv, NothingMissed
<1>. QED BY <1>1, TypeInductive, WatchInductive, PTL DEF Spec

-----------------------------------------------------------------------------
(***************************************************************************)
(* The inductive invariant behind QuietCacheAgrees.  What the client last  *)
(* read is either in the listener's hands, or else in NewZkRegistry's, or  *)
(* else the cache has its shape: NodeChange skips the pull only then.      *)
(***************************************************************************)
Handling == pc["listen"] \in {"compare", "pull"} /\ event.path = Uri

Holds(t) == todo[t] \cup DOMAIN services[t]

\* Before NewZkRegistry has armed the first watch nothing is to be handled.
StartQuiet ==
  pc["new"] = "start" /\ ~lost =>
    /\ ~reached /\ ~armed /\ hostWatch = {} /\ events = <<>> /\ pc["listen"] = "idle"

NothingHeld ==
  /\ \A t \in Thread : pc[t] # "pull" => services[t] = Nothing
  /\ pc["new"] \in {"start", "pull", "done"}
  /\ pc["listen"] \in {"idle", "taken", "compare", "pull"}

PullsAlone == ~overlapped /\ Handling /\ pc["listen"] = "pull" => pc["new"] = "done"

SeenIsKept ==
  reached /\ ~lost /\ ~overlapped =>
    /\ Handling => Holds("listen") = seen
    /\ ~Handling /\ pc["new"] = "pull" => Holds("new") = seen
    /\ ~Handling /\ pc["new"] = "done" =>
         Uri \in DOMAIN uri2Services /\ SameShape(DOMAIN uri2Services[Uri], seen)

CacheInv == StartQuiet /\ NothingHeld /\ PullsAlone /\ SeenIsKept

LEMMA GetHolds ==
  ASSUME TypeOK, NEW t \in Thread, GetW(t)
  PROVE  /\ Holds(t)' = Holds(t)
         /\ \A u \in Thread \ {t} : todo'[u] = todo[u] /\ services'[u] = services[u]
<1>1. PICK h \in todo[t] :
        /\ todo' = [todo EXCEPT ![t] = @ \ {h}]
        /\ \E meta \in Meta :
             services' = [services EXCEPT ![t] =
                            [g \in DOMAIN @ \cup {h} |-> IF g = h THEN meta ELSE @[g]]]
  BY DEF GetW
<1>2. PICK meta \in Meta :
        services' = [services EXCEPT ![t] =
                       [g \in DOMAIN @ \cup {h} |-> IF g = h THEN meta ELSE @[g]]]
  BY <1>1
<1>3. todo'[t] = todo[t] \ {h} /\ DOMAIN services'[t] = DOMAIN services[t] \cup {h}
  BY <1>1, <1>2 DEF TypeOK
<1>4. Holds(t)' = Holds(t)
  BY <1>1, <1>3 DEF Holds
<1>. QED BY <1>1, <1>2, <1>4 DEF TypeOK

LEMMA NothingIsEmpty == DOMAIN Nothing = {}
BY DEF Nothing

\* What the registering of a host changes, if nothing is lost.
LEMMA ChangeKeepsCache ==
  ASSUME TypeOK, CacheInv, NEW h \in Hosts, NEW data, NEW type, Change(h, data, type)
  PROVE  CacheInv'
<1>1. UNCHANGED <<pc, event, todo, services, uri2Services, seen, reached, overlapped>>
      /\ (lost => lost')
  BY DEF Change, Deliver, threads
<1>2. StartQuiet'
  <2>. SUFFICES ASSUME pc["new"] = "start", ~lost'
                PROVE  ~reached /\ ~armed' /\ hostWatch' = {} /\ events' = <<>> /\ pc["listen"] = "idle"
    BY <1>1 DEF StartQuiet
  <2>1. ~reached /\ ~armed /\ hostWatch = {} /\ events = <<>> /\ pc["listen"] = "idle"
    BY <1>1 DEF CacheInv, StartQuiet
  <2>2. events \o Fires(h, type) = <<>>
    BY <2>1 DEF Fires
  <2>3. events' = <<>>
    BY <2>2 DEF Change, Deliver
  <2>. QED BY <2>1, <2>3 DEF Change
<1>. QED
  BY <1>1, <1>2 DEF CacheInv, NothingHeld, PullsAlone, SeenIsKept, Handling, Holds

LEMMA NewKeepsCache ==
  ASSUME TypeOK, CacheInv, New PROVE CacheInv'
<1>. USE DEF Thread
<1>1. CASE NewChildrenW
  <2>1. CASE ReadAndArm /\ reached' = TRUE /\ pc' = [pc EXCEPT !["new"] = "pull"]
             /\ todo' = [todo EXCEPT !["new"] = Children]
    <3>1. pc'["new"] = "pull" /\ pc'["listen"] = pc["listen"] /\ services' = services
          /\ todo'["new"] = Children /\ services["new"] = Nothing /\ seen' = Children
      BY <1>1, <2>1 DEF NewChildrenW, ReadAndArm, TypeOK, CacheInv, NothingHeld
    <3>2. ~lost => pc["listen"] = "idle"
      BY <1>1 DEF NewChildrenW, CacheInv, StartQuiet
    <3>3. Holds("new")' = seen'
      BY <3>1, NothingIsEmpty DEF Holds
    <3>4. UNCHANGED <<event, overlapped, lost>>
      BY <1>1 DEF NewChildrenW
    <3>5. StartQuiet' /\ NothingHeld'
      BY <3>1 DEF CacheInv, StartQuiet, NothingHeld
    <3>6. SeenIsKept'
      BY <3>1, <3>2, <3>3, <3>4 DEF SeenIsKept, Handling
    <3>7. PullsAlone'
      <4>. SUFFICES ASSUME Handling', pc["listen"] = "pull", ~overlapped PROVE FALSE
        BY <3>1, <3>4 DEF PullsAlone
      <4>. QED BY <1>1, <3>1, <3>4 DEF NewChildrenW, Handling, CacheInv, PullsAlone
    <3>. QED BY <3>5, <3>6, <3>7 DEF CacheInv
  <2>2. CASE pc' = [pc EXCEPT !["new"] = "done"] /\ UNCHANGED <<armed, seen, reached, todo>>
    <3>1. pc'["new"] = "done" /\ pc'["listen"] = pc["listen"]
      BY <2>2 DEF TypeOK
    <3>2. UNCHANGED <<services, event, overlapped, lost, uri2Services>>
      BY <1>1 DEF NewChildrenW
    <3>3. ~lost => ~reached
      BY <1>1 DEF NewChildrenW, CacheInv, StartQuiet
    <3>. QED
      BY <1>1, <2>2, <3>1, <3>2, <3>3
      DEF NewChildrenW, CacheInv, StartQuiet, NothingHeld, PullsAlone, SeenIsKept, Handling
  <2>. QED BY <1>1, <2>1, <2>2 DEF NewChildrenW
<1>2. CASE GetW("new")
  <2>1. UNCHANGED <<armed, events, pc, event, uri2Services, history>> /\ pc["new"] = "pull"
    BY <1>2 DEF GetW
  <2>2. Holds("new")' = Holds("new") /\ Holds("listen")' = Holds("listen")
        /\ services'["listen"] = services["listen"]
    BY <1>2, GetHolds DEF Holds
  <2>. QED
    BY <2>1, <2>2
    DEF history, CacheInv, StartQuiet, NothingHeld, PullsAlone, SeenIsKept, Handling
<1>3. CASE NewStore
  <2>1. /\ pc'["new"] = "done" /\ pc'["listen"] = pc["listen"]
        /\ services'["new"] = Nothing /\ services'["listen"] = services["listen"]
        /\ pc["new"] = "pull" /\ todo["new"] = {} /\ UNCHANGED <<event, todo, history>>
    BY <1>3 DEF NewStore, Store, TypeOK
  <2>2. Uri \in DOMAIN uri2Services' /\ uri2Services'[Uri] = services["new"]
    BY <1>3 DEF NewStore, Store
  <2>3. Holds("new") = seen => SameShape(DOMAIN uri2Services'[Uri], seen)
    BY <2>1, <2>2 DEF Holds, SameShape
  <2>. QED
    BY <2>1, <2>2, <2>3
    DEF history, CacheInv, StartQuiet, NothingHeld, PullsAlone, SeenIsKept, Handling, Holds
<1>. QED BY <1>1, <1>2, <1>3 DEF New

LEMMA ListenKeepsCache ==
  ASSUME TypeOK, CacheInv, Listen PROVE CacheInv'
<1>. USE DEF Thread
<1>1. CASE TakeEvent
  <2>1. /\ pc'["listen"] \in {"idle", "taken"} /\ pc["listen"] = "idle" /\ pc'["new"] = pc["new"]
        /\ events # <<>>
        /\ UNCHANGED <<todo, services, uri2Services, history>>
    BY <1>1 DEF TakeEvent, TypeOK
  <2>. QED
    BY <2>1 DEF history, CacheInv, StartQuiet, NothingHeld, PullsAlone, SeenIsKept, Handling, Holds
<1>2. CASE OnChildrenW
  <2>1. /\ pc["listen"] = "taken" /\ pc'["listen"] \in {"idle", "compare"}
        /\ pc'["new"] = pc["new"] /\ services["listen"] = Nothing
        /\ UNCHANGED <<event, services, uri2Services, reached, overlapped>> /\ (lost => lost')
    BY <1>2 DEF OnChildrenW, TypeOK, CacheInv, NothingHeld
  <2>2. StartQuiet' /\ NothingHeld' /\ PullsAlone'
    BY <2>1 DEF CacheInv, StartQuiet, NothingHeld, PullsAlone
  <2>3. CASE event.path = Uri /\ ReadAndArm /\ todo' = [todo EXCEPT !["listen"] = Children]
             /\ pc' = [pc EXCEPT !["listen"] = "compare"]
    <3>1. Handling' /\ Holds("listen")' = seen'
      BY <2>1, <2>3, NothingIsEmpty DEF ReadAndArm, Handling, Holds, TypeOK
    <3>. QED BY <2>2, <3>1 DEF CacheInv, SeenIsKept
  <2>4. CASE event.path # Uri /\ seen' = seen /\ todo'["new"] = todo["new"]
    BY <2>1, <2>2, <2>4 DEF CacheInv, SeenIsKept, Handling, Holds
  <2>5. CASE event.path = Uri /\ lost'
    BY <2>2, <2>5 DEF CacheInv, SeenIsKept
  <2>6. 0 \notin Children /\ Uri = 0 /\ 0 \notin Hosts
    BY HostsAndCapacity DEF Children, Uri
  <2>. QED BY <1>2, <2>3, <2>4, <2>5, <2>6 DEF OnChildrenW, TypeOK
<1>3. CASE OnDeleted
  <2>1. /\ pc["listen"] = "taken" /\ pc'["listen"] = "compare" /\ pc'["new"] = pc["new"]
        /\ todo'["new"] = todo["new"]
        /\ UNCHANGED <<event, services, uri2Services, history>>
    BY <1>3 DEF OnDeleted, TypeOK
  <2>2. event.path # Uri
    BY <1>3, HostsAndCapacity DEF OnDeleted, TypeOK, Event, ChildEvent, Expired, Uri
  <2>. QED
    BY <2>1, <2>2
    DEF history, CacheInv, StartQuiet, NothingHeld, PullsAlone, SeenIsKept, Handling, Holds
<1>4. CASE OnSessionExpired
  <2>1. /\ pc["listen"] = "taken" /\ pc'["listen"] = "idle" /\ pc'["new"] = pc["new"]
        /\ UNCHANGED <<event, todo, services, uri2Services, history>>
    BY <1>4 DEF OnSessionExpired, TypeOK
  <2>. QED
    BY <2>1 DEF history, CacheInv, StartQuiet, NothingHeld, PullsAlone, SeenIsKept, Handling, Holds
<1>5. CASE NodeChange
  <2>1. /\ pc["listen"] = "compare" /\ pc'["new"] = pc["new"]
        /\ UNCHANGED <<zookeeper, event, services, uri2Services, seen, reached, lost>>
        /\ overlapped' = (overlapped \/ (event.path = Uri /\ pc["new"] # "done"))
    BY <1>5 DEF NodeChange, TypeOK
  <2>2. services["listen"] = Nothing
    BY <2>1 DEF CacheInv, NothingHeld
  <2>3. CASE Unchanged(event.path, todo["listen"])
    <3>1. pc'["listen"] = "idle" /\ todo'["new"] = todo["new"]
      BY <1>5, <2>3 DEF NodeChange, TypeOK
    <3>2. CASE event.path = Uri
      <4>1. ~overlapped' => pc["new"] = "done" /\ ~overlapped
        BY <2>1, <3>2
      <4>2. Holds("listen") = todo["listen"]
        BY <2>2, NothingIsEmpty DEF Holds
      <4>3. reached /\ ~lost /\ ~overlapped => todo["listen"] = seen
        BY <2>1, <3>2, <4>2 DEF CacheInv, SeenIsKept, Handling
      <4>4. Uri \in DOMAIN uri2Services /\ SameShape(DOMAIN uri2Services[Uri], todo["listen"])
        BY <2>3, <3>2 DEF Unchanged, SameShape
      <4>. QED
        BY <2>1, <3>1, <4>1, <4>3, <4>4
        DEF CacheInv, StartQuiet, NothingHeld, PullsAlone, SeenIsKept, Handling
    <3>3. CASE event.path # Uri
      BY <2>1, <3>1, <3>3
      DEF CacheInv, StartQuiet, NothingHeld, PullsAlone, SeenIsKept, Handling, Holds
    <3>. QED BY <3>2, <3>3
  <2>4. CASE ~Unchanged(event.path, todo["listen"])
    <3>1. pc'["listen"] = "pull" /\ todo' = todo
      BY <1>5, <2>4 DEF NodeChange, TypeOK
    <3>. QED
      BY <2>1, <3>1
      DEF CacheInv, StartQuiet, NothingHeld, PullsAlone, SeenIsKept, Handling, Holds
  <2>. QED BY <2>3, <2>4
<1>6. CASE GetW("listen")
  <2>1. UNCHANGED <<armed, events, pc, event, uri2Services, history>> /\ pc["listen"] = "pull"
    BY <1>6 DEF GetW
  <2>2. Holds("new")' = Holds("new") /\ Holds("listen")' = Holds("listen")
        /\ services'["new"] = services["new"]
    BY <1>6, GetHolds DEF Holds
  <2>. QED
    BY <2>1, <2>2
    DEF history, CacheInv, StartQuiet, NothingHeld, PullsAlone, SeenIsKept, Handling
<1>7. CASE ListenStore
  <2>1. /\ pc'["listen"] = "idle" /\ pc'["new"] = pc["new"]
        /\ services'["listen"] = Nothing /\ services'["new"] = services["new"]
        /\ pc["listen"] = "pull" /\ todo["listen"] = {} /\ UNCHANGED <<event, todo, history>>
    BY <1>7 DEF ListenStore, Store, TypeOK
  <2>2. CASE event.path = Uri
    <3>1. Uri \in DOMAIN uri2Services' /\ uri2Services'[Uri] = services["listen"]
      BY <1>7, <2>2 DEF ListenStore, Store
    <3>2. Holds("listen") = seen => SameShape(DOMAIN uri2Services'[Uri], seen)
      BY <2>1, <3>1 DEF Holds, SameShape
    <3>. QED
      BY <2>1, <2>2, <3>1, <3>2
      DEF history, CacheInv, StartQuiet, NothingHeld, PullsAlone, SeenIsKept, Handling
  <2>3. CASE event.path # Uri
    <3>1. Uri \in DOMAIN uri2Services =>
            Uri \in DOMAIN uri2Services' /\ uri2Services'[Uri] = uri2Services[Uri]
      BY <1>7, <2>3 DEF ListenStore, Store
    <3>. QED
      BY <2>1, <2>3, <3>1
      DEF history, CacheInv, StartQuiet, NothingHeld, PullsAlone, SeenIsKept, Handling, Holds
  <2>. QED BY <2>2, <2>3
<1>. QED BY <1>1, <1>2, <1>3, <1>4, <1>5, <1>6, <1>7 DEF Listen

LEMMA CacheInductive ==
  /\ Init => CacheInv
  /\ TypeOK /\ CacheInv /\ [Next]_vars => CacheInv'
<1>1. Init => CacheInv
  BY DEF Init, Thread, CacheInv, StartQuiet, NothingHeld, PullsAlone, SeenIsKept, Handling
<1>2. ASSUME TypeOK, CacheInv, NEW h \in Hosts, Register(h) \/ Unregister(h) PROVE CacheInv'
  BY <1>2, ChangeKeepsCache DEF Register, Unregister
<1>3. ASSUME CacheInv, Expire PROVE CacheInv'
  BY <1>3 DEF Expire, threads, CacheInv, StartQuiet, NothingHeld, PullsAlone, SeenIsKept,
              Handling, Holds
<1>4. ASSUME CacheInv, MakeService \/ UNCHANGED vars PROVE CacheInv'
  <2>1. UNCHANGED <<armed, hostWatch, events, threads, uri2Services, history>>
    BY <1>4 DEF MakeService, vars, zookeeper
  <2>. QED
    BY <1>4, <2>1 DEF threads, history, CacheInv, StartQuiet, NothingHeld, PullsAlone,
                      SeenIsKept, Handling, Holds
<1>. QED BY <1>1, <1>2, <1>3, <1>4, NewKeepsCache, ListenKeepsCache DEF Next

(***************************************************************************)
(* Whatever servers do, once the events are handled GetService has as many *)
(* hosts as are registered and the right last one, unless a fault or an    *)
(* overlap with NewZkRegistry intervened: any hosts, any channel capacity. *)
(***************************************************************************)
THEOREM CacheCorrect == Spec => []QuietCacheAgrees
<1>1. TypeOK /\ WatchInv /\ CacheInv => QuietCacheAgrees
  <2>. SUFFICES ASSUME WatchInv, CacheInv, Quiet, reached, ~lost, ~overlapped
                PROVE  CacheAgrees
    BY DEF QuietCacheAgrees
  <2>1. ~WillReread
    BY DEF Quiet, WillReread
  <2>2. seen = Children
    BY <2>1 DEF WatchInv
  <2>. QED BY <2>2 DEF CacheInv, SeenIsKept, Handling, Quiet, CacheAgrees
<1>. QED BY <1>1, TypeInductive, WatchInductive, CacheInductive, PTL DEF Spec

-----------------------------------------------------------------------------
(***************************************************************************)
(* Where the comparison of NodeChange is exact                             *)
(***************************************************************************)
LEMMA TwoHosts ==
  ASSUME Cardinality(Hosts) <= 2
  PROVE  \A x, y, z \in Hosts : x = y \/ y = z \/ x = z
<1>. SUFFICES ASSUME NEW x \in Hosts, NEW y \in Hosts, NEW z \in Hosts,
                     x # y, y # z, x # z
              PROVE  FALSE
  OBVIOUS
<1>1. IsFiniteSet({x}) /\ Cardinality({x}) = 1
  BY FS_Singleton
<1>2. IsFiniteSet({x} \cup {y}) /\ Cardinality({x} \cup {y}) = 2
  BY <1>1, FS_AddElement
<1>3. Cardinality(({x} \cup {y}) \cup {z}) = 3
  BY <1>2, FS_AddElement
<1>4. ({x} \cup {y}) \cup {z} \in SUBSET Hosts /\ IsFiniteSet(Hosts)
  BY HostsAndCapacity
<1>5. 3 <= Cardinality(Hosts) /\ Cardinality(Hosts) \in Nat
  BY <1>3, <1>4, FS_Subset, FS_CardinalityType
<1>. QED BY <1>5

\* Of one host or two there is a last one.
LEMMA LastOfTwo ==
  ASSUME Cardinality(Hosts) <= 2, NEW S \in SUBSET Hosts, S # {}
  PROVE  Last(S) \in S
<1>1. PICK x \in S : TRUE
  OBVIOUS
<1>2. \A y \in S : y \in Nat
  BY HostsAndCapacity
<1>3. \E h \in S : \A g \in S : g <= h
  <2>1. CASE \E y \in S : x < y
    BY <1>2, <2>1, TwoHosts
  <2>2. CASE ~\E y \in S : x < y
    BY <1>1, <1>2, <2>2
  <2>. QED BY <2>1, <2>2
<1>. QED BY <1>3 DEF Last

LEMMA SameShapeIsSame ==
  ASSUME Cardinality(Hosts) <= 2, NEW S \in SUBSET Hosts, NEW T \in SUBSET Hosts,
         SameShape(S, T)
  PROVE  S = T
<1>1. IsFiniteSet(S) /\ IsFiniteSet(T) /\ Cardinality(S) = Cardinality(T)
  BY HostsAndCapacity, FS_Subset DEF SameShape
<1>2. CASE S = {} \/ T = {}
  BY <1>1, <1>2, FS_EmptySet
<1>3. CASE S # {} /\ T # {}
  <2>1. Last(S) \in S \cap T
    BY <1>3, LastOfTwo DEF SameShape
  <2>2. S \subseteq T \/ T \subseteq S
    <3>. SUFFICES ASSUME NEW x \in S \ T, NEW y \in T \ S PROVE FALSE
      OBVIOUS
    <3>. QED BY <2>1, TwoHosts
  <2>. QED BY <1>1, <2>2, FS_Subset
<1>. QED BY <1>2, <1>3

(***************************************************************************)
(* The comparison of NodeChange, by length and last host, is too coarse    *)
(* from three hosts on (zk_exact); for one host or two GetService answers  *)
(* with exactly the registered ones.                                       *)
(***************************************************************************)
THEOREM TwoHostsAreExact == Cardinality(Hosts) <= 2 => (Spec => []QuietCacheIsExact)
<1>. SUFFICES ASSUME Cardinality(Hosts) <= 2 PROVE Spec => []QuietCacheIsExact
  OBVIOUS
<1>1. TypeOK /\ QuietCacheAgrees => QuietCacheIsExact
  <2>. SUFFICES ASSUME TypeOK, CacheAgrees PROVE DOMAIN uri2Services[Uri] = Children
    BY DEF QuietCacheAgrees, QuietCacheIsExact
  <2>1. Children \in SUBSET Hosts /\ DOMAIN uri2Services[Uri] \in SUBSET Hosts
    BY DEF Children, TypeOK, CacheAgrees, Metas
  <2>. QED BY <2>1, SameShapeIsSame DEF CacheAgrees
<1>. QED BY <1>1, TypeCorrect, CacheCorrect, PTL
=============================================================================
