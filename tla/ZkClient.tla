------------------------------ MODULE ZkClient ------------------------------
(***************************************************************************)
(* The client side of ZkRegistry for one service uri: NewZkRegistry reads  *)
(* the service's hosts and leaves a watch (registry_zk.go), listenEvent    *)
(* handles the events of the session one by one (zk.go), NodeChange and    *)
(* PullChildrenData keep uri2Services, which GetService answers from.      *)
(* ZooKeeper itself (external): a watch fires once, reading and arming a   *)
(* watch is one step at the server, and events arrive in order.            *)
(***************************************************************************)
EXTENDS Integers, Sequences, FiniteSets

CONSTANTS
  Hosts,       \* the addresses servers register, numbered in string order
  Data,        \* what they put there: nothing ("old" servers) or a ServiceMeta,
               \* of which only IsPre is kept
  Faults,      \* what goes wrong: calls that fail, sessions that expire
  EventCap,    \* how many events the session's channel holds before it drops
  SessionPath, \* does a session event match the path of a watcher?
  MaxChanges   \* bound of the model: how often ZooKeeper changes; 0 is no bound

ClientConstants ==
  /\ Hosts \subseteq Nat \ {0} /\ IsFiniteSet(Hosts)
  /\ Data \subseteq {"old", "normal", "pre"}
  /\ Faults \subseteq {"call", "expiry"}
  /\ EventCap \in Nat \ {0}
  /\ SessionPath \in BOOLEAN
  /\ MaxChanges \in Nat

ASSUME ClientAssumption == ClientConstants

\* A path: the service's node or the address node of a host below it.
Uri == 0
Path == {Uri} \cup Hosts

\* The ServiceMeta a client makes of it.
Meta == {"normal", "pre"}
Metas == UNION {[S -> Meta] : S \in SUBSET Hosts}

ChildEvent == [path |-> Uri, type |-> "children"]
Expired == [path |-> -1, type |-> "expired"]
Event == {ChildEvent, Expired} \cup [path : Hosts, type : {"created", "deleted"}]

VARIABLES
  exists,       \* has some server created the service's node?
  node,         \* node[h]: the data of h's address node, or "absent"
  armed,        \* the child watch on the service's node
  hostWatch,    \* the hosts whose next creation or deletion is watched
  events,       \* the session's event channel
  pc,           \* pc[t]: where NewZkRegistry and listenEvent are
  event,        \* the event listenEvent handles
  todo,         \* todo[t]: the hosts PullChildrenData has yet to read
  services,     \* services[t]: what it has read
  uri2Services, \* the cache, by path below the protocol's root
  changes,      \* how often ZooKeeper has changed
  seen,         \* history: the hosts ChildrenW last returned for the uri
  reached,      \* history: ChildrenW has returned hosts for the uri
  lost,         \* history: a fault has cost the client a watch or an event
  overlapped    \* history: an event was compared while NewZkRegistry pulled

zookeeper == <<exists, node, armed, hostWatch, events, changes>>
threads == <<pc, event, todo, services>>
history == <<seen, reached, lost, overlapped>>
vars == <<zookeeper, threads, uri2Services, history>>

Thread == {"new", "listen"}

Children == {h \in Hosts : node[h] # "absent"}

Nothing == [h \in {} |-> "normal"]

TypeOK ==
  /\ exists \in BOOLEAN
  /\ node \in [Hosts -> Data \cup {"absent"}]
  /\ armed \in BOOLEAN
  /\ hostWatch \in SUBSET Hosts
  /\ events \in Seq(Event)
  /\ pc \in [Thread -> {"start", "pull", "done", "idle", "taken", "compare"}]
  /\ event \in Event
  /\ todo \in [Thread -> SUBSET Hosts]
  /\ services \in [Thread -> Metas]
  /\ DOMAIN uri2Services \subseteq Path
  /\ uri2Services \in [DOMAIN uri2Services -> Metas]
  /\ changes \in Nat
  /\ seen \in SUBSET Hosts
  /\ reached \in BOOLEAN /\ lost \in BOOLEAN /\ overlapped \in BOOLEAN

Init ==
  /\ exists \in BOOLEAN
  /\ node \in [Hosts -> IF exists THEN Data \cup {"absent"} ELSE {"absent"}]
  /\ armed = FALSE /\ hostWatch = {} /\ events = <<>> /\ changes = 0
  /\ pc = [t \in Thread |-> IF t = "new" THEN "start" ELSE "idle"]
  /\ event = ChildEvent
  /\ todo = [t \in Thread |-> {}]
  /\ services = [t \in Thread |-> Nothing]
  /\ uri2Services = [k \in {} |-> Nothing]
  /\ seen = {} /\ reached = FALSE /\ lost = FALSE /\ overlapped = FALSE

-----------------------------------------------------------------------------
(***************************************************************************)
(* ZooKeeper: servers come and go, a session expires.  Events that find    *)
(* the channel full are dropped.                                           *)
(***************************************************************************)
Deliver(all) ==
  \/ Len(all) <= EventCap /\ events' = all /\ UNCHANGED lost
  \/ Len(all) > EventCap /\ events' = SubSeq(all, 1, EventCap) /\ lost' = TRUE

\* The watches that fire when h's address node appears or goes.
Fires(h, type) ==
  (IF h \in hostWatch THEN <<[path |-> h, type |-> type]>> ELSE <<>>)
    \o (IF armed THEN <<ChildEvent>> ELSE <<>>)

CountChange ==
  \/ MaxChanges = 0 /\ changes' = 0
  \/ changes < MaxChanges /\ changes' = changes + 1

Change(h, data, type) ==
  /\ CountChange
  /\ node' = [node EXCEPT ![h] = data]
  /\ Deliver(events \o Fires(h, type))
  /\ armed' = FALSE /\ hostWatch' = hostWatch \ {h}
  /\ UNCHANGED <<threads, uri2Services, seen, reached, overlapped>>

\* A server creates the service's node, which nobody can watch before.
MakeService ==
  /\ ~exists /\ exists' = TRUE
  /\ UNCHANGED <<node, armed, hostWatch, events, changes, threads, uri2Services, history>>

Register(h) ==
  /\ exists /\ node[h] = "absent"
  /\ \E data \in Data : Change(h, data, "created")
  /\ UNCHANGED exists

Unregister(h) ==
  /\ node[h] # "absent"
  /\ Change(h, "absent", "deleted")
  /\ UNCHANGED exists

\* The session and its watches are gone; the library opens another session.
Expire ==
  /\ "expiry" \in Faults
  /\ CountChange
  /\ armed' = FALSE /\ hostWatch' = {}
  /\ events' = IF Len(events) < EventCap THEN Append(events, Expired) ELSE events
  /\ lost' = TRUE
  /\ UNCHANGED <<exists, node, threads, uri2Services, seen, reached, overlapped>>

-----------------------------------------------------------------------------
(***************************************************************************)
(* NewZkRegistry                                                           *)
(***************************************************************************)
\* mutant: Children instead of ChildrenW
Reread == seen' = Children /\ UNCHANGED armed

\* ChildrenW on the service's node, when it succeeds.
ReadAndArm == seen' = Children /\ armed' = TRUE

\* ChildrenW, then PullChildrenData on what it returned.  When the service's
\* node does not exist yet the call fails, arms nothing and is only logged.
NewChildrenW ==
  /\ pc["new"] = "start"
  /\ \/ /\ exists
        /\ ReadAndArm /\ reached' = TRUE
        /\ pc' = [pc EXCEPT !["new"] = "pull"]
        /\ todo' = [todo EXCEPT !["new"] = Children]
     \/ /\ ~exists \/ "call" \in Faults
        /\ pc' = [pc EXCEPT !["new"] = "done"]
        /\ UNCHANGED <<armed, seen, reached, todo>>
  /\ UNCHANGED <<exists, node, hostWatch, events, changes, event, services,
                 uri2Services, lost, overlapped>>

\* PullChildrenData reads the hosts in order.  A node without data, a node
\* that is gone and a call that fails all yield the meta of an old server.
GetW(t) ==
  /\ pc[t] = "pull"
  /\ \E h \in todo[t] :
       /\ \A g \in todo[t] : h <= g
       /\ todo' = [todo EXCEPT ![t] = @ \ {h}]
       /\ \E meta \in Meta :
            /\ \/ /\ h \in Children
                  /\ meta = IF node[h] = "pre" THEN "pre" ELSE "normal"
                  /\ hostWatch' = hostWatch \cup {h}
               \/ /\ h \notin Children \/ "call" \in Faults
                  /\ meta = "normal"
                  /\ UNCHANGED hostWatch
            /\ services' = [services EXCEPT ![t] =
                              [g \in DOMAIN @ \cup {h} |-> IF g = h THEN meta ELSE @[g]]]
  /\ UNCHANGED <<exists, node, armed, events, changes, pc, event, uri2Services, history>>

\* uri2Services[uri] = services; NewZkRegistry does so without the lock.
Store(t, uri, next) ==
  /\ pc[t] = "pull" /\ todo[t] = {}
  /\ pc' = [pc EXCEPT ![t] = next]
  /\ uri2Services' = [k \in DOMAIN uri2Services \cup {uri} |->
                        IF k = uri THEN services[t] ELSE uri2Services[k]]
  /\ services' = [services EXCEPT ![t] = Nothing]
  /\ UNCHANGED <<zookeeper, event, todo, history>>

\* mutant: the key keeps the root and the protocol of the path
NewStoreFullPath == Store("new", -1, "done")

NewStore == Store("new", Uri, "done")

-----------------------------------------------------------------------------
(***************************************************************************)
(* listenEvent, NodeChange and OnSessionExpired                            *)
(***************************************************************************)
\* An event whose path no watcher's path is part of is ignored.
TakeEvent ==
  /\ pc["listen"] = "idle" /\ events # <<>>
  /\ events' = Tail(events)
  /\ IF Head(events).path \in Path \/ SessionPath
     THEN /\ event' = Head(events)
          /\ pc' = [pc EXCEPT !["listen"] = "taken"]
     ELSE UNCHANGED <<event, pc>>
  /\ UNCHANGED <<exists, node, armed, hostWatch, changes, todo, services, uri2Services, history>>

\* ChildrenW re-arms the watch and reads the hosts; when it fails the event
\* is dropped.
OnChildrenW ==
  /\ pc["listen"] = "taken" /\ event.type \in {"created", "children"}
  /\ \/ /\ event.path = Uri
        /\ ReadAndArm
        /\ todo' = [todo EXCEPT !["listen"] = Children]
        /\ pc' = [pc EXCEPT !["listen"] = "compare"]
        /\ UNCHANGED <<hostWatch, lost>>
     \/ /\ event.path \in Children
        /\ hostWatch' = hostWatch \cup {event.path}
        /\ todo' = [todo EXCEPT !["listen"] = {}]
        /\ pc' = [pc EXCEPT !["listen"] = "compare"]
        /\ UNCHANGED <<armed, seen, lost>>
     \/ /\ event.path \in Hosts \ Children \/ "call" \in Faults
        /\ pc' = [pc EXCEPT !["listen"] = "idle"]
        /\ lost' = (lost \/ event.path = Uri)
        /\ UNCHANGED <<armed, hostWatch, seen, todo>>
  /\ UNCHANGED <<exists, node, events, changes, event, services, uri2Services, reached, overlapped>>

\* ExistsW, whose error is ignored, and NodeChange with no addresses.
OnDeleted ==
  /\ pc["listen"] = "taken" /\ event.type = "deleted"
  /\ \/ hostWatch' = hostWatch \cup {event.path}
     \/ "call" \in Faults /\ UNCHANGED hostWatch
  /\ todo' = [todo EXCEPT !["listen"] = {}]
  /\ pc' = [pc EXCEPT !["listen"] = "compare"]
  /\ UNCHANGED <<exists, node, armed, events, changes, event, services, uri2Services, history>>

\* The client's OnSessionExpired arms the watch again and drops the hosts
\* that ChildrenW returns.
OnSessionExpired ==
  /\ pc["listen"] = "taken" /\ event = Expired
  /\ \/ exists /\ armed' = TRUE
     \/ (~exists \/ "call" \in Faults) /\ UNCHANGED armed
  /\ pc' = [pc EXCEPT !["listen"] = "idle"]
  /\ UNCHANGED <<exists, node, hostWatch, events, changes, event, todo, services,
                 uri2Services, history>>

Last(S) == CHOOSE h \in S : \A g \in S : g <= h

\* mutant: only the number of hosts is compared
UnchangedByCount(uri, addrs) ==
  /\ uri \in DOMAIN uri2Services
  /\ DOMAIN uri2Services[uri] # {} /\ Cardinality(DOMAIN uri2Services[uri]) = Cardinality(addrs)

\* mutant: a service that is cached is not pulled again
UnchangedIfCached(uri, addrs) == uri \in DOMAIN uri2Services

\* NodeChange skips the pull if the number of hosts and the last host, in
\* order, are those of the cache: the loop breaks only at the last index.
Unchanged(uri, addrs) ==
  /\ uri \in DOMAIN uri2Services
  /\ LET old == DOMAIN uri2Services[uri]
     IN  old # {} /\ Cardinality(old) = Cardinality(addrs) /\ Last(old) = Last(addrs)

NodeChange ==
  /\ pc["listen"] = "compare"
  /\ IF Unchanged(event.path, todo["listen"])
     THEN /\ pc' = [pc EXCEPT !["listen"] = "idle"]
          /\ todo' = [todo EXCEPT !["listen"] = {}]
     ELSE pc' = [pc EXCEPT !["listen"] = "pull"] /\ UNCHANGED todo
  /\ overlapped' = (overlapped \/ (event.path = Uri /\ pc["new"] # "done"))
  /\ UNCHANGED <<zookeeper, event, services, uri2Services, seen, reached, lost>>

ListenStore == Store("listen", event.path, "idle")

Listen ==
  \/ TakeEvent \/ OnChildrenW \/ OnDeleted \/ OnSessionExpired
  \/ NodeChange \/ GetW("listen") \/ ListenStore

New == NewChildrenW \/ GetW("new") \/ NewStore

Next ==
  \/ MakeService \/ \E h \in Hosts : Register(h) \/ Unregister(h)
  \/ Expire \/ New \/ Listen

Spec == Init /\ [][Next]_vars

\* The two goroutines run, and ZooKeeper answers or fails their calls.
FairSpec == Spec /\ WF_vars(New) /\ WF_vars(Listen)

-----------------------------------------------------------------------------
(***************************************************************************)
(* Properties                                                              *)
(***************************************************************************)
WillReread ==
  \/ \E i \in 1..Len(events) : events[i] = ChildEvent
  \/ pc["listen"] = "taken" /\ event = ChildEvent

\* A change of the service's hosts is never missed: when they are not the
\* ones the client last read, the event that will make it read them again is
\* in the channel or in listenEvent's hands.  One-shot watches, re-armed by
\* the reading call itself, are what this rests on.
NothingMissed == reached /\ ~lost /\ seen # Children => WillReread

SameShape(S, T) == Cardinality(S) = Cardinality(T) /\ (S # {} => Last(S) = Last(T))

CacheAgrees ==
  /\ Uri \in DOMAIN uri2Services
  /\ SameShape(DOMAIN uri2Services[Uri], Children)

Quiet == events = <<>> /\ pc["listen"] = "idle" /\ pc["new"] = "done"

\* What NodeChange's comparison does guarantee: once the events are handled,
\* GetService returns as many hosts as are registered, and the right last one
\* (if no fault and no overlap with NewZkRegistry's own pull intervened).
QuietCacheAgrees ==
  Quiet /\ reached /\ ~lost /\ ~overlapped => CacheAgrees

\* When ZooKeeper stops changing, the events stop too and the cache comes to
\* agree with it for good: the listener neither stalls nor feeds itself.
CacheConverges ==
  <>[](Quiet /\ (reached /\ ~lost /\ ~overlapped => CacheAgrees))

-----------------------------------------------------------------------------
(***************************************************************************)
(* What the comments say and the code does not do                          *)
(***************************************************************************)
\* NodeChange: "compare the change", "is it the same", "update on a change".
QuietCacheIsExact ==
  Quiet /\ reached /\ ~lost /\ ~overlapped /\ Uri \in DOMAIN uri2Services =>
    DOMAIN uri2Services[Uri] = Children

\* OnSessionExpired: "when the session has timed out, subscribe again";
\* listenEvent: "register the watcher again after each event".
WatchIsRearmed == reached /\ ~armed ~> armed
=============================================================================
