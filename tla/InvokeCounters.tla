--------------------------- MODULE InvokeCounters ---------------------------
(***************************************************************************)
(* The statistics by client of one service: Service.InvokesPerClient, a    *)
(* sync.Map from a client's address to a sync.Map from method to Flow.     *)
(* Invocations fill it with Load and LoadOrStore (proxy.go), a timer of    *)
(* the application prunes the clients that are gone (application.go), and  *)
(* ListInvokes reports it.  Each operation of a sync.Map is one step; a    *)
(* map or a Flow is named after the invocation that allocated it.          *)
(***************************************************************************)
EXTENDS Naturals, FiniteSets

CONSTANTS
  Clients,  \* remote addresses
  Methods,  \* methods of the service
  Calls     \* the invocations that resolve to one of the methods

ASSUME CountersAssumption == IsFiniteSet(Calls)

VARIABLES
  connected,  \* the clients remoting.ListClients returns
  pc,         \* pc[i]: where invocation i is
  source,     \* req.Source of i
  method,     \* the method i calls
  flow,       \* flow[i]: the inner map i works on, its `flow`
  counter,    \* counter[i]: the Flow i will increment
  perClient,  \* InvokesPerClient: the inner map of each known client
  flows,      \* flows[f]: the counters of inner map f, by method
  count,      \* count[n]: the value of Flow n
  timer,      \* where the timer's callback is
  allclients, \* its sorted list of clients
  removeClients, \* what it is going to delete
  pruned      \* history: the clients whose statistics were ever deleted

invocation == <<pc, source, method, flow, counter>>
tables == <<perClient, flows, count>>
pruning == <<timer, allclients, removeClients, pruned>>
vars == <<connected, invocation, tables, pruning>>

Stage == {"idle", "load", "store", "loadMethod", "storeMethod", "incr", "done"}

TypeOK ==
  /\ connected \subseteq Clients
  /\ pc \in [Calls -> Stage]
  /\ source \in [Calls -> Clients]
  /\ method \in [Calls -> Methods]
  /\ flow \in [Calls -> Calls]
  /\ counter \in [Calls -> Calls]
  /\ DOMAIN perClient \subseteq Clients
  /\ perClient \in [DOMAIN perClient -> Calls]
  /\ DOMAIN flows = Calls
  /\ \A f \in Calls : DOMAIN flows[f] \subseteq Methods /\ flows[f] \in [DOMAIN flows[f] -> Calls]
  /\ count \in [Calls -> 0..Cardinality(Calls)]
  /\ timer \in {"waiting", "scan", "delete"}
  /\ allclients \subseteq Clients
  /\ removeClients \subseteq Clients
  /\ pruned \subseteq Clients

Init ==
  /\ connected = {}
  /\ pc = [i \in Calls |-> "idle"]
  /\ source \in [Calls -> Clients]
  /\ method \in [Calls -> Methods]
  /\ flow = [i \in Calls |-> i]
  /\ counter = [i \in Calls |-> i]
  /\ perClient = [c \in {} |-> c]
  /\ flows = [i \in Calls |-> [m \in {} |-> m]]
  /\ count = [i \in Calls |-> 0]
  /\ timer = "waiting" /\ allclients = {} /\ removeClients = {} /\ pruned = {}

-----------------------------------------------------------------------------
(***************************************************************************)
(* Connections (turbo, external), and the calls they carry                 *)
(***************************************************************************)
Connect(c) ==
  /\ c \notin connected
  /\ connected' = connected \cup {c}
  /\ UNCHANGED <<invocation, tables, pruning>>

Disconnect(c) ==
  /\ c \in connected
  /\ connected' = connected \ {c}
  /\ UNCHANGED <<invocation, tables, pruning>>

Goto(i, from, to) == pc[i] = from /\ pc' = [pc EXCEPT ![i] = to]

\* The address is taken when the call arrives; its client may be gone by the
\* time the pool runs it.
Arrive(i) ==
  /\ source[i] \in connected
  /\ Goto(i, "idle", "load")
  /\ UNCHANGED <<connected, source, method, flow, counter, tables, pruning>>

-----------------------------------------------------------------------------
(***************************************************************************)
(* Invoke: find or make the client's map, then the method's counter        *)
(***************************************************************************)
With(table, key, value) ==
  [k \in DOMAIN table \cup {key} |-> IF k = key THEN value ELSE table[k]]

Load(i) ==
  /\ \/ /\ source[i] \in DOMAIN perClient
        /\ flow' = [flow EXCEPT ![i] = perClient[source[i]]]
        /\ Goto(i, "load", "loadMethod")
     \/ /\ source[i] \notin DOMAIN perClient
        /\ Goto(i, "load", "store")
        /\ UNCHANGED flow
  /\ UNCHANGED <<connected, source, method, counter, tables, pruning>>

\* mutant: Store instead of LoadOrStore
StoreAnyway(i) ==
  /\ Goto(i, "store", "loadMethod")
  /\ perClient' = With(perClient, source[i], i)
  /\ flow' = [flow EXCEPT ![i] = i]
  /\ UNCHANGED <<connected, source, method, counter, flows, count, pruning>>

\* LoadOrStore of an empty map.
LoadOrStore(i) ==
  /\ Goto(i, "store", "loadMethod")
  /\ perClient' = IF source[i] \in DOMAIN perClient THEN perClient
                  ELSE With(perClient, source[i], i)
  /\ flow' = [flow EXCEPT ![i] = perClient'[source[i]]]
  /\ UNCHANGED <<connected, source, method, counter, flows, count, pruning>>

LoadMethod(i) ==
  /\ \/ /\ method[i] \in DOMAIN flows[flow[i]]
        /\ counter' = [counter EXCEPT ![i] = flows[flow[i]][method[i]]]
        /\ Goto(i, "loadMethod", "incr")
     \/ /\ method[i] \notin DOMAIN flows[flow[i]]
        /\ Goto(i, "loadMethod", "storeMethod")
        /\ UNCHANGED counter
  /\ UNCHANGED <<connected, source, method, flow, tables, pruning>>

LoadOrStoreMethod(i) ==
  /\ Goto(i, "storeMethod", "incr")
  /\ flows' = IF method[i] \in DOMAIN flows[flow[i]] THEN flows
              ELSE [flows EXCEPT ![flow[i]] = With(@, method[i], i)]
  /\ counter' = [counter EXCEPT ![i] = flows'[flow[i]][method[i]]]
  /\ UNCHANGED <<connected, source, method, flow, perClient, count, pruning>>

\* mutant: the counter is incremented by the fast path and again at the end
IncrTwice(i) ==
  /\ Goto(i, "incr", "done")
  /\ count' = [count EXCEPT ![counter[i]] = @ + 2]
  /\ UNCHANGED <<connected, source, method, flow, counter, perClient, flows, pruning>>

Incr(i) ==
  /\ Goto(i, "incr", "done")
  /\ count' = [count EXCEPT ![counter[i]] = @ + 1]
  /\ UNCHANGED <<connected, source, method, flow, counter, perClient, flows, pruning>>

Invoke(i) ==
  Load(i) \/ LoadOrStore(i) \/ LoadMethod(i) \/ LoadOrStoreMethod(i) \/ Incr(i)

-----------------------------------------------------------------------------
(***************************************************************************)
(* The timer: every 60 seconds list the connected clients, look for the    *)
(* clients in the table that are not among them, delete those.             *)
(***************************************************************************)
ListClients ==
  /\ timer = "waiting"
  /\ timer' = "scan"
  /\ allclients' = connected
  /\ UNCHANGED <<connected, invocation, tables, removeClients, pruned>>

\* mutant: with nobody connected there is nothing to look for
ScanUnlessEmpty ==
  /\ timer = "scan"
  /\ timer' = "delete"
  /\ removeClients' = IF allclients = {} THEN {} ELSE DOMAIN perClient \ allclients
  /\ UNCHANGED <<connected, invocation, tables, allclients, pruned>>

Scan ==
  /\ timer = "scan"
  /\ timer' = "delete"
  /\ removeClients' = DOMAIN perClient \ allclients
  /\ UNCHANGED <<connected, invocation, tables, allclients, pruned>>

Delete(c) ==
  /\ timer = "delete" /\ c \in removeClients
  /\ perClient' = [k \in DOMAIN perClient \ {c} |-> perClient[k]]
  /\ removeClients' = removeClients \ {c}
  /\ pruned' = pruned \cup {c}
  /\ UNCHANGED <<connected, invocation, flows, count, timer, allclients>>

TimerDone ==
  /\ timer = "delete" /\ removeClients = {}
  /\ timer' = "waiting"
  /\ UNCHANGED <<connected, invocation, tables, allclients, removeClients, pruned>>

Prune == ListClients \/ Scan \/ (\E c \in Clients : Delete(c)) \/ TimerDone

Next ==
  \/ \E c \in Clients : Connect(c) \/ Disconnect(c)
  \/ \E i \in Calls : Arrive(i) \/ Invoke(i)
  \/ Prune

Spec == Init /\ [][Next]_vars

\* The timer fires again and again, and invocations run.
Fairness == WF_vars(Prune) /\ \A i \in Calls : WF_vars(Invoke(i))

FairSpec == Spec /\ Fairness

-----------------------------------------------------------------------------
(***************************************************************************)
(* Properties                                                              *)
(***************************************************************************)
\* What ListInvokes reports for a client and a method.
ListInvokes(c, m) ==
  IF c \in DOMAIN perClient /\ m \in DOMAIN flows[perClient[c]]
  THEN count[flows[perClient[c]][m]] ELSE 0

Counted(c, m) == {i \in Calls : pc[i] = "done" /\ source[i] = c /\ method[i] = m}

\* For a client whose statistics were never pruned, ListInvokes reports every
\* invocation: first calls that race to create the map or the counter end up
\* on the same one.
CountsExact ==
  \A c \in Clients \ pruned, m \in Methods : ListInvokes(c, m) = Cardinality(Counted(c, m))

\* Pruning may lose counts, but no count is ever credited to another client or
\* method, or credited twice, even to a client that comes back while older
\* calls of it still hold the deleted map.
NeverOvercounted ==
  \A c \in Clients, m \in Methods : ListInvokes(c, m) <= Cardinality(Counted(c, m))

\* The statistics of a client that has gone for good do not stay for good.
OrphansArePruned ==
  \A c \in Clients : <>[](c \notin connected) => <>[](c \notin DOMAIN perClient)
=============================================================================
