------------------------------ MODULE Lifecycle ------------------------------
(***************************************************************************)
(* The life of a MOA server: initApplication publishes its services in     *)
(* ZooKeeper, listens, builds its handler and publishes again              *)
(* (application.go, registry.go, registry_zk.go, zk.go); the ticker of     *)
(* MoaStat samples the connections (stat.go); DestroyApplication withdraws *)
(* the services, waits for the connections to go and shuts down.  Servers  *)
(* crash and are started again on the same address, where the ephemeral    *)
(* nodes of the crashed one linger until ZooKeeper expires its session.    *)
(***************************************************************************)
EXTENDS Naturals, FiniteSets

CONSTANTS
  Apps,        \* the processes that ever run, numbered
  Addresses,   \* host:port pairs
  Services,    \* the services of the bundle, numbered in its order
  DrainChecks, \* how often DestroyApplication looks at the connections (9)
  MaxConns,    \* bound of the model: connections per server
  Faults       \* what goes wrong: calls that fail, sessions that expire early

ASSUME LifecycleAssumption ==
  /\ Apps \subseteq Nat \ {0}
  /\ Services \subseteq Nat /\ Services # {} /\ IsFiniteSet(Services)
  /\ DrainChecks \in Nat /\ MaxConns \in Nat
  /\ Faults \subseteq {"call", "expiry"}

\* No process owns the node.
None == 0

VARIABLES
  address,  \* address[a]: the BindAddress of a
  made,     \* the services whose persistent node exists
  owner,    \* owner[h, s]: whose session the address node of h under s belongs to
  pc,       \* pc[a]: where the main goroutine of a is
  round,    \* round[a]: which of its two calls of RegisteAllServices
  todo,     \* todo[a]: the services its loop has yet to treat
  conns,    \* conns[a]: the connections of a
  ticking,  \* ticking[a]: the ticker of its MoaStat runs
  sampled,  \* sampled[a]: preMoaInfo.Connections
  checks,   \* checks[a]: checkTimes of DestroyApplication
  lost,     \* history: lost[a]: a's session expired since its second round
  undeleted, \* history: undeleted[a]: the services whose deletion failed in Destroy,
             \* as long as a's session has not ended
  unclosed  \* unclosed[a]: session.Close failed, and a's session has not ended yet

zookeeper == <<made, owner>>
stat == <<conns, ticking, sampled>>
history == <<lost, undeleted, unclosed>>
main == <<pc, round, todo, checks, history>>
vars == <<address, zookeeper, stat, main>>

Stage == {"off", "check", "make", "delete", "create", "listen", "assemble", "ready",
          "unregister", "close", "drain", "stop", "shutdown", "done", "dead"}

TypeOK ==
  /\ address \in [Apps -> Addresses]
  /\ made \subseteq Services
  /\ owner \in [Addresses \X Services -> Apps \cup {None}]
  /\ pc \in [Apps -> Stage]
  /\ round \in [Apps -> 1..2]
  /\ todo \in [Apps -> SUBSET Services]
  /\ conns \in [Apps -> 0..MaxConns]
  /\ ticking \in [Apps -> BOOLEAN]
  /\ sampled \in [Apps -> 0..MaxConns]
  /\ checks \in [Apps -> 0..DrainChecks]
  /\ lost \in [Apps -> BOOLEAN]
  /\ undeleted \in [Apps -> SUBSET Services]
  /\ unclosed \in [Apps -> BOOLEAN]

Init ==
  /\ address \in [Apps -> Addresses]
  /\ made \in SUBSET Services
  /\ owner = [n \in Addresses \X Services |-> None]
  /\ pc = [a \in Apps |-> "off"]
  /\ round = [a \in Apps |-> 1]
  /\ todo = [a \in Apps |-> {}]
  /\ conns = [a \in Apps |-> 0]
  /\ ticking = [a \in Apps |-> FALSE]
  /\ sampled = [a \in Apps |-> 0]
  /\ checks = [a \in Apps |-> 0]
  /\ lost = [a \in Apps |-> FALSE]
  /\ undeleted = [a \in Apps |-> {}]
  /\ unclosed = [a \in Apps |-> FALSE]

Running(a) == pc[a] \notin {"off", "done", "dead"}

\* invokeHandler is set from the second round on; before that dis finds nil.
Serving(a) == Running(a) /\ round[a] = 2
Listening(a) == pc[a] = "assemble" \/ Serving(a)

Goto(a, from, to) == pc[a] = from /\ pc' = [pc EXCEPT ![a] = to]

\* The service the loop of RegisteAllServices or Destroy is at.
Current(a) == CHOOSE s \in todo[a] : \A t \in todo[a] : s <= t

Node(a, s) == <<address[a], s>>

\* The owner map once the session of a has ended.
Released(a) == [n \in DOMAIN owner |-> IF owner[n] = a THEN None ELSE owner[n]]

-----------------------------------------------------------------------------
(***************************************************************************)
(* RegisteService, for each service, in each of the two rounds             *)
(***************************************************************************)
\* mutant: the service's node is taken for granted
CheckNothing(a) ==
  /\ Goto(a, "check", "delete")
  /\ UNCHANGED <<address, zookeeper, round, todo, stat, checks, history>>

\* Exists(servicePath).
CheckService(a) ==
  /\ Goto(a, "check", IF Current(a) \in made THEN "delete" ELSE "make")
  /\ UNCHANGED <<address, zookeeper, round, todo, stat, checks, history>>

\* The process dies, with its memory and its connections.
Dies(a) ==
  /\ pc' = [pc EXCEPT ![a] = "dead"]
  /\ round' = [round EXCEPT ![a] = 1]
  /\ todo' = [todo EXCEPT ![a] = {}]
  /\ checks' = [checks EXCEPT ![a] = 0]
  /\ lost' = [lost EXCEPT ![a] = FALSE]
  /\ undeleted' = [undeleted EXCEPT ![a] = {}]
  /\ unclosed' = [unclosed EXCEPT ![a] = FALSE]
  /\ conns' = [conns EXCEPT ![a] = 0]
  /\ ticking' = [ticking EXCEPT ![a] = FALSE]
  /\ sampled' = [sampled EXCEPT ![a] = 0]

\* CreateNode: Exists, then Create.  If another server creates the node in
\* between, Create fails, and CreateNode closes the session and panics.
MakeService(a) ==
  /\ \/ /\ Goto(a, "make", "delete")
        /\ made' = made \cup {Current(a)}
        /\ UNCHANGED <<owner, stat, round, todo, checks, history>>
     \/ /\ pc[a] = "make" /\ Current(a) \in made
        /\ Dies(a)
        /\ owner' = Released(a) \/ ("call" \in Faults /\ UNCHANGED owner)
        /\ UNCHANGED made
  /\ UNCHANGED address

\* Delete(svAddrPath), whoever created it; its error is ignored.
DeleteAddress(a) ==
  /\ Goto(a, "delete", "create")
  /\ \/ owner' = [owner EXCEPT ![Node(a, Current(a))] = None]
     \/ "call" \in Faults /\ UNCHANGED owner
  /\ UNCHANGED <<address, made, round, todo, stat, checks, history>>

AfterRound(n) == IF n = 1 THEN "listen" ELSE "ready"

\* The loop goes on with the next service, or the round is over.
Registered(a) ==
  /\ todo' = [todo EXCEPT ![a] = @ \ {Current(a)}]
  /\ pc' = [pc EXCEPT ![a] = IF todo'[a] = {} THEN AfterRound(round[a]) ELSE "check"]

\* mutant: a node that exists already is as good as one's own
CreateUnlessExists(a) ==
  /\ pc[a] = "create"
  /\ Registered(a)
  /\ owner' = IF owner[Node(a, Current(a))] = None
              THEN [owner EXCEPT ![Node(a, Current(a))] = a] ELSE owner
  /\ UNCHANGED <<address, made, round, stat, checks, history>>

\* Create(svAddrPath), ephemeral; an address node that is there is fatal.
CreateAddress(a) ==
  /\ pc[a] = "create"
  /\ \/ /\ owner[Node(a, Current(a))] = None
        /\ Registered(a)
        /\ owner' = [owner EXCEPT ![Node(a, Current(a))] = a]
        /\ UNCHANGED <<stat, round, checks, history>>
     \/ /\ owner[Node(a, Current(a))] # None
        /\ Dies(a)
        /\ UNCHANGED owner
  /\ UNCHANGED <<address, made>>

RegisteService(a) == CheckService(a) \/ MakeService(a) \/ DeleteAddress(a) \/ CreateAddress(a)

-----------------------------------------------------------------------------
(***************************************************************************)
(* The rest of initApplication                                             *)
(***************************************************************************)
\* A process is started on an address where no other one runs.
Start(a) ==
  /\ \A b \in Apps : address[b] = address[a] => ~Running(b)
  /\ Goto(a, "off", "check")
  /\ todo' = [todo EXCEPT ![a] = Services]
  /\ UNCHANGED <<address, zookeeper, round, stat, checks, history>>

ListenAndServer(a) ==
  /\ Goto(a, "listen", "assemble")
  /\ UNCHANGED <<address, zookeeper, round, todo, stat, checks, history>>

\* NewMoaStat, NewInvocationHandler and StartLog; then the second round.
Assemble(a) ==
  /\ Goto(a, "assemble", "check")
  /\ round' = [round EXCEPT ![a] = 2]
  /\ todo' = [todo EXCEPT ![a] = Services]
  /\ ticking' = [ticking EXCEPT ![a] = TRUE]
  /\ lost' = [lost EXCEPT ![a] = FALSE]
  /\ UNCHANGED <<address, zookeeper, conns, sampled, checks, undeleted, unclosed>>

-----------------------------------------------------------------------------
(***************************************************************************)
(* DestroyApplication                                                      *)
(***************************************************************************)
Destroy(a) ==
  /\ Goto(a, "ready", "unregister")
  /\ todo' = [todo EXCEPT ![a] = Services]
  /\ UNCHANGED <<address, zookeeper, round, stat, checks, history>>

\* UnRegisteService deletes the node, whoever created it; a failure is logged.
UnRegisteService(a) ==
  /\ pc[a] = "unregister"
  /\ todo' = [todo EXCEPT ![a] = @ \ {Current(a)}]
  /\ pc' = IF todo'[a] = {} THEN [pc EXCEPT ![a] = "close"] ELSE pc
  /\ \/ /\ owner' = [owner EXCEPT ![Node(a, Current(a))] = None]
        /\ UNCHANGED undeleted
     \/ /\ "call" \in Faults
        /\ undeleted' = [undeleted EXCEPT ![a] = @ \cup {Current(a)}]
        /\ UNCHANGED owner
  /\ UNCHANGED <<address, made, round, stat, checks, lost, unclosed>>

\* mutant: the session stays open until the process ends
CloseLater(a) ==
  /\ Goto(a, "close", "drain")
  /\ UNCHANGED <<address, zookeeper, round, todo, stat, checks, history>>

\* registry.Destroy: with the session go the ephemeral nodes that are left.  If
\* Close does not get through, they stay until ZooKeeper times the session out.
CloseSession(a) ==
  /\ Goto(a, "close", "drain")
  /\ \/ /\ owner' = Released(a)
        /\ undeleted' = [undeleted EXCEPT ![a] = {}]
        /\ UNCHANGED unclosed
     \/ /\ "call" \in Faults
        /\ unclosed' = [unclosed EXCEPT ![a] = TRUE]
        /\ UNCHANGED <<owner, undeleted>>
  /\ UNCHANGED <<address, made, round, todo, stat, checks, lost>>

\* mutant: the loop waits for the last connection however long it stays
DrainUntilIdle(a) ==
  /\ pc[a] = "drain"
  /\ pc' = IF sampled[a] = 0 THEN [pc EXCEPT ![a] = "stop"] ELSE pc
  /\ UNCHANGED <<address, zookeeper, round, todo, stat, checks, history>>

\* mutant: one check too many
DrainOnceMore(a) ==
  /\ pc[a] = "drain"
  /\ \/ /\ checks[a] > DrainChecks \/ sampled[a] = 0
        /\ pc' = [pc EXCEPT ![a] = "stop"]
        /\ UNCHANGED checks
     \/ /\ checks[a] <= DrainChecks /\ sampled[a] > 0
        /\ checks' = [checks EXCEPT ![a] = @ + 1]
        /\ UNCHANGED pc
  /\ UNCHANGED <<address, zookeeper, round, todo, stat, history>>

\* The loop looks at the last sample and sleeps for a second.
Drain(a) ==
  /\ pc[a] = "drain"
  /\ \/ /\ checks[a] = DrainChecks \/ sampled[a] = 0
        /\ pc' = [pc EXCEPT ![a] = "stop"]
        /\ UNCHANGED checks
     \/ /\ checks[a] < DrainChecks /\ sampled[a] > 0
        /\ checks' = [checks EXCEPT ![a] = @ + 1]
        /\ UNCHANGED pc
  /\ UNCHANGED <<address, zookeeper, round, todo, stat, history>>

Stop(a) ==
  /\ Goto(a, "stop", "shutdown")
  /\ UNCHANGED <<address, zookeeper, round, todo, stat, checks, history>>

\* remoting.Shutdown and moaStat.Destroy.
Shutdown(a) ==
  /\ Goto(a, "shutdown", "done")
  /\ conns' = [conns EXCEPT ![a] = 0]
  /\ ticking' = [ticking EXCEPT ![a] = FALSE]
  /\ UNCHANGED <<address, zookeeper, round, todo, sampled, checks, history>>

-----------------------------------------------------------------------------
(***************************************************************************)
(* The ticker, the clients, crashes and ZooKeeper's sessions               *)
(***************************************************************************)
\* One turn of the loop of StartLog; if monitor panics it is the last one.
Tick(a) ==
  /\ ticking[a]
  /\ sampled' = [sampled EXCEPT ![a] = conns[a]]
  /\ \E goesOn \in BOOLEAN : ticking' = [ticking EXCEPT ![a] = goesOn]
  /\ UNCHANGED <<address, zookeeper, main, conns>>

Connect(a) ==
  /\ Listening(a) /\ conns[a] < MaxConns
  /\ conns' = [conns EXCEPT ![a] = @ + 1]
  /\ UNCHANGED <<address, zookeeper, main, ticking, sampled>>

Disconnect(a) ==
  /\ conns[a] > 0
  /\ conns' = [conns EXCEPT ![a] = @ - 1]
  /\ UNCHANGED <<address, zookeeper, main, ticking, sampled>>

\* The process is killed, or a step of initApplication panics (a call that
\* fails, an address in use, an instance that lacks a method).
Crash(a) ==
  /\ Running(a)
  /\ Dies(a)
  /\ UNCHANGED <<address, zookeeper>>

\* The session of a ends: after its process, after a Close that failed, or early
\* if it lost the quorum.
Expire(a) ==
  /\ ~Running(a) \/ unclosed[a] \/ "expiry" \in Faults
  /\ a \in {owner[n] : n \in DOMAIN owner}
  /\ owner' = Released(a)
  /\ lost' = [lost EXCEPT ![a] = Running(a)]
  /\ undeleted' = [undeleted EXCEPT ![a] = {}]
  /\ unclosed' = [unclosed EXCEPT ![a] = FALSE]
  /\ UNCHANGED <<address, made, pc, round, todo, stat, checks>>

Main(a) ==
  \/ RegisteService(a) \/ ListenAndServer(a) \/ Assemble(a)
  \/ UnRegisteService(a) \/ CloseSession(a) \/ Drain(a) \/ Stop(a) \/ Shutdown(a)

Next ==
  \E a \in Apps :
    \/ Start(a) \/ Main(a) \/ Destroy(a)
    \/ Tick(a) \/ Connect(a) \/ Disconnect(a)
    \/ Crash(a) \/ Expire(a)

Spec == Init /\ [][Next]_vars

\* Main goroutines run; nothing is assumed of the ticker or the clients.
Fairness == \A a \in Apps : WF_vars(Main(a))

FairSpec == Spec /\ Fairness

-----------------------------------------------------------------------------
(***************************************************************************)
(* Properties                                                              *)
(***************************************************************************)
\* Once initApplication has returned, every service of the server is published
\* by the server's own session, so that the late expiry of a predecessor on
\* the same address cannot withdraw it (unless its own session is lost).
RegisteredWhileReady ==
  \A a \in Apps : pc[a] = "ready" /\ ~lost[a] =>
    \A s \in Services : owner[Node(a, s)] = a

\* DestroyApplication stops announcing the address before it waits, stops or
\* shuts down, even if single calls to ZooKeeper fail: only a service whose
\* deletion failed is still announced then, and only if Close failed as well.
ShutdownIsUnannounced ==
  \A a \in Apps : pc[a] \in {"drain", "stop", "shutdown", "done"} =>
    \A n \in DOMAIN owner : owner[n] = a => unclosed[a] /\ n[2] \in undeleted[a]

\* The node of a service is made once, before any address below it, and
\* addresses come and go one at a time: what ZkClient takes for granted.
Members(s) == {h \in Addresses : owner[<<h, s>>] # None}

M(s) == INSTANCE Membership WITH
          Hosts <- Addresses, exists <- s \in made, members <- Members(s)

\* That is, \A s \in Services : M(s)!Spec, in the form TLC takes.
ServersKeepMembership ==
  /\ \A s \in Services : M(s)!Init
  /\ [][\A s \in Services : [M(s)!Next]_<<s \in made, Members(s)>>]_vars

\* DestroyApplication ends, even if the ticker is dead and clients stay.
DestroyTerminates ==
  \A a \in Apps : (pc[a] = "unregister") ~> (pc[a] \in {"done", "dead"})

-----------------------------------------------------------------------------
(***************************************************************************)
(* What the documentation says and the code does not do                    *)
(***************************************************************************)
\* README: once the service is published, a client can call it.
PublishedIsServed ==
  \A a \in Apps : Running(a) /\ (\E n \in DOMAIN owner : owner[n] = a) => Serving(a)

\* DestroyApplication: "look at Connections to make sure that there are none":
\* a wait that ends before its last check ends without connections.
DrainedBeforeStop ==
  [][\A a \in Apps :
       pc[a] = "drain" /\ pc'[a] = "stop" /\ checks[a] < DrainChecks => conns[a] = 0]_vars
=============================================================================
