------------------------------ MODULE Discovery ------------------------------
(***************************************************************************)
(* Servers and a client that finds them: Lifecycle composed with ZkClient. *)
(* The client watches one of the services; what the servers do to its      *)
(* nodes in ZooKeeper is what the client's model lets ZooKeeper do by      *)
(* itself.  The client's own calls and session do not fail here.           *)
(***************************************************************************)
EXTENDS Lifecycle, Sequences

CONSTANTS
  Watched,  \* the service the client looks for
  EventCap  \* the capacity of its event channel

ASSUME DiscoveryAssumption ==
  /\ Watched \in Services
  /\ Addresses \subseteq Nat \ {0} /\ IsFiniteSet(Addresses)
  /\ EventCap \in Nat \ {0}

VARIABLES
  armed, hostWatch, events,                 \* ZooKeeper, as of the client's session
  clientPc, event, clientTodo, pulled,      \* the client's two goroutines
  uri2Services,                             \* its cache
  seen, reached, clientLost, overlapped     \* history

client == <<armed, hostWatch, events, clientPc, event, clientTodo, pulled, uri2Services,
            seen, reached, clientLost, overlapped>>

\* The nodes of the watched service, as the servers leave them.
Exists == Watched \in made
Published == Members(Watched)
Node2Data == [h \in Addresses |-> IF h \in Published THEN "normal" ELSE "absent"]

Z == INSTANCE ZkClient WITH
  Hosts <- Addresses, Data <- {"normal"}, Faults <- {}, SessionPath <- FALSE,
  MaxChanges <- 0, changes <- 0, exists <- Exists, node <- Node2Data,
  pc <- clientPc, todo <- clientTodo, services <- pulled, lost <- clientLost

ClientInit ==
  /\ armed = FALSE /\ hostWatch = {} /\ events = <<>>
  /\ clientPc = [t \in Z!Thread |-> IF t = "new" THEN "start" ELSE "idle"]
  /\ event = Z!ChildEvent
  /\ clientTodo = [t \in Z!Thread |-> {}]
  /\ pulled = [t \in Z!Thread |-> Z!Nothing]
  /\ uri2Services = [k \in {} |-> Z!Nothing]
  /\ seen = {} /\ reached = FALSE /\ clientLost = FALSE /\ overlapped = FALSE

\* The client's share of a step of the servers.  There always is one:
\* ServersKeepMembership of Lifecycle.
Notify ==
  \/ Exists' = Exists /\ Published' = Published /\ UNCHANGED client
  \/ Z!MakeService
  \/ \E h \in Published' \ Published : Z!Register(h)
  \/ \E h \in Published \ Published' : Z!Unregister(h)

ServerMain(a) == Main(a) /\ Notify

\* The connections and the ticker of MoaStat, which touch no node, are left out.
ServerStep(a) ==
  \/ ServerMain(a)
  \/ (Start(a) \/ Destroy(a) \/ Crash(a) \/ Expire(a)) /\ Notify

ClientStep(A) == UNCHANGED vars /\ A

DiscoveryNext ==
  \/ \E a \in Apps : ServerStep(a)
  \/ ClientStep(Z!New) \/ ClientStep(Z!Listen)

DiscoverySpec == Init /\ ClientInit /\ [][DiscoveryNext]_<<vars, client>>

-----------------------------------------------------------------------------
(***************************************************************************)
(* Properties                                                              *)
(***************************************************************************)
DiscoveryTypeOK == TypeOK /\ Z!TypeOK

\* The client has heard of the service, and lost no watch and no event.
Connected == reached /\ ~clientLost /\ ~overlapped

Found == IF Z!Uri \in DOMAIN uri2Services THEN DOMAIN uri2Services[Z!Uri] ELSE {}

\* A client with nothing left to handle offers exactly the addresses whose
\* servers are published: every server that is ready and has its session, and
\* none that has died and lost its session or has shut down, unless it could
\* neither delete its node nor close its session.  (NodeChange's comparison is
\* exact for two addresses.)
FoundArePublished ==
  Z!Quiet /\ Connected =>
    /\ Found = Published
    /\ \A a \in Apps : pc[a] = "ready" /\ ~lost[a] => address[a] \in Found
    /\ \A a \in Apps : address[a] \in Found => \E b \in Apps :
         /\ address[b] = address[a] /\ pc[b] # "off"
         /\ pc[b] \in {"drain", "stop", "shutdown", "done"} =>
              unclosed[b] /\ Watched \in undeleted[b]
=============================================================================
