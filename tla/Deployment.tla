----------------------------- MODULE Deployment -----------------------------
(***************************************************************************)
(* From a configuration to a call: initApplication loads the options,      *)
(* binds, publishes the bundle and builds the table Invoke looks into      *)
(* (application.go, option.go, registry.go, proxy.go); a client process    *)
(* loads its options and looks services up, in ZooKeeper or in a file.     *)
(* Lifecycle has the same start-up in time, with crashes and neighbours;   *)
(* here it is about the data: which input leads where.                     *)
(***************************************************************************)
EXTENDS Options, Registry, ServiceTable, FiniteSets

CONSTANTS
  Parts,       \* what names are made of: strings without '#'
  Files,       \* configuration files
  Interfaces,  \* what net.Interfaces may return
  Bundles,     \* the services of the application
  LocalFiles,  \* the contents of the yaml file of a FileRegistry
  Uris, Groups, Words  \* what clients ask for

\* A name has at least one part; of a service's interface and instance only
\* what NewInvocationHandler looks at is kept.
Name == Seq(Parts) \ {<<>>}
Method == [name : [word : STRING, case : STRING], outs : Seq(STRING)]
Service == [uri : Name, gid : Name, implements : BOOLEAN, methods : Seq(Method)]

\* An entry of the yaml file, and an address of a network interface.
LocalService ==
  [uri : Name, gid : Name, proto : STRING, isPre : BOOLEAN, hostPorts : SUBSET STRING]
Address == [ip : STRING \ {AnyAddress}, kind : {"v4", "v6", "loopback"}]

ASSUME DeploymentAssumption ==
  /\ "*" \in Parts
  /\ \A f \in Files : IsFile(f)
  /\ Interfaces \subseteq Seq(Seq(Address))
  /\ Bundles \subseteq Seq(Service)
  /\ LocalFiles \subseteq Seq(LocalService)
  /\ Uris \subseteq Name /\ Groups \subseteq Name

VARIABLES
  stage,      \* where the process is
  file,       \* the configuration file it reads
  interfaces, \* the network interfaces it sees
  option,     \* its Option
  services,   \* its bundle, groups defaulted
  published,  \* the address nodes below the services' nodes
  locals,     \* the entries of the yaml file a client reads
  instances,  \* InvocationHandler.instances
  uri2Services, \* the client's FileRegistry
  request     \* what a client asks for, and what it gets

vars == <<stage, file, interfaces, option, services, published, locals, instances,
          uri2Services, request>>

NoFile == [state |-> "none"]
NoTable == [u \in {} |-> u]
NoRequest == [kind |-> "none"]

Stage == {"start", "loaded", "bound", "published", "serving", "client", "opened", "panicked"}

TypeOK ==
  /\ stage \in Stage
  /\ file \in Files \cup {NoFile}
  /\ interfaces \in Interfaces \cup {<<>>}
  /\ \A name \in DOMAIN option.Clusters :
       \A f \in DOMAIN SizeDefault \cup {"WorkerPoolSize", "FutureSize"} :
         option.Clusters[name][f] \in 1..MaxInt
  /\ \A i \in DOMAIN services : services[i].gid # Empty
  /\ \A n \in published : n.key \in Name /\ n.meta.proto = PROTOCOL
  /\ \A u \in DOMAIN instances : instances[u].invokesPerClient \in BOOLEAN
  /\ \A k \in DOMAIN uri2Services : uri2Services[k] # {}
  /\ locals \in LocalFiles \cup {<<>>}
  /\ request.kind \in {"none", "zk", "file"}

Init ==
  /\ stage = "start"
  /\ file = NoFile /\ interfaces = <<>> /\ option = NoOption
  /\ services = <<>> /\ published = {} /\ locals = <<>>
  /\ instances = NoTable /\ uri2Services = NoTable /\ request = NoRequest

Panic ==
  /\ stage' = "panicked"
  /\ UNCHANGED <<file, interfaces, option, services, published, locals, instances,
                 uri2Services, request>>

-----------------------------------------------------------------------------
(***************************************************************************)
(* Options                                                                 *)
(***************************************************************************)
Load ==
  /\ stage = "start"
  /\ \E f \in Files :
       /\ file' = f
       /\ option' = LoadConfiguration(f).option
       /\ stage' = IF LoadConfiguration(f).err THEN "panicked" ELSE "loaded"
  /\ UNCHANGED <<interfaces, services, published, locals, instances, uri2Services, request>>

\* net.Interfaces may fail, which panics too.
BindServer ==
  /\ stage = "loaded"
  /\ \/ Panic
     \/ /\ ~ServerPanics(option)
        /\ stage' = "bound"
        /\ interfaces' \in Interfaces
        /\ option' = InitServerOption(option, interfaces')
        /\ UNCHANGED <<file, services, published, locals, instances, uri2Services, request>>

StartClient ==
  /\ stage = "loaded"
  /\ \/ ClientPanics(option) /\ Panic
     \/ /\ ~ClientPanics(option)
        /\ stage' = "client"
        /\ option' = InitClientOption(option)
        /\ UNCHANGED <<file, interfaces, services, published, locals, instances,
                       uri2Services, request>>

-----------------------------------------------------------------------------
(***************************************************************************)
(* The server: publish, then build the table                               *)
(***************************************************************************)
\* mutant: a service without group keeps none
NoDefaultGroup(s) == s

DefaultGroup(s) == IF s.gid = Empty THEN [s EXCEPT !.gid = ALL_GROUP] ELSE s

ServerCluster == option.Clusters[option.Server.RunMode]

AddressNode(s) ==
  [key |-> BuildServiceUri(s.uri, s.gid),
   meta |-> [uri |-> s.uri, gid |-> s.gid, hostPort |-> option.Server.BindAddress,
             isPre |-> option.Server.IsPre, proto |-> PROTOCOL]]

\* The groups are defaulted and NewConfigCenter publishes: in ZooKeeper,
\* nowhere (FileRegistry), or with a nil registry, whose first use panics.
Publish ==
  /\ stage = "bound"
  /\ \E bundle \in Bundles :
       /\ services' = [i \in DOMAIN bundle |-> DefaultGroup(bundle[i])]
       /\ stage' = IF ServerCluster.Registry \notin {"zk", "file"} /\ bundle # <<>>
                   THEN "panicked" ELSE "published"
       /\ published' = IF ServerCluster.Registry = "zk"
                       THEN {AddressNode(services'[i]) : i \in DOMAIN bundle} ELSE {}
  /\ file' = NoFile /\ interfaces' = <<>>
  /\ UNCHANGED <<option, locals, instances, uri2Services, request>>

\* NewMoaStat takes the first service's uri; NewInvocationHandler.
Assemble ==
  /\ stage = "published"
  /\ \/ (services = <<>> \/ NewInvocationHandlerPanics(services)) /\ Panic
     \/ /\ services # <<>> /\ ~NewInvocationHandlerPanics(services)
        /\ stage' = "serving"
        /\ instances' = Instances(services)
        /\ UNCHANGED <<file, interfaces, option, services, published, locals,
                       uri2Services, request>>

\* The timer reads InvokesPerClient of every instance; a nil map panics.
TimerTurn ==
  /\ stage = "serving"
  /\ \E u \in DOMAIN instances : ~instances[u].invokesPerClient
  /\ Panic

-----------------------------------------------------------------------------
(***************************************************************************)
(* Clients                                                                 *)
(***************************************************************************)
\* NewFileRegistry of a client; a file that is missing or no yaml panics.
OpenFile ==
  /\ stage = "client"
  /\ option.Clusters[option.Client.RunMode].Registry = "file"
  /\ \/ Panic
     \/ /\ locals' \in LocalFiles
        /\ uri2Services' = NewFileRegistry(locals')
        /\ stage' = "opened"
        /\ file' = NoFile
        /\ UNCHANGED <<interfaces, option, services, published, instances, request>>

LookupFile ==
  /\ stage = "opened"
  /\ \E uri \in Uris, gid \in Groups :
       request' = [kind |-> "file", uri |-> uri, gid |-> gid,
                   found |-> GetFileService(uri2Services, uri, PROTOCOL, gid)]
  /\ UNCHANGED <<stage, file, interfaces, option, services, published, locals,
                 instances, uri2Services>>

\* Invoke looks the uri up, then the method's name in lower case.
Reached(uri, word) ==
  IF uri \notin DOMAIN instances THEN [code |-> "SERVICE_NOT_FOUND"]
  ELSE IF word \notin DOMAIN instances[uri].methods THEN [code |-> "METHOD_NOT_FOUND"]
  ELSE [code |-> "SUCC", gid |-> instances[uri].gid,
        name |-> instances[uri].methods[word].name]

\* A client that finds this server for a uri and a group, with its registry
\* up to date, calls a method of it: the frame carries the uri and the name.
LookupAndCall ==
  /\ stage = "serving"
  /\ \E uri \in Uris, gid \in Groups, word \in Words :
       /\ \E n \in published : n.key = BuildServiceUri(uri, gid)
       /\ request' = [kind |-> "zk", uri |-> uri, gid |-> gid, word |-> word,
                      legacy |-> UnwrapServiceUri(BuildServiceUri(uri, gid)),
                      reached |-> Reached(uri, word)]
  /\ UNCHANGED <<stage, file, interfaces, option, services, published, locals,
                 instances, uri2Services>>

Next ==
  \/ Load \/ BindServer \/ Publish \/ Assemble \/ TimerTurn
  \/ StartClient \/ OpenFile \/ LookupFile \/ LookupAndCall

Spec == Init /\ [][Next]_vars

-----------------------------------------------------------------------------
(***************************************************************************)
(* Properties                                                              *)
(***************************************************************************)
\* A process gets past its options only with those of a file it has read: the
\* read error that LoadConfiguration swallows, a run mode without cluster and an
\* address without port end in a panic before anything is published.
OnlyValidFilesGetOn ==
  stage \in {"bound", "client"} =>
    /\ file.state = "toml"
    /\ LET mode == IF stage = "bound" THEN file.option.Server.RunMode
                   ELSE file.option.Client.RunMode
       IN  mode \in DOMAIN file.option.Clusters
    /\ stage = "bound" => file.option.Server.BindAddress.port

\* The timeouts in force are the configured seconds, or the defaults, as long
\* as the nanoseconds fit into 64 bits; none of them is zero then.
TimeoutsInForce ==
  stage = "bound" =>
    LET given == file.option.Clusters[option.Server.RunMode]
        meant(n, default) == (IF n <= 0 THEN default ELSE n) * Second
    IN  /\ meant(given.ProcessTimeout, 5) <= MaxInt =>
             ServerCluster.ProcessTimeout = meant(given.ProcessTimeout, 5)
        /\ meant(given.IdleTimeout, 300) <= MaxInt =>
             ServerCluster.IdleTimeout = meant(given.IdleTimeout, 300)

\* The IPv4 addresses of a set of interfaces, loopback left out.
Own(inters) == {a.ip : a \in {b \in UNION {Range(inter) : inter \in inters} : IPv4(b)}}

\* Without a pattern every address is bound.  With one, and an IPv4 address other
\* than loopback that matches it, the address bound matches.  It is never
\* loopback, whatever the pattern matches, nor that of another machine.  What
\* is bound if nothing matches stays open between the machine's addresses and
\* any: there option.go:199 says any, and the code prefers the machine's.
BindsReachably ==
  stage = "bound" =>
    LET bind == file.option.Server.BindAddress
        ip == option.Server.BindAddress
        all == Own(Range(interfaces))
    IN  /\ ip \in all \cup {AnyAddress}
        /\ ~bind.given => ip = AnyAddress
        /\ bind.given /\ all \cap bind.matches # {} => ip \in bind.matches

\* Names without '#', as the documentation writes them.
Plain(uri) == Len(uri) = 1

SameGroup(g, h) == g = h \/ {g, h} \subseteq {Empty, ALL_GROUP}

\* A client of a FileRegistry gets the hosts of all entries of its service,
\* group and protocol, and of no other, however the entries are spread.
FileLookupExact ==
  request.kind = "file" /\ (\A s \in Range(locals) : Plain(s.uri)) /\ Plain(request.uri) =>
    {m.hostPort : m \in request.found} =
      UNION {s.hostPorts : s \in
               {t \in Range(locals) : /\ t.uri = request.uri
                                         /\ SameGroup(t.gid, request.gid)
                                         /\ t.proto \in {"", PROTOCOL}}}

DistinctUris ==
  \A i, j \in DOMAIN services : services[i].uri = services[j].uri => i = j

\* What a client finds under a uri and a group is served there: its call
\* reaches the service published under both, and a method of that name up to
\* the case of letters if it has one.  (For a bundle whose uris are distinct:
\* the table has no groups.)
FoundIsServed ==
  request.kind = "zk" /\ DistinctUris /\ Plain(request.uri)
    /\ (\A s \in Range(services) : Plain(s.uri)) =>
    LET s == CHOOSE t \in Range(services) :
               t.uri = request.uri /\ SameGroup(t.gid, request.gid)
    IN  /\ \E t \in Range(services) :
             t.uri = request.uri /\ SameGroup(t.gid, request.gid)
        /\ request.legacy = <<s.uri, s.gid>>
        /\ IF \E m \in Range(s.methods) : m.name.word = request.word
           THEN /\ request.reached.code = "SUCC"
                /\ request.reached.gid = s.gid
                /\ request.reached.name.word = request.word
           ELSE request.reached.code = "METHOD_NOT_FOUND"

\* A server that has started does not die of its own timer, as long as each of
\* its interfaces has a method.
TimerFindsTheTables ==
  [][stage = "serving" /\ stage' = "panicked" =>
       \E s \in Range(services) : s.methods = <<>>]_vars
=============================================================================
