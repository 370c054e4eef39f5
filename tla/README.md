# A TLA+ model of go-moa

go-moa is a server framework for the MOA protocol: JSON calls in a binary frame
(turbo), dispatched to Go methods by reflection, with the services published in
ZooKeeper or listed in a file. This directory models its request path, its
statistics, its use of ZooKeeper on both sides and both sides together, its
start-up and shutdown, its options and tables, and the properties a call carries.
TLC checks the models on small instances; TLAPS proves most of the safety
properties, and the refinements, for all instances.

## The system

| component | code | state | operations | hard behaviours |
|---|---|---|---|---|
| codec | `moa_codec.go` 12-191, `code_enum.go` | none | `UnmarshalPayload`, `MarshalPayload` | failures inside a direction nobody answers for |
| dispatcher | `application.go` 252-325 | none of its own; reads `options`, `invokeHandler`, `moaStat` | `dis` | runs per frame in turbo's goroutines; silent drops; panics swallowed |
| invoke pool | turbo (external) | running and queued tasks | `Queue` | capacity, tasks whose context is done |
| invocation | `proxy.go` 138-338 | per call: `now`, `resp` | `Invoke`, `invoke` | recovery after a verdict, late answers, failed writes |
| request statistics | `stat.go` | four flows, `preMoaInfo` | `IncrX`, the ticker, `Destroy` | counted from concurrent calls on many paths; stale samples |
| statistics by client | `proxy.go` 108-133, 234-257; `application.go` 195-221 | `InvokesPerClient`, nested `sync.Map` | count, list, prune | racing creation, pruning by an old list |
| service table | `proxy.go` 50-105 | `instances` | `NewInvocationHandler` | panics on interfaces it rejects, keys that collide |
| ZooKeeper, client | `registry_zk.go` 29-93, 156-234; `zk.go` 90-155 | `uri2Services`, watches, the event channel | `NewZkRegistry`, `listenEvent`, `NodeChange`, `PullChildrenData`, `GetService` | one-shot watches, reads in several calls, two goroutines, session expiry |
| ZooKeeper, server | `registry_zk.go` 95-154; `zk.go` 41-88; `registry.go` 20-85 | ephemeral nodes of the session | `RegisteService`, `UnRegisteService`, `CreateNode` | crash and restart, check-then-create |
| start-up, shutdown | `application.go` 65-249 | the fields of `Application` | `initApplication`, `DestroyApplication` | published before it serves, waits on a sample |
| file registry, uris | `registry_file.go`, `registry.go` 107-122 | a map filled once | `GetService`, `BuildServiceUri` | none: sequential |
| options | `option.go` | none | `LoadConfiguration`, `InitServerOption` | overflow, which address wins |
| context properties | `moa_codec.go` 193-275 | a map in the context | attach, detach, span | one map shared by many goroutines |
| HTTP endpoints | `application.go` 328-425 | none | `ServeHTTP` | none: reads only |

How they interact: turbo hands each frame, decoded by the codec, to `dis`. `dis`
answers PING and INFO itself and queues a call in the invoke pool with a context
that ends after `ProcessTimeout`, or with the application. `Invoke` resolves the
call in the service table, counts it under its client, calls the method, counts
the verdict in `MoaStat` and hands the response to a callback, which writes it to
the client. Beside this run the ticker of `MoaStat`, the pruning timer, and
`listenEvent` of the ZooKeeper manager. Servers publish themselves as ephemeral
nodes below the service's node; clients watch that node.

## Modules

| module | models | kind |
|---|---|---|
| `MoaProtocol` | commands, codes, what decoding and encoding do to a packet | vocabulary |
| `MoaRpc` | the promise: a frame is received, executed at most once, settled once | abstract specification |
| `MoaServer` | `dis`, the pool, `Invoke`, the flows of `MoaStat` | detailed specification, implements `MoaRpc` |
| `MoaServer_proofs`, `MoaServer_refines` | theorems about it | TLAPS |
| `Membership` | the promise: a service's node appears once, addresses below it come and go one at a time | abstract specification |
| `Lifecycle` | `initApplication`, the ticker, `DestroyApplication`, registration, crashes | specification, implements `Membership` for every service |
| `Lifecycle_proofs` | theorems about it | TLAPS |
| `ZkClient` | the client's registry for one service uri, and ZooKeeper as it sees it | specification |
| `ZkClient_proofs` | theorems about it | TLAPS |
| `Discovery` | `Lifecycle` and `ZkClient` together: servers, and a client that finds them | composition, implements `ZkClient` |
| `Discovery_proofs` | that it does | TLAPS |
| `InvokeCounters` | `InvokesPerClient` and the pruning timer | specification |
| `InvokeCounters_proofs` | theorems about it | TLAPS |
| `MoaContext` | the property maps that the goroutines of a call share | specification |
| `MoaContext_proofs` | theorems about it | TLAPS |
| `Options`, `Registry`, `ServiceTable` | `option.go`; uris and the file registry; `NewInvocationHandler` | operators |
| `Deployment` | which configuration, bundle and file lead where | specification over those three |
| `Deployment_proofs` | theorems about it and about names | TLAPS |
| `MC*` | instances of the specifications for TLC | model checking |

**MoaServer.** `stage[r]` is where the server is with frame `r`. `Decode` is
`UnmarshalPayload`; the seven `Dis...` actions are the branches of `dis`; `Begin`
is the head of `Invoke` (IncrRecv, `now`); `Refuse` is the four ways a call is
refused before the method runs; `CallMethod`, `Return` and `Panic` are `invoke`
and what follows it; `Deferred` is the deferred function up to its look at the cost,
`Answer` the callback after it. Each step is one section
of the code without an interleaving another goroutine could observe: what the
goroutines share is the flows (atomic), the pool and the clock. Looking at the clock and
acting on it are two steps, between which any time may pass: `DisAdmit` finds a call young
enough (application.go:278), `DisQueue` starts the context's own clock (283);
`Deferred` finds the cost low enough (proxy.go:192), `Answer` writes (212). Nothing
therefore bounds the age of an answer from above, and no property claims a bound;
`SilenceIsJustified` is the other direction, that no call is given up too early.
The clock counts milliseconds, to which `CreateTime` is cut. `Client.Pong` of turbo, which `dis` calls for
a PING before it writes the PONG, is taken to record the heartbeat and write nothing;
turbo's source is not part of the repository. `unsent` is a history variable: a write has failed. A call is
abstracted to how `Invoke` resolves it (`Call`), a method to what it can come back
with (`Outcome`). Arguments, names, spans and logging are left out. Failing
writes are the second disjunct of `Write`. A struct-typed error (`structError`)
is what makes `IsNil` panic after `IncrProc`.

**ZkClient.** Hosts are numbers in string order, because `sort.Strings` decides
which one the comparison of `NodeChange` looks at. `NewChildrenW`, `GetW` and
`NewStore` are the constructor, `TakeEvent`, `OnChildrenW`, `OnDeleted`,
`OnSessionExpired`, `NodeChange`, `GetW` and `ListenStore` the listener; every
ZooKeeper call is a step of its own, so that servers come and go between the
calls. ZooKeeper is external: watches fire once, reading and arming is atomic,
events arrive in order, in a channel of `EventCap`. The node of a host that was
read with `GetW` is watched too; the events of those watches go through
`NodeChange` like the others and fill `uri2Services` with keys nobody asks for.
`seen`, `reached`, `lost` and `overlapped` are history variables, read by no action's
guard; they only say which histories a property is about. `MakeService` is the first
server of a service; until then `ChildrenW` fails. `SessionPath` says whether a session event
finds a watcher; in the code it does not. `MaxChanges` bounds what ZooKeeper
does by itself, and 0 stands for no bound.

**InvokeCounters.** Every `Load`, `LoadOrStore`, `Range`, `Delete` of a `sync.Map`
and every `Incr` is a step (`Range` is the action `Scan`). A map or a flow carries the name of the call that
allocated it, so that two allocations for one key can be told apart.
`Scan` works on one snapshot of the table; a `sync.Map` guarantees less when
others store meanwhile, but a client stored during the scan whose entry the scan
reaches is a client of the snapshot taken after the store.

**Lifecycle.** `round` is which of the two `RegisteAllServices` calls the process
is in (`registry.go:36`, `application.go:192`): between them it starts to listen
and gets its handler. Each ZooKeeper call is a step. The address node belongs to
the process whose session created it (`owner`); `Released` is the end of a session.
Every call to ZooKeeper may fail: a deletion (`undeleted`), and the `Close` of the session as well
(`unclosed`), after which the nodes stay until ZooKeeper times the session out (`Expire`).
`Start` requires that no other process runs on the address: a process that is
started on an address in use is out of the model (see the hazards). A panic of the
start-up sequence is a `Crash`, except for the two that depend on ZooKeeper's
state, which are disjuncts of `MakeService` and `CreateAddress`.

**Discovery.** The variables are those of `Lifecycle` and the client's of `ZkClient`,
which is instantiated with the nodes the servers leave (`Exists`, `Node2Data`) in the
place of its own. A server's step is one of `Lifecycle` together with what the
client sees of it (`Notify`): nothing, the service's node, or one address more or
less, fired at the client's watches. That there always is such a share is
`ServersKeepMembership`, checked by `life_safety` and proved (`MembershipKept`): without it
the composition would silently forbid steps of the servers. Left out are the
connections and the ticker, which touch no node, and faults of the client's own,
which `ZkClient` has.

**MoaContext.** A map is named after what allocated it; a context is the map it
holds, and a map is the set of its keys. `Enter` is `dis` putting the request's map
into the context, over the application's; `Trace` is the head of `Invoke`, before it
has deferred its recovery; then the method and one goroutine it starts attach,
detach and finish. A write takes two steps, and the runtime stops the process when
a second one begins on the same map. (Go also stops it when it notices a read
during a write; a read is not a step here, and such races are on the same maps.)

**Deployment.** `Options`, `Registry` and `ServiceTable` are the code's functions, as
operators without state. `Deployment` runs them in the order of `initApplication` (and of
a client's start) on inputs chosen at each step, and records what a client that looks
a service up and calls it meets. A bind address is the set of the machine's
addresses its pattern matches, a name the sequence of its parts between `#` signs, a
method's name a word and its case. The host:port pairs of an entry of the yaml file are a
set, and the loop of `NewFileRegistry` over the entries a recursive function of their number
(`Added` is one turn). `Lifecycle` has the same start-up in time, with
neighbours and crashes; the two share no variable.

## Runs

| run | expect | shows |
|---|---|---|
| `server_live` | pass | `TypeOK`, `AtMostOneReply`, `SuccessIsGenuine`, `CountersExact`, `SilenceIsJustified`, `EveryFrameSettles`, `ImplementsRpc`: two frames of every kind, one worker |
| `server_timeouts` | violation | `TimeoutsAreCounted`: nothing counts a timeout |
| `zk_safety` | pass | `TypeOK`, `NothingMissed`, `QuietCacheAgrees`, `CacheConverges`: three hosts, all faults |
| `zk_exact` | violation | `QuietCacheIsExact`: a stale host stays in the cache |
| `zk_expiry` | violation | `WatchIsRearmed`: nobody subscribes again after an expired session |
| `counters_safety` | pass | `TypeOK`, `CountsExact`, `NeverOvercounted`, `OrphansArePruned`: three racing calls |
| `life_safety` | pass | `TypeOK`, `RegisteredWhileReady`, `ShutdownIsUnannounced`, `ServersKeepMembership`, `DestroyTerminates` |
| `life_published` | violation | `PublishedIsServed`: published before it listens and has a handler |
| `life_drained` | violation | `DrainedBeforeStop`: stopped with clients connected |
| `discovery` | pass | `DiscoveryTypeOK`, `FoundArePublished`: what a client offers is what the servers published |
| `deploy` | pass | `TypeOK`, `OnlyValidFilesGetOn`, `TimeoutsInForce`, `BindsReachably`, `FileLookupExact`, `FoundIsServed`, `TimerFindsTheTables` |
| `context` | pass | `RacesAreHomemade`, `OnlyGoroutinesCrash`, `RequestPropertiesStay` |

### Bounds, and why they are enough

* `server_live`: `SomeFrames` has every kind of frame `dis` and `Invoke` tell apart, of the four
  refusals before the method, which differ in their code only, two; with
  `PoolSize` 1 the second call waits for the first. Every look at the clock compares it
  with one stamp and one timeout, so a timeout of one tick that may pass between any
  two steps (`MaxClock` 1) lets a frame expire in `dis`, in the queue or in `Invoke`, or
  in none of them. The safety properties, `SilenceIsJustified` among them, are proved for
  every timeout and any number of frames and workers.
* `zk_safety`: three hosts are the fewest for which two lists of equal length and
  equal last host differ. `MaxChanges` 3 lets ZooKeeper change during the first read, the
  pull and the comparison; `EventCap` 3 overflows. `CacheConverges` is about the
  histories in which nothing was lost. `SessionPath` is TRUE here, unlike the code, only so that
  `OnSessionExpired` runs; that changes nothing, for an expired session sets `lost` and the
  properties say nothing of such histories. `zk_expiry` has the code's FALSE.
* `counters_safety`: three calls of up to two clients and two methods, up to a
  renaming of them: two race, and a third runs after a pruning that the first does
  not know of.
* `life_safety`: two processes, whose addresses `Init` chooses, so they are neighbours
  or successors; the first is on address 1, for the addresses are interchangeable. Two
  services make the loops stop half-way. `DrainChecks` is 1 instead of 9, which keeps both
  exits of the loop; `MaxConns` 1 tells "some" from "none", and clients connect to the first
  process only (`ClientsOfFirst`), since what one process's clients do touches nothing of the other. `life_drained` uses the 9 of
  the code.
* `discovery`: two processes on one address or two. One of them may crash, stop and lose its
  session once dead, before or after the other has started on the same address or on
  its own (`OneStays`); none loses its session while it runs and none fails a call,
  `Close` included (`Faults = {}`; `life_safety` has those). For any number that leave and all faults,
  `FoundCorrect` is proved. `EventCap` 6 loses nothing. The first process takes address 1: before the client reads them the addresses are alike, and only
  their order matters, which the other choices of the second process cover. With two
  addresses the comparison of `NodeChange` is exact, which is why the property can say
  "exactly".
* `deploy`: `MaxInt` stands for 2^63 - 1 and is small enough for the largest configured
  timeout to overflow. The inputs have missing, malformed and unreadable files, run
  modes without cluster, zero and negative values, up to two interfaces of up to two
  addresses, bundles and files of up to two entries with equal and different names.
* `context`: two calls, for sharing between calls, each with one goroutine, for races
  within a call; one key besides the tracer's.

Deadlock is not checked where the modelled system may stop: frames and clock run
out (`MCMoaServer`), ZooKeeper stops changing (`MCZkClient`), processes end
(`MCLifecycle`, `MCDiscovery`), a start-up ends in a panic (`MCDeployment`), calls finish or the
process dies (`MCMoaContext`). No run uses a symmetry set.

### Fairness

* `MoaServer!FairSpec`: each frame's handler goes on (`WF`, the Go scheduler), and
  a waiting task gets a worker or is dropped when workers become free again and
  again (`SF`, the queue is served in turn). That methods return or panic is an
  assumption about the application: a method that hangs keeps its worker for good.
* `ZkClient!FairSpec`: the constructor and the listener go on, and ZooKeeper answers
  or fails a call. Nothing is assumed of ZooKeeper's changes.
* `InvokeCounters!FairSpec`: invocations go on and the timer fires again (`RepeatedTimer`).
* `Lifecycle!FairSpec`: main goroutines go on, which assumes that a call to ZooKeeper returns, with
  success or with an error: a connection that hangs for ever would hang `DestroyApplication`
  too. Nothing is assumed of the ticker or of clients: `DestroyTerminates` holds with a
  dead ticker and with clients that stay.
* `Discovery`, `Deployment` and `MoaContext` have no liveness properties and state no
  fairness: the first is too big for TLC to check one, the others end where they end.

## Proofs

All are checked by TLAPS for every value of the constants that the modules' named
assumptions admit: any finite set of frames, hosts, calls or services, any set of processes,
positive timeouts and capacities, any bundles.

* `MoaServer_proofs`
  * `TypeCorrect`: `Spec => []TypeOK`.
  * `RepliesCorrect`: `AtMostOneReply` and `SuccessIsGenuine`. They are not
    inductive; `VerdictInv` adds how `stage`, `outcome`, `resp` and `wire` go
    together: nothing is written before `settled`, `resp` is 0 until the verdict, a
    code 200 in `resp` of a call that is not crashed goes with a result.
    `SuccessCorrect` states the second of them by itself.
  * `CountersCorrect`: `CountersExact`. The three sets of `CountersExact` grow by
    exactly the frame whose step increments the flow; `VerdictInv` says that the frame
    was not in the set before.
  * `SilenceCorrect`: `SilenceIsJustified`. `TimeInv` adds that the context of the task and
    `now` are stamped no earlier than the decoding, so that whichever clock has run out,
    the call is a timeout old; `WriteSpeaks`, that a step that writes leaves a packet or a
    failure behind.
* `MoaServer_refines`
  * `ServerImplementsRpc`: `Spec => Rpc!Spec`, action by action: `Decode` is
    `Receive`, `CallMethod` is `Execute`, the steps to `settled` are `Settle`, and the
    rest are stutters. The fairness of `MoaRpc` is checked by `server_live` only.
* `Lifecycle_proofs`
  * `TypeCorrect`: `TypeOK`, with `Looping`: a process inside a loop over services has
    one to work on.
  * `ReadyIsRegistered`: `RegisteredWhileReady`. `OwnInv` adds that two processes do not
    run on one address (`Exclusive`), that a process owns the nodes its loop is done
    with, in the middle of a round too (`Owned`), and that it is done with all of them
    when it is ready (`ReadyDone`). `StepEffect` says once for all actions which
    nodes a step of a process can take or leave; the interference of the others,
    a predecessor's expiring session in particular, is argued from it alone.
  * `WithdrawnBeforeDrain`: `ShutdownIsUnannounced`, whichever calls fail. `Withdrawing` says of
    each node a process still owns how far its shutdown is (`Remains`): while it
    unregisters, the service is to come or its deletion has failed; before `Close`, its deletion has failed;
    afterwards, `Close` has failed as well. Nothing registers after that.
  * `MembershipKept`: `ServersKeepMembership`. `MemberInv` adds that a node is at its
    owner's address, below a service that was made (`OwnNodes`, `NodesBelow`), and that a
    process reaches the deletion and the creation only after that (`MadeFirst`).
* `ZkClient_proofs`
  * `TypeCorrect`: `Spec => []TypeOK`.
  * `WatchCorrect`: `NothingMissed`. The strengthening `WatchInv` says that after the first
    read, and before any loss, the watch is armed and `seen` is current, or the
    event is on its way. It holds for every number of hosts and channel
    capacity, and with all faults, up to the first one that loses a watch or an event.
  * `CacheCorrect`: `QuietCacheAgrees`. `CacheInv` adds where the list that was read last
    is: in the listener's hands, or else in `NewZkRegistry`'s, or else in the cache, up
    to what the comparison of `NodeChange` tells apart.
  * `TwoHostsAreExact`: `QuietCacheIsExact`, which `zk_exact` refutes for three hosts, holds for
    one or two: there two lists of one length and one last host are equal
    (`SameShapeIsSame`), so that three is where the comparison first fails.
* `Discovery_proofs`
  * `ClientAsAlone`: `DiscoverySpec => Z!Spec`, the composition implements `ZkClient`: what the
    servers do to the nodes of the watched service is what the client's model
    lets ZooKeeper do. `ServersAsAlone` is the other half, and `FoundServersBehave`
    carries two properties of `Lifecycle` over.
  * `DiscoveryTypeCorrect`, `ClientFindsAsMany`: `DiscoveryTypeOK`, and `QuietCacheAgrees` of the client in
    the composition. Both are the theorems of `ZkClient_proofs`, instantiated with the
    nodes the servers leave (`SameClient`).
  * `FoundCorrect`: `FoundArePublished` on at most two addresses, for any number of processes
    that start, crash and stop there: the length and the last host are those of the
    published nodes, hence the nodes are; who owns one runs at its address (`OwnNodes`) and has
    not withdrawn, unless deletion and `Close` both failed (`Withdrawing`), and who is ready owns all of its own.
* `InvokeCounters_proofs`
  * `TypeCorrect`, `NoOvercount`, `ReportExact`. `Shape` says of which call a map or a
    counter is, and that a call of a client never pruned works on the map in the
    table; `CountsCredited`, that a counter is the number of the calls that are done
    with it. From the two, the reported sum is a sum over disjoint sets of calls.
* `MoaContext_proofs`
  * `TypeCorrect`, `RacesOnlyWithin`, `CrashesOnlyOfGoroutines`, `PropertiesStay`, from one invariant,
    `Goal`: a goroutine works with a map of its own request or with one made by a goroutine
    of its call (`OwnMap`), writes only that one (`WritesOwn`), and the method keeps the
    request's (`RequestMaps`).
* `Deployment_proofs`
  * `NodesDistinct`: two plain names with different uris or groups get different nodes.
    `NamesLeadBack`: `UnwrapServiceUri` undoes `BuildServiceUri` for plain uris.
  * `FoundServed`: `FoundIsServed`. `BundleInv` says that the nodes are those of the bundle
    and the table is made from it; `NodesDistinct` finds the service whose node it is,
    `TableHasServices` and `TableHasMethods` its entry and the method's, the latter because of
    several entries of one name there is a last one (`GreatestExists`).
  * `TimerLives`: `TimerFindsTheTables`, for bundles with equal uris too.
  * `OptionsValid`, `TimeoutsCorrect`, `BindsCorrect`: `OnlyValidFilesGetOn`, `TimeoutsInForce`, `BindsReachably`. `OptionInv`
    says at each stage which file the option in force was made of and by which
    functions; the rest is about those: `EmptyOptionPanics`, `Fits` (64-bit arithmetic is
    arithmetic while it fits) and `ChoiceIsWanted` (the two loops over the interfaces
    end with a wanted address if there is one).
  * `FileLookupCorrect`: `FileLookupExact`. `RegistryIsRight` says what the loop of `NewFileRegistry` has
    made of the first `n` entries; it is an induction without the library's induction
    theorem: of the prefixes for which it holds, the longest (`GreatestExists`) is the whole file,
    since `AddedIsRight` makes it one longer. `TablesExist` shows in the same way that the
    recursive function is defined. `SameKey` then separates the services.
  * `DeploymentTypes`: `TypeOK`, in four parts (`StageOK`, `SizesOK`, `PublishedOK`, `TablesOK`), with
    `BundleInv` and `OptionInv`.

  Assumed of the inputs (`DeploymentAssumption`, `OptionsAssumption`): a file's option has the fields
  of `Option` and its numbers fit into 64 bits, one second and the greatest default do so too, and no
  interface has the address 0.0.0.0.

Only model-checked: the liveness properties (`EveryFrameSettles` and the fairness of
`ImplementsRpc`, `CacheConverges`, `OrphansArePruned`, `DestroyTerminates`), which are out of what
TLAPS proves here. Only proved: type correctness of `MoaContext`. Every invariant and every action property of a passing run is a
theorem, `FoundArePublished` for at most two addresses (for more hosts `zk_exact` shows why not).

## Where the code and its documentation disagree

The five violation runs show the following.

1. `TimeoutsAreCounted`: README.md:135 documents the statistic `timeout`; `IncrTimeout`
   (stat.go:233) has no caller, and the three drops count nothing.
2. `QuietCacheIsExact`: registry_zk.go:213-219 compares the last index only. With hosts
   {1, 3} cached, replacing 1 by 2 leaves 1 in the cache until the number of hosts
   or the last host changes.
3. `WatchIsRearmed`: zk.go:113 looks for the watcher of the event's path, and session
   events have none; `OnSessionExpired` (registry_zk.go:170) is unreachable.
4. `PublishedIsServed`: registry.go:36 publishes before application.go:157 listens and
   application.go:172 sets the handler.
5. `DrainedBeforeStop`: application.go:235 reads a sample up to a second old, 0 before
   the first tick.

Other divergences that the models contain, without a run of their own:

* INFO is answered with an empty body (`MarshalPayload` has no branch for it,
  moa_codec.go:95), though application.go:316 says the server's information is returned.
* A `(value, error)` method that returns an error counts as processed (proxy.go:303).
* A method whose error type is a struct counts as processed and as failed
  (proxy.go:307); `CountersExact` accounts for it through `ProcessedCalls`.
* The pull of `NewZkRegistry` can overwrite what the listener stored
  (registry_zk.go:56); `overlapped` sets such histories apart.
* A client that starts before its service's node exists never finds the service
  (registry_zk.go:50); `reached` sets such histories apart.
* A failing `ChildrenW` in `listenEvent` (zk.go:145) loses the watch for good; `lost`.
* A failing `GetW`, or a node re-created with other data, leaves wrong meta in the
  cache (registry_zk.go:79, 215).
* The timer prunes a client that connected after the list was taken
  (application.go:204-218); `pruned` sets such clients apart.
* README.md:8 says that groups isolate environments, but proxy.go:99 keys the table
  Invoke looks into by uri alone: of two services of one uri and different groups in one
  bundle, both published, the last one gets the calls of both. `FoundIsServed` sets
  such bundles apart (`DistinctUris`).
* `WriteBufferSize` is configured and defaulted but not used: application.go:92-93 passes
  `ReadBufferSize` twice. `WorkerPoolSize` and `FutureSize` are defaulted and not used.
* A bind pattern that matches nothing binds the address of an interface without
  loopback if there is one (option.go:217), where the comment at option.go:199 says
  0.0.0.0; a pattern of 127.0.0.1 does so too, for loopback addresses never match.
  `BindsReachably` takes no side: without a match it allows the machine's addresses and 0.0.0.0.
* An error while reading the configuration is swallowed (option.go:69): the empty
  options panic later, in `InitServerOption` (`OnlyValidFilesGetOn`).
* A service whose interface has no method leaves `InvokesPerClient` nil, and the pruning
  timer panics (proxy.go:97); `TimerFindsTheTables` sets such bundles apart.
* `AttachMoaProperty` on a request without `props` panics, for the map is nil
  (moa_codec.go:211); in a goroutine of the method that ends the process
  (`OnlyGoroutinesCrash`).

## Not modelled

`ServeHTTP` reads and formats. The values of tracing spans, logging, the rotation of
the statistics' log and the Prometheus collectors influence no state modelled here.
turbo, ZooKeeper, the tracer, the TOML decoder and the operating system are modelled
only as far as the code relies on them; the map marks those definitions as external.
The server's `OnSessionExpired` is left out: nothing calls it, and `uri2Services` is empty in
server mode. `FileRegistry.PullChildrenData` is never called either, and the other operations of
a `FileRegistry` do nothing. A process started on an address in use is excluded by the
guard of `Start`: the code makes no promise for it (registry_zk.go:122 deletes
the node of the running one).

## Plan

Done: 1 `MoaProtocol`, 2 `MoaRpc`, 3 `MoaServer` with its proofs and refinement, 4
`ZkClient` with the proofs of its watch and its cache, 5 `InvokeCounters` and 6 `Lifecycle` with
their proofs, 7 `Membership` and 8 `Discovery` with its refinement, 9 `MoaContext` with its
proofs, 10 `Options`, `Registry`, `ServiceTable` and `Deployment`, with the proof of
`FoundIsServed`, 11 the client's theorems carried over to `Discovery`, and `FoundArePublished`
from them, 12 the other invariants of `Deployment` as theorems.

Left, in this order:

13. Two processes on one address at the same time, in `Lifecycle`.
