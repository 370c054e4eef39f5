-------------------------- MODULE Deployment_proofs --------------------------
(***************************************************************************)
(* For any bundle, configuration, machine and yaml file: what a client     *)
(* finds is served (BuildServiceUri loses nothing for uris without '#',    *)
(* and the table of NewInvocationHandler has every service and method);    *)
(* the options in force are those of a file that was read; the address     *)
(* bound can be reached; a FileRegistry finds what its file lists.         *)
(***************************************************************************)
EXTENDS Deployment, SequenceTheorems, FiniteSetTheorems, WellFoundedInduction, TLAPS

-----------------------------------------------------------------------------
(***************************************************************************)
(* Names                                                                   *)
(***************************************************************************)
Normal(g) == IF g = Empty THEN ALL_GROUP ELSE g

\* The part before the first '#' and what follows it.
LEMMA Split ==
  ASSUME NEW u \in Name, NEW g \in Name, Plain(u)
  PROVE  /\ Len(u \o g) > 1
         /\ u = <<Head(u \o g)>> /\ Tail(u \o g) = g
<1>1. Len(u) = 1 /\ u \in Seq(Parts) /\ g \in Seq(Parts) /\ Len(g) \in Nat \ {0}
  BY EmptySeq DEF Name, Plain
<1>2. /\ u \o g \in Seq(Parts) /\ Len(u \o g) = 1 + Len(g)
      /\ \A i \in 1..(1 + Len(g)) : (u \o g)[i] = IF i <= 1 THEN u[1] ELSE g[i - 1]
  <2>1. /\ u \o g \in Seq(Parts) /\ Len(u \o g) = Len(u) + Len(g)
        /\ \A i \in 1..(Len(u) + Len(g)) :
             (u \o g)[i] = IF i <= Len(u) THEN u[i] ELSE g[i - Len(u)]
    BY <1>1, ConcatProperties
  <2> QED BY <2>1, <1>1
<1>3. u \o g # <<>>
  BY <1>1, <1>2
<1>4. /\ Tail(u \o g) \in Seq(Parts) /\ Len(Tail(u \o g)) = Len(g)
      /\ \A i \in 1..Len(g) : Tail(u \o g)[i] = (u \o g)[i + 1]
  <2>1. /\ Tail(u \o g) \in Seq(Parts) /\ Len(Tail(u \o g)) = Len(u \o g) - 1
        /\ \A i \in 1..Len(Tail(u \o g)) : Tail(u \o g)[i] = (u \o g)[i + 1]
    BY <1>2, <1>3, HeadTailProperties
  <2> QED BY <2>1, <1>1, <1>2
<1>5. Tail(u \o g) = g
  <2>1. \A i \in 1..Len(g) : Tail(u \o g)[i] = g[i]
    BY <1>1, <1>2, <1>4
  <2> QED BY <2>1, <1>1, <1>4, SeqEqual
<1>6. Head(u \o g) = u[1]
  BY <1>1, <1>2
<1>7. u = <<u[1]>>
  BY <1>1
<1> QED BY <1>1, <1>2, <1>5, <1>6, <1>7

\* Two services share a node in ZooKeeper, or a key of a registry's table, only
\* if they have the same uri and the same group, the empty one being "*".
THEOREM NodesDistinct ==
  ASSUME NEW u \in Name, NEW v \in Name, NEW g \in Name, NEW h \in Name,
         Plain(u), Plain(v), BuildServiceUri(u, g) = BuildServiceUri(v, h)
  PROVE  u = v /\ Normal(g) = Normal(h)
<1> DEFINE G == g \notin {Empty, ALL_GROUP}
           H == h \notin {Empty, ALL_GROUP}
<1>1. Len(u) = 1 /\ Len(v) = 1
  BY DEF Plain
<1>2. CASE G /\ H
  <2>1. u \o g = v \o h
    BY <1>2 DEF BuildServiceUri
  <2>2. u = <<Head(u \o g)>> /\ Tail(u \o g) = g
    BY Split
  <2>3. v = <<Head(v \o h)>> /\ Tail(v \o h) = h
    BY Split
  <2> QED BY <2>1, <2>2, <2>3
<1>3. CASE ~G /\ ~H
  BY <1>3 DEF BuildServiceUri, Normal
<1>4. CASE G /\ ~H
  <2>1. u \o g = v
    BY <1>4 DEF BuildServiceUri
  <2>2. Len(u \o g) > 1
    BY Split
  <2> QED BY <2>1, <2>2, <1>1
<1>5. CASE ~G /\ H
  <2>1. u = v \o h
    BY <1>5 DEF BuildServiceUri
  <2>2. Len(v \o h) > 1
    BY Split
  <2> QED BY <2>1, <2>2, <1>1
<1> QED BY <1>2, <1>3, <1>4, <1>5

\* What PullChildrenData makes of a node without data is the service and the
\* group that were published under the node's name.
THEOREM NamesLeadBack ==
  ASSUME NEW u \in Name, NEW g \in Name, Plain(u)
  PROVE  UnwrapServiceUri(BuildServiceUri(u, g)) = <<u, Normal(g)>>
<1>1. CASE g \in {Empty, ALL_GROUP}
  <2>1. BuildServiceUri(u, g) = u /\ Normal(g) = ALL_GROUP
    BY <1>1 DEF BuildServiceUri, Normal
  <2>2. ~(Len(u) > 1)
    BY DEF Plain
  <2> QED BY <2>1, <2>2 DEF UnwrapServiceUri
<1>2. CASE g \notin {Empty, ALL_GROUP}
  <2>1. BuildServiceUri(u, g) = u \o g /\ Normal(g) = g
    BY <1>2 DEF BuildServiceUri, Normal
  <2>2. Len(u \o g) > 1 /\ u = <<Head(u \o g)>> /\ Tail(u \o g) = g
    BY Split
  <2> QED BY <2>1, <2>2 DEF UnwrapServiceUri
<1> QED BY <1>1, <1>2

-----------------------------------------------------------------------------
(***************************************************************************)
(* The table of methods                                                    *)
(***************************************************************************)
\* A finite set of numbers has a greatest one: the set of those above it is
\* minimal among such sets.
LEMMA GreatestExists ==
  ASSUME NEW S \in SUBSET Nat, IsFiniteSet(S), S # {}
  PROVE  \E s \in S : \A t \in S : t <= s
<1>. DEFINE Above(s) == {t \in S : t > s}
            All == {Above(s) : s \in S}
            R == StrictSubsetOrdering(S)
<1>1. IsWellFoundedOn(R, SUBSET S)
  BY FS_StrictSubsetOrderingWellFounded, FS_FiniteSubsetsOfFinite
<1>2. All \subseteq SUBSET S /\ All # {}
  OBVIOUS
<1>3. PICK B \in All : \A C \in All : ~(<<C, B>> \in R)
  <2>. HIDE DEF R, All
  <2>. QED BY <1>1, <1>2, WFMin
<1>4. PICK s \in S : B = Above(s)
  BY <1>3
<1>5. \A t \in S : ~(t > s)
  <2>. SUFFICES ASSUME NEW t \in S, t > s PROVE FALSE
    OBVIOUS
  <2>1. \A u \in S : u \in Nat
    OBVIOUS
  <2>2. Above(t) \subseteq Above(s) /\ t \in Above(s) /\ t \notin Above(t)
    <3>1. \A u \in S : u > t => u > s
      BY <2>1
    <3>2. ~(t > t)
      BY <2>1
    <3>. QED BY <3>1, <3>2
  <2>3. <<Above(t), Above(s)>> \in R
    BY <2>2 DEF StrictSubsetOrdering
  <2>. QED BY <1>3, <1>4, <2>3
<1>. QED BY <1>5

LEMMA LastIndex ==
  ASSUME NEW n \in Nat, NEW S \in SUBSET (1..n), S # {}
  PROVE  \E i \in S : \A j \in S : j <= i
<1>1. IsFiniteSet(1..n)
  BY FS_Interval
<1>2. IsFiniteSet(S)
  BY <1>1, FS_Subset
<1>3. S \in SUBSET Nat
  OBVIOUS
<1>. QED BY <1>2, <1>3, GreatestExists

\* Under the name of a method in lower case the table has a method of that name,
\* and no other names are in it.
LEMMA TableHasMethods ==
  ASSUME NEW methods \in Seq(Method), NEW word
  PROVE  /\ word \in DOMAIN MethodTable(methods)
              <=> \E m \in Range(methods) : m.name.word = word
         /\ word \in DOMAIN MethodTable(methods) =>
              MethodTable(methods)[word].name.word = word
<1>. DEFINE S == {i \in DOMAIN methods : methods[i].name.word = word}
<1>1. MethodTable(methods) =
        [w \in {methods[i].name.word : i \in DOMAIN methods} |->
           methods[CHOOSE i \in DOMAIN methods :
             methods[i].name.word = w
             /\ \A j \in DOMAIN methods : methods[j].name.word = w => j <= i]]
  BY DEF MethodTable, Keys, LastWith
<1>2. word \in DOMAIN MethodTable(methods) <=> S # {}
  BY <1>1
<1>3. S # {} <=> \E m \in Range(methods) : m.name.word = word
  BY DEF Range
<1>4. ASSUME S # {} PROVE MethodTable(methods)[word].name.word = word
  <2>1. DOMAIN methods = 1..Len(methods) /\ Len(methods) \in Nat
    OBVIOUS
  <2>2. S \in SUBSET (1..Len(methods))
    BY <2>1
  <2>4. PICK i \in S : \A j \in S : j <= i
    <3>. HIDE DEF S
    <3>. QED BY <1>4, <2>1, <2>2, LastIndex
  <2>5. \E k \in DOMAIN methods :
          methods[k].name.word = word
          /\ \A j \in DOMAIN methods : methods[j].name.word = word => j <= k
    BY <2>4
  <2>. HIDE DEF S
  <2>. QED BY <1>1, <1>2, <1>4, <2>5
<1>. QED BY <1>2, <1>3, <1>4

-----------------------------------------------------------------------------
(***************************************************************************)
(* The table of services                                                   *)
(***************************************************************************)
Entry(s) ==
  [gid |-> s.gid, methods |-> MethodTable(s.methods), invokesPerClient |-> s.methods # <<>>]

\* The table has the uris of the bundle, and under each a service of that uri.
LEMMA TableHasServices ==
  ASSUME NEW bundle \in Seq(Service)
  PROVE  /\ DOMAIN Instances(bundle) = {s.uri : s \in Range(bundle)}
         /\ \A u \in DOMAIN Instances(bundle) :
              \E s \in Range(bundle) : s.uri = u /\ Instances(bundle)[u] = Entry(s)
<1>1. Instances(bundle) =
        [u \in {bundle[i].uri : i \in DOMAIN bundle} |->
           Entry(bundle[CHOOSE i \in DOMAIN bundle :
             bundle[i].uri = u
             /\ \A j \in DOMAIN bundle : bundle[j].uri = u => j <= i])]
  BY DEF Instances, Keys, LastWith, Entry
<1>2. DOMAIN Instances(bundle) = {s.uri : s \in Range(bundle)}
  BY <1>1 DEF Range
<1>3. ASSUME NEW u \in DOMAIN Instances(bundle)
      PROVE  \E s \in Range(bundle) : s.uri = u /\ Instances(bundle)[u] = Entry(s)
  <2>. DEFINE S == {i \in DOMAIN bundle : bundle[i].uri = u}
  <2>1. DOMAIN bundle = 1..Len(bundle) /\ Len(bundle) \in Nat
    OBVIOUS
  <2>2. S \in SUBSET (1..Len(bundle)) /\ S # {}
    BY <2>1, <1>1
  <2>3. PICK i \in S : \A j \in S : j <= i
    <3>. HIDE DEF S
    <3>. QED BY <2>1, <2>2, LastIndex
  <2>4. \E k \in DOMAIN bundle :
          bundle[k].uri = u /\ \A j \in DOMAIN bundle : bundle[j].uri = u => j <= k
    BY <2>3
  <2>5. PICK k \in DOMAIN bundle : bundle[k].uri = u /\ Instances(bundle)[u] = Entry(bundle[k])
    <3>. HIDE DEF Entry
    <3>. QED BY <1>1, <2>4
  <2>. QED BY <2>5 DEF Range
<1>. QED BY <1>2, <1>3

-----------------------------------------------------------------------------
(***************************************************************************)
(* What is published is what is served                                     *)
(***************************************************************************)
\* The nodes are those of the bundle, with its groups defaulted, and the table
\* is made from it; it does not change under a request.
BundleInv ==
  /\ services \in Seq(Service)
  /\ \A s \in Range(services) : s.gid # Empty
  /\ \A n \in published : \E s \in Range(services) : n.key = BuildServiceUri(s.uri, s.gid)
  /\ stage = "serving" => instances = Instances(services)
  /\ request.kind = "zk" => stage \in {"serving", "panicked"}

LEMMA GroupsDefaulted ==
  ASSUME NEW s \in Service
  PROVE  DefaultGroup(s) \in Service /\ DefaultGroup(s).gid # Empty
<1>1. ALL_GROUP # Empty
  <2>1. ALL_GROUP[1] = "*" /\ Empty[1] = ""
    BY DEF ALL_GROUP, Empty
  <2>2. "*" # ""
    OBVIOUS
  <2>. QED BY <2>1, <2>2
<1>2. ALL_GROUP \in Name
  <2>1. ALL_GROUP \in Seq(Parts) /\ Len(ALL_GROUP) = 1
    <3>1. "*" \in Parts
      BY DeploymentAssumption DEF DeploymentAssumption
    <3>2. \A x \in Parts : <<x>> \in Seq(Parts) /\ Len(<<x>>) = 1
      OBVIOUS
    <3>. QED BY <3>1, <3>2 DEF ALL_GROUP
  <2>2. Len(<<>>) = 0
    OBVIOUS
  <2>. QED BY <2>1, <2>2 DEF Name
<1>. QED BY <1>1, <1>2 DEF DefaultGroup, Service

LEMMA BundleInit == Init => BundleInv
BY DEF Init, BundleInv, NoRequest, Range

LEMMA PublishKeeps ==
  ASSUME BundleInv, Publish PROVE BundleInv'
<1>1. PICK bundle \in Bundles :
        /\ services' = [i \in DOMAIN bundle |-> DefaultGroup(bundle[i])]
        /\ stage' \in {"panicked", "published"}
        /\ published' \subseteq {AddressNode(services'[i]) : i \in DOMAIN bundle}
  BY DEF Publish
<1>2. bundle \in Seq(Service) /\ DOMAIN bundle = 1..Len(bundle) /\ Len(bundle) \in Nat
  BY DeploymentAssumption DEF DeploymentAssumption
<1>3. \A i \in DOMAIN bundle : bundle[i] \in Service
  BY <1>2
<1>4. \A i \in DOMAIN bundle : services'[i] \in Service /\ services'[i].gid # Empty
  BY <1>1, <1>3, GroupsDefaulted
<1>5. services' \in Seq(Service) /\ DOMAIN services' = DOMAIN bundle
  <2>1. services' = [i \in 1..Len(bundle) |-> services'[i]]
    BY <1>1, <1>2
  <2>. QED BY <1>2, <1>4, <2>1
<1>6. \A n \in published' : \E s \in Range(services)' : n.key = BuildServiceUri(s.uri, s.gid)
  BY <1>1, <1>5 DEF AddressNode, Range
<1>7. request.kind # "zk" /\ request' = request
  BY DEF Publish, BundleInv
<1>. QED BY <1>1, <1>4, <1>5, <1>6, <1>7 DEF BundleInv, Range

LEMMA BundleInductive == BundleInv /\ [Next]_vars => BundleInv'
<1>. SUFFICES ASSUME BundleInv, [Next]_vars PROVE BundleInv'
  OBVIOUS
<1>1. CASE Publish
  BY <1>1, PublishKeeps
<1>2. CASE UNCHANGED vars
  BY <1>2 DEF BundleInv, vars, Range
<1>3. CASE Load \/ BindServer \/ StartClient \/ OpenFile
  BY <1>3 DEF Load, BindServer, StartClient, OpenFile, Panic, BundleInv, Range
<1>4. CASE Assemble \/ TimerTurn
  BY <1>4 DEF Assemble, TimerTurn, Panic, BundleInv, Range
<1>5. CASE LookupFile \/ LookupAndCall
  BY <1>5 DEF LookupFile, LookupAndCall, BundleInv, Range
<1>. QED BY <1>1, <1>2, <1>3, <1>4, <1>5 DEF Next

LEMMA GroupsAgree ==
  ASSUME NEW g, NEW h
  PROVE  Normal(g) = Normal(h) <=> SameGroup(g, h)
BY DEF Normal, SameGroup

\* A call reaches what was published under the name it was found by.
LEMMA CallReaches ==
  ASSUME BundleInv, LookupAndCall PROVE FoundIsServed'
<1>1. PICK uri \in Uris, gid \in Groups, word \in Words :
        /\ \E n \in published : n.key = BuildServiceUri(uri, gid)
        /\ request' = [kind |-> "zk", uri |-> uri, gid |-> gid, word |-> word,
                       legacy |-> UnwrapServiceUri(BuildServiceUri(uri, gid)),
                       reached |-> Reached(uri, word)]
  BY DEF LookupAndCall
<1>2. services' = services /\ instances = Instances(services)
  BY DEF LookupAndCall, BundleInv
<1>. SUFFICES ASSUME DistinctUris, Plain(uri), \A s \in Range(services) : Plain(s.uri)
              PROVE  LET s == CHOOSE t \in Range(services) :
                                t.uri = uri /\ SameGroup(t.gid, gid)
                     IN  /\ \E t \in Range(services) : t.uri = uri /\ SameGroup(t.gid, gid)
                         /\ UnwrapServiceUri(BuildServiceUri(uri, gid)) = <<s.uri, s.gid>>
                         /\ IF \E m \in Range(s.methods) : m.name.word = word
                            THEN /\ Reached(uri, word).code = "SUCC"
                                 /\ Reached(uri, word).gid = s.gid
                                 /\ Reached(uri, word).name.word = word
                            ELSE Reached(uri, word).code = "METHOD_NOT_FOUND"
  <2>1. /\ request'.uri = uri /\ request'.gid = gid /\ request'.word = word
        /\ request'.legacy = UnwrapServiceUri(BuildServiceUri(uri, gid))
        /\ request'.reached = Reached(uri, word)
    BY <1>1
  <2>. QED BY <1>2, <2>1 DEF FoundIsServed, DistinctUris
<1>3. PICK s \in Range(services) : BuildServiceUri(s.uri, s.gid) = BuildServiceUri(uri, gid)
  BY <1>1 DEF BundleInv
<1>4. \A t \in Range(services) : t \in Service /\ t.gid # Empty
  BY DEF BundleInv, Range
<1>5. uri \in Name /\ gid \in Name /\ s.uri \in Name /\ s.gid \in Name /\ s.methods \in Seq(Method)
  BY <1>4, DeploymentAssumption DEF DeploymentAssumption, Service
<1>6. s.uri = uri /\ Normal(s.gid) = Normal(gid)
  BY <1>3, <1>5, NodesDistinct
<1>7. SameGroup(s.gid, gid)
  BY <1>6, GroupsAgree
<1>8. \A t \in Range(services) : t.uri = uri => t = s
  BY <1>6 DEF DistinctUris, Range
<1>9. s = CHOOSE t \in Range(services) : t.uri = uri /\ SameGroup(t.gid, gid)
  BY <1>6, <1>7, <1>8
<1>10. UnwrapServiceUri(BuildServiceUri(uri, gid)) = <<s.uri, s.gid>>
  <2>1. UnwrapServiceUri(BuildServiceUri(uri, gid)) = <<uri, Normal(gid)>>
    BY <1>5, NamesLeadBack
  <2>2. Normal(gid) = s.gid
    BY <1>4, <1>6 DEF Normal
  <2>. QED BY <1>6, <2>1, <2>2
<1>11. uri \in DOMAIN instances /\ instances[uri] = Entry(s)
  <2>1. uri \in DOMAIN instances
    BY <1>2, <1>6, TableHasServices DEF BundleInv
  <2>2. \E t \in Range(services) : t.uri = uri /\ instances[uri] = Entry(t)
    BY <1>2, <2>1, TableHasServices DEF BundleInv
  <2>. QED BY <1>8, <2>1, <2>2
<1>12. instances[uri].methods = MethodTable(s.methods) /\ instances[uri].gid = s.gid
  BY <1>11 DEF Entry
<1>13. CASE \E m \in Range(s.methods) : m.name.word = word
  <2>1. /\ word \in DOMAIN MethodTable(s.methods)
        /\ MethodTable(s.methods)[word].name.word = word
    BY <1>5, <1>13, TableHasMethods
  <2>2. Reached(uri, word) = [code |-> "SUCC", gid |-> s.gid,
                              name |-> MethodTable(s.methods)[word].name]
    BY <1>11, <1>12, <2>1 DEF Reached
  <2>3. /\ Reached(uri, word).code = "SUCC" /\ Reached(uri, word).gid = s.gid
        /\ Reached(uri, word).name.word = word
    BY <2>1, <2>2
  <2>. QED BY <1>6, <1>7, <1>9, <1>10, <1>13, <2>3
<1>14. CASE ~\E m \in Range(s.methods) : m.name.word = word
  <2>1. word \notin DOMAIN MethodTable(s.methods)
    BY <1>5, <1>14, TableHasMethods
  <2>2. Reached(uri, word).code = "METHOD_NOT_FOUND"
    BY <1>11, <1>12, <2>1 DEF Reached
  <2>. QED BY <1>6, <1>7, <1>9, <1>10, <1>14, <2>2
<1>. QED BY <1>13, <1>14

\* What a client finds under a uri and a group is served there, for every bundle
\* of services with distinct plain uris and every client.
THEOREM FoundServed == Spec => []FoundIsServed
<1>1. Init => FoundIsServed
  BY DEF Init, FoundIsServed, NoRequest
<1>2. BundleInv /\ FoundIsServed /\ [Next]_vars => FoundIsServed'
  <2>. SUFFICES ASSUME BundleInv, FoundIsServed, [Next]_vars PROVE FoundIsServed'
    OBVIOUS
  <2>1. CASE LookupAndCall
    BY <2>1, CallReaches
  <2>2. CASE Publish \/ LookupFile
    <3>1. request'.kind # "zk"
      BY <2>2 DEF Publish, LookupFile, BundleInv
    <3>. QED BY <3>1 DEF FoundIsServed
  <2>3. CASE services' = services /\ request' = request
    BY <2>3 DEF FoundIsServed, DistinctUris
  <2>4. CASE Load \/ BindServer \/ StartClient \/ OpenFile \/ Assemble \/ TimerTurn
    BY <2>3, <2>4 DEF Load, BindServer, StartClient, OpenFile, Assemble, TimerTurn, Panic
  <2>. QED BY <2>1, <2>2, <2>3, <2>4 DEF Next, vars
<1>. QED BY <1>1, <1>2, BundleInit, BundleInductive, PTL DEF Spec

\* The timer panics only on a service whose interface has no method, for every
\* bundle, uris that collide included.
THEOREM TimerLives == Spec => TimerFindsTheTables
<1>1. BundleInv /\ [Next]_vars =>
        [stage = "serving" /\ stage' = "panicked" =>
           \E s \in Range(services) : s.methods = <<>>]_vars
  <2>. SUFFICES ASSUME BundleInv, [Next]_vars, stage = "serving", stage' = "panicked"
                PROVE  \E s \in Range(services) : s.methods = <<>>
    OBVIOUS
  <2>1. TimerTurn
    BY DEF Next, vars, Load, BindServer, StartClient, Publish, OpenFile, Assemble,
           LookupFile, LookupAndCall
  <2>2. PICK u \in DOMAIN instances : ~instances[u].invokesPerClient
    BY <2>1 DEF TimerTurn
  <2>3. services \in Seq(Service) /\ instances = Instances(services)
    BY DEF BundleInv
  <2>4. \A v \in DOMAIN Instances(services) : \E s \in Range(services) :
          s.uri = v /\ Instances(services)[v] = Entry(s)
    BY <2>3, TableHasServices
  <2>5. PICK s \in Range(services) : instances[u] = Entry(s)
    <3>1. u \in DOMAIN Instances(services) /\ instances[u] = Instances(services)[u]
      <4>1. u \in DOMAIN instances
        BY <2>2
      <4>. QED BY <2>3, <4>1
    <3>. QED BY <2>4, <3>1
  <2>6. Entry(s).invokesPerClient = (s.methods # <<>>)
    BY Zenon DEF Entry
  <2>7. ~Entry(s).invokesPerClient
    BY <2>2, <2>5, Zenon
  <2>. QED BY <2>6, <2>7, Zenon
<1>. QED BY <1>1, BundleInit, BundleInductive, PTL DEF Spec, TimerFindsTheTables
-----------------------------------------------------------------------------
(***************************************************************************)
(* Options                                                                 *)
(***************************************************************************)
\* Arithmetic in 64 bits is arithmetic as long as the result fits.
LEMMA Fits == ASSUME NEW n \in 0..MaxInt PROVE Int64(n) = n
<1>. DEFINE m == MaxInt + 1
            k == n + m
<1>1. MaxInt \in Nat /\ m \in Nat /\ m > 0 /\ k \in Nat /\ k < 2 * m
  BY OptionsAssumption
<1>2. \A a, b \in Nat : b > 0 /\ a < b => a % b = a
  OBVIOUS
<1>3. 2 * m \in Nat /\ 2 * m > 0
  BY <1>1
<1>4. k % (2 * m) = k
  <2>. HIDE DEF m, k
  <2>. QED BY <1>1, <1>2, <1>3
<1>5. n + MaxInt + 1 = k
  BY OptionsAssumption
<1>. QED BY <1>4, <1>5, OptionsAssumption DEF Int64

Sizes == DOMAIN SizeDefault \cup {"WorkerPoolSize", "FutureSize"}

\* Every size is positive and fits once the defaults are in.
LEMMA SizesInForce ==
  ASSUME NEW c \in Cluster, NEW f \in Sizes
  PROVE  WithDefaults(c)[f] \in 1..MaxInt
<1>1. \A n \in Number, d \in 1..MaxInt : Positive(n, d) \in 1..MaxInt
  BY OptionsAssumption DEF Number, Positive
<1>2. \A g \in DOMAIN SizeDefault : SizeDefault[g] \in 1..MaxInt /\ c[g] \in Number
  BY OptionsAssumption DEF SizeDefault, Cluster
<1>3. f \in DOMAIN c /\ c[f] \in Number /\ c["MaxDispatcherSize"] \in Number
  BY DEF Sizes, SizeDefault, Cluster
<1>4. CASE f \in DOMAIN SizeDefault
  <2>1. f \notin {"WorkerPoolSize", "FutureSize", "IdleTimeout", "ProcessTimeout"}
    BY <1>4 DEF SizeDefault
  <2>2. WithDefaults(c)[f] = Positive(c[f], SizeDefault[f])
    BY <1>3, <1>4, <2>1 DEF WithDefaults
  <2>. QED BY <1>1, <1>2, <1>4, <2>2
<1>5. CASE f = "WorkerPoolSize"
  <2>1. f \notin DOMAIN SizeDefault /\ "MaxDispatcherSize" \in DOMAIN SizeDefault
    BY <1>5 DEF SizeDefault
  <2>2. WithDefaults(c)[f] =
          Positive(c[f], Positive(c["MaxDispatcherSize"], SizeDefault["MaxDispatcherSize"]))
    BY <1>3, <1>5, <2>1 DEF WithDefaults
  <2>. QED BY <1>1, <1>2, <1>3, <2>1, <2>2
<1>6. CASE f = "FutureSize"
  <2>1. f \notin DOMAIN SizeDefault /\ f # "WorkerPoolSize"
    BY <1>6 DEF SizeDefault
  <2>2. WithDefaults(c)[f] = IF c[f] <= 100 * 10000 THEN 100 * 10000 ELSE c[f]
    BY <1>3, <1>6, <2>1 DEF WithDefaults
  <2>. QED BY <1>3, <2>2, OptionsAssumption DEF Number
<1>. QED BY <1>4, <1>5, <1>6 DEF Sizes

\* The timeouts are the seconds given, or the defaults, if they fit.
LEMMA TimeoutsGiven ==
  ASSUME NEW c \in Cluster
  PROVE  /\ WithDefaults(c).ProcessTimeout = Timeout(c.ProcessTimeout, 5)
         /\ WithDefaults(c).IdleTimeout = Timeout(c.IdleTimeout, 300)
BY DEF WithDefaults, SizeDefault, Cluster

LEMMA TimeoutFits ==
  ASSUME NEW n \in Number, NEW d \in Nat, Positive(n, d) * Second <= MaxInt
  PROVE  Timeout(n, d) = Positive(n, d) * Second
<1>1. Positive(n, d) \in Nat
  BY OptionsAssumption DEF Positive, Number
<1>2. Positive(n, d) * Second \in 0..MaxInt
  BY <1>1, OptionsAssumption
<1>. QED BY <1>2, Fits DEF Timeout

\* What LoadConfiguration makes of a file that it can decode.
LEMMA LoadedFile ==
  ASSUME NEW f, IsFile(f), f.state = "toml",
         NEW o, o = LoadConfiguration(f).option
  PROVE  /\ o.Server = f.option.Server
         /\ o.Client \in Client /\ o.Client.RunMode = f.option.Client.RunMode
         /\ o.Clusters = [name \in DOMAIN f.option.Clusters |->
                            WithDefaults(f.option.Clusters[name])]
         /\ DOMAIN o = {"Server", "Client", "Clusters"}
<1>1. f.option \in [Server : Server, Client : Client, Clusters : {f.option.Clusters}]
  BY DEF IsFile
<1>2. o = [f.option EXCEPT
             !.Client.SlowLog = IF @ = {} THEN {TRUE} ELSE @,
             !.Clusters = [name \in DOMAIN @ |-> WithDefaults(@[name])]]
  BY DEF LoadConfiguration
<1>3. /\ DOMAIN f.option = {"Server", "Client", "Clusters"}
      /\ f.option.Client \in Client
  BY <1>1
<1>4. /\ o.Server = f.option.Server /\ DOMAIN o = DOMAIN f.option
      /\ o.Clusters = [name \in DOMAIN f.option.Clusters |->
                         WithDefaults(f.option.Clusters[name])]
  BY <1>2, <1>3
<1>5. o.Client = [f.option.Client EXCEPT !.SlowLog = IF @ = {} THEN {TRUE} ELSE @]
  BY <1>2, <1>3
<1>6. o.Client \in Client /\ o.Client.RunMode = f.option.Client.RunMode
  <2>1. \A x \in Client, l \in SUBSET BOOLEAN :
          /\ [x EXCEPT !.SlowLog = l] \in Client
          /\ [x EXCEPT !.SlowLog = l].RunMode = x.RunMode
    BY DEF Client
  <2>2. \A x \in Client : (IF x.SlowLog = {} THEN {TRUE} ELSE x.SlowLog) \in SUBSET BOOLEAN
    BY DEF Client
  <2>. DEFINE l == IF f.option.Client.SlowLog = {} THEN {TRUE} ELSE f.option.Client.SlowLog
  <2>3. l \in SUBSET BOOLEAN
    BY <1>3, <2>2
  <2>4. o.Client = [f.option.Client EXCEPT !.SlowLog = l]
    BY <1>5
  <2>. HIDE DEF l
  <2>. QED BY <1>3, <2>1, <2>3, <2>4
<1>. QED BY <1>3, <1>4, <1>6
\* What InitServerOption and InitClientOption make of it.
LEMMA ServerInit ==
  ASSUME NEW f, IsFile(f), f.state = "toml", NEW inters,
         NEW o, o = InitServerOption(LoadConfiguration(f).option, inters)
  PROVE  /\ o.Server.RunMode = f.option.Server.RunMode
         /\ o.Server.BindAddress = BindAddress(f.option.Server.BindAddress, inters)
         /\ o.Clusters = LoadConfiguration(f).option.Clusters
<1>. DEFINE p == LoadConfiguration(f).option
<1>1. p.Server = f.option.Server /\ DOMAIN p = {"Server", "Client", "Clusters"}
  BY LoadedFile
<1>2. p.Server \in Server
  BY <1>1 DEF IsFile
<1>3. o = [p EXCEPT !.Server.BindAddress = BindAddress(@, inters),
                    !.Server.Compress = Compress(@)]
  BY DEF InitServerOption
<1>. HIDE DEF p
<1>4. /\ o.Server = [p.Server EXCEPT !.BindAddress = BindAddress(@, inters),
                                     !.Compress = Compress(@)]
      /\ o.Clusters = p.Clusters
  BY <1>1, <1>3
<1>5. \A x \in Server : \A b, z :
        LET y == [x EXCEPT !.BindAddress = b, !.Compress = z]
        IN  y.RunMode = x.RunMode /\ y.BindAddress = b
  BY DEF Server
<1>6. o.Server = [p.Server EXCEPT !.BindAddress = BindAddress(p.Server.BindAddress, inters),
                                  !.Compress = Compress(p.Server.Compress)]
  BY <1>2, <1>4 DEF Server
<1>7. /\ o.Server.RunMode = p.Server.RunMode
      /\ o.Server.BindAddress = BindAddress(p.Server.BindAddress, inters)
  BY <1>2, <1>5, <1>6
<1>. QED BY <1>1, <1>4, <1>7 DEF p

LEMMA ClientInit ==
  ASSUME NEW f, IsFile(f), f.state = "toml",
         NEW o, o = InitClientOption(LoadConfiguration(f).option)
  PROVE  o.Clusters = LoadConfiguration(f).option.Clusters
<1>1. DOMAIN LoadConfiguration(f).option = {"Server", "Client", "Clusters"}
  BY LoadedFile
<1>. QED BY <1>1 DEF InitClientOption

\* The clusters of a process are those of its file with the defaults in, or
\* there are none.
LEMMA ClustersInForce ==
  ASSUME NEW f, IsFile(f), NEW name \in DOMAIN LoadConfiguration(f).option.Clusters
  PROVE  /\ f.state = "toml" /\ name \in DOMAIN f.option.Clusters
         /\ f.option.Clusters[name] \in Cluster
         /\ LoadConfiguration(f).option.Clusters[name] = WithDefaults(f.option.Clusters[name])
<1>1. f.state \in {"missing", "malformed", "unreadable", "toml"}
  BY DEF IsFile
<1>2. CASE f.state # "toml"
  <2>1. LoadConfiguration(f).option = NoOption
    BY <1>1, <1>2 DEF LoadConfiguration
  <2>2. NoOption.Clusters = [n \in {} |-> n]
    BY DEF NoOption
  <2>3. DOMAIN NoOption.Clusters = {}
    BY <2>2
  <2>. QED BY <2>1, <2>3
<1>3. CASE f.state = "toml"
  <2>1. LoadConfiguration(f).option.Clusters =
          [n \in DOMAIN f.option.Clusters |-> WithDefaults(f.option.Clusters[n])]
    BY <1>3, LoadedFile
  <2>2. name \in DOMAIN f.option.Clusters
    BY <2>1
  <2>3. f.option.Clusters[name] \in Cluster
    BY <1>3, <2>2 DEF IsFile
  <2>. QED BY <1>3, <2>1, <2>2, <2>3
<1>. QED BY <1>2, <1>3

\* A file that yields Option{} leads to a panic in both kinds of process.
LEMMA EmptyOptionPanics ==
  ASSUME NEW f, IsFile(f), ~LoadConfiguration(f).err,
         ~ServerPanics(LoadConfiguration(f).option) \/ ~ClientPanics(LoadConfiguration(f).option)
  PROVE  f.state = "toml"
<1>1. f.state \in {"missing", "malformed", "unreadable", "toml"}
  BY DEF IsFile
<1>2. f.state \notin {"missing", "malformed"}
  BY DEF LoadConfiguration
<1>3. ASSUME f.state = "unreadable" PROVE FALSE
  <2>1. LoadConfiguration(f).option = NoOption
    BY <1>3 DEF LoadConfiguration
  <2>2. /\ NoOption.Server.BindAddress.port = FALSE
        /\ NoOption.Clusters = [n \in {} |-> n]
    BY Zenon DEF NoOption, NoBind
  <2>3. DOMAIN NoOption.Clusters = {}
    BY <2>2
  <2>. QED BY <2>1, <2>2, <2>3 DEF ServerPanics, ClientPanics
<1>. QED BY <1>1, <1>2, <1>3
-----------------------------------------------------------------------------
(***************************************************************************)
(* The address to bind                                                     *)
(***************************************************************************)
LEMMA MaxIn ==
  ASSUME NEW n \in Nat, NEW S \in SUBSET (1..n), S # {} PROVE Max(S) \in S
<1>1. PICK i \in S : \A j \in S : j <= i
  BY LastIndex
<1>2. \A j \in S : i >= j
  BY <1>1
<1>. QED BY <1>2 DEF Max

\* The least is the greatest in the mirror.
LEMMA MinIn ==
  ASSUME NEW n \in Nat, NEW S \in SUBSET (1..n), S # {} PROVE Min(S) \in S
<1>. DEFINE M == {n + 1 - i : i \in S}
<1>1. M \in SUBSET (1..n) /\ M # {}
  <2>1. \A i \in S : i \in 1..n /\ n + 1 - i \in 1..n
    OBVIOUS
  <2>. QED BY <2>1
<1>2. PICK m \in M : \A j \in M : j <= m
  <2>. HIDE DEF M
  <2>. QED BY <1>1, LastIndex
<1>3. PICK i \in S : m = n + 1 - i
  OBVIOUS
<1>4. \A j \in S : i =< j
  <2>1. \A j \in S : n + 1 - j \in M
    OBVIOUS
  <2>2. \A j \in S : n + 1 - j <= n + 1 - i
    <3>. HIDE DEF M
    <3>. QED BY <1>2, <1>3, <2>1
  <2>3. \A j \in S : j \in Int /\ i \in Int
    OBVIOUS
  <2>. QED BY <2>2, <2>3
<1>. QED BY <1>4 DEF Min

\* The choice is one of the wanted addresses, if there is any.
LEMMA ChoiceIsWanted ==
  ASSUME NEW inters \in Seq(Seq(Address)), NEW wanted
  PROVE  /\ LastChoice(inters, wanted) = {}
              <=> \A i \in DOMAIN inters : Range(inters[i]) \cap wanted = {}
         /\ \A ip \in LastChoice(inters, wanted) :
              \E i \in DOMAIN inters : \E a \in Range(inters[i]) \cap wanted : a.ip = ip
<1>. DEFINE at(i) == {j \in DOMAIN inters[i] : inters[i][j] \in wanted}
            found == {i \in DOMAIN inters : at(i) # {}}
            last == Max(found)
<1>1. LastChoice(inters, wanted) =
        IF found = {} THEN {} ELSE {inters[last][Min(at(last))].ip}
  BY DEF LastChoice
<1>2. found = {} <=> \A i \in DOMAIN inters : Range(inters[i]) \cap wanted = {}
  BY DEF Range
<1>3. ASSUME found # {} PROVE last \in found /\ Min(at(last)) \in at(last)
  <2>1. Len(inters) \in Nat /\ found \in SUBSET (1..Len(inters))
    OBVIOUS
  <2>2. last \in found
    <3>. HIDE DEF found
    <3>. QED BY <1>3, <2>1, MaxIn
  <2>3. inters[last] \in Seq(Address)
    BY <2>2
  <2>4. Len(inters[last]) \in Nat /\ at(last) \in SUBSET (1..Len(inters[last]))
    BY <2>3
  <2>5. at(last) # {}
    BY <2>2
  <2>6. Min(at(last)) \in at(last)
    <3>. HIDE DEF at, last
    <3>. QED BY <2>4, <2>5, MinIn
  <2>. QED BY <2>2, <2>6
<1>4. ASSUME found # {}, NEW ip \in LastChoice(inters, wanted)
      PROVE  \E i \in DOMAIN inters : \E a \in Range(inters[i]) \cap wanted : a.ip = ip
  <2>1. ip = inters[last][Min(at(last))].ip
    BY <1>1, <1>4
  <2>2. inters[last][Min(at(last))] \in Range(inters[last]) \cap wanted
    BY <1>3, <1>4 DEF Range
  <2>. QED BY <1>3, <1>4, <2>1, <2>2
<1>5. ASSUME found = {} PROVE LastChoice(inters, wanted) = {}
  BY <1>1, <1>5
<1>6. ASSUME found # {} PROVE LastChoice(inters, wanted) # {}
  <2>1. LastChoice(inters, wanted) = {inters[last][Min(at(last))].ip}
    BY <1>1, <1>6
  <2>. QED BY <2>1
<1>. HIDE DEF found
<1>. QED BY <1>2, <1>4, <1>5, <1>6

\* BindAddress keeps its promise for every machine and every pattern.
LEMMA BoundReachably ==
  ASSUME NEW bind \in Bind, NEW inters \in Seq(Seq(Address)),
         NEW ip, ip = BindAddress(bind, inters)
  PROVE  /\ ip \in Own(Range(inters)) \cup {AnyAddress}
         /\ ~bind.given => ip = AnyAddress
         /\ bind.given /\ Own(Range(inters)) \cap bind.matches # {} => ip \in bind.matches
<1>. DEFINE all == {a \in Addresses(inters) : IPv4(a)}
            fits == {a \in Addresses(inters) : IPv4(a) /\ a.ip \in bind.matches}
            rest == WithoutLoopback(inters)
<1>1. /\ rest \in Seq(Seq(Address)) /\ DOMAIN rest = DOMAIN inters
      /\ \A i \in DOMAIN inters : rest[i] = IF HasLoopback(inters[i]) THEN <<>> ELSE inters[i]
  <2>1. DOMAIN inters = 1..Len(inters) /\ Len(inters) \in Nat
    OBVIOUS
  <2>2. \A i \in DOMAIN inters : (IF HasLoopback(inters[i]) THEN <<>> ELSE inters[i]) \in Seq(Address)
    OBVIOUS
  <2>. QED BY <2>1, <2>2 DEF WithoutLoopback
<1>2. \A i \in DOMAIN inters : \A a \in Range(inters[i]) : a \in Address /\ a \in Addresses(inters)
  BY DEF Range, Addresses
<1>3. \A x : x \in Own(Range(inters))
        <=> \E i \in DOMAIN inters : \E a \in Range(inters[i]) : IPv4(a) /\ a.ip = x
  <2>1. \A x : x \in Own(Range(inters))
          <=> \E inter \in Range(inters) : \E a \in Range(inter) : IPv4(a) /\ a.ip = x
    BY DEF Own
  <2>2. \A inter : inter \in Range(inters) <=> \E i \in DOMAIN inters : inter = inters[i]
    BY DEF Range
  <2>. QED BY <2>1, <2>2
<1>4. /\ Matching(bind, inters) = {} => Own(Range(inters)) \cap bind.matches = {}
      /\ \A x \in Matching(bind, inters) :
           x \in Own(Range(inters)) /\ x \in bind.matches
  <2>1. Matching(bind, inters) = LastChoice(inters, fits)
    BY DEF Matching
  <2>. HIDE DEF fits
  <2>2. /\ Matching(bind, inters) = {} =>
             \A i \in DOMAIN inters : Range(inters[i]) \cap fits = {}
        /\ \A x \in Matching(bind, inters) :
             \E i \in DOMAIN inters : \E a \in Range(inters[i]) \cap fits : a.ip = x
    BY <2>1, ChoiceIsWanted
  <2>3. ASSUME Matching(bind, inters) = {} PROVE Own(Range(inters)) \cap bind.matches = {}
    BY <1>2, <1>3, <2>2, <2>3 DEF fits
  <2>4. ASSUME NEW x \in Matching(bind, inters)
        PROVE  x \in Own(Range(inters)) /\ x \in bind.matches
    <3>1. PICK i \in DOMAIN inters : \E a \in Range(inters[i]) \cap fits : a.ip = x
      BY <2>2
    <3>2. PICK a \in Range(inters[i]) \cap fits : a.ip = x
      BY <3>1
    <3>3. a \in Address /\ IPv4(a) /\ a.ip \in bind.matches
      BY <1>2, <3>2 DEF fits
    <3>. QED BY <1>3, <3>2, <3>3
  <2>. QED BY <2>3, <2>4
<1>5. \A x \in Other(inters) : x \in Own(Range(inters))
  <2>1. Other(inters) = LastChoice(rest, all)
    BY DEF Other
  <2>2. \A x \in Other(inters) : \E i \in DOMAIN rest : \E a \in Range(rest[i]) \cap all : a.ip = x
    <3>. HIDE DEF all, rest
    <3>1. \A x \in LastChoice(rest, all) :
            \E i \in DOMAIN rest : \E a \in Range(rest[i]) \cap all : a.ip = x
      BY <1>1, ChoiceIsWanted
    <3>. QED BY <2>1, <3>1
  <2>. HIDE DEF rest
  <2>. SUFFICES ASSUME NEW x \in Other(inters) PROVE x \in Own(Range(inters))
    OBVIOUS
  <2>3. PICK i \in DOMAIN rest : \E a \in Range(rest[i]) \cap all : a.ip = x
    BY <2>2
  <2>4. PICK a \in Range(rest[i]) \cap all : a.ip = x
    BY <2>3
  <2>5. i \in DOMAIN inters /\ a \in Range(inters[i])
    <3>1. Range(<<>>) = {}
      BY DEF Range
    <3>. QED BY <1>1, <2>3, <2>4, <3>1
  <2>. QED BY <1>3, <2>4, <2>5
<1>6. bind.given \in BOOLEAN
  BY DEF Bind
<1>7. CASE ~bind.given
  BY <1>7 DEF BindAddress
<1>8. CASE bind.given /\ Matching(bind, inters) # {}
  <2>1. ip = CHOOSE x \in Matching(bind, inters) : TRUE
    BY <1>8 DEF BindAddress
  <2>2. ip \in Matching(bind, inters)
    BY <1>8, <2>1
  <2>. QED BY <1>4, <1>8, <2>2
<1>9. CASE bind.given /\ Matching(bind, inters) = {} /\ Other(inters) # {}
  <2>1. ip = CHOOSE x \in Other(inters) : TRUE
    BY <1>9 DEF BindAddress
  <2>2. ip \in Other(inters)
    BY <1>9, <2>1
  <2>. QED BY <1>4, <1>5, <1>9, <2>2
<1>10. CASE bind.given /\ Matching(bind, inters) = {} /\ Other(inters) = {}
  <2>1. ip = AnyAddress
    BY <1>10 DEF BindAddress
  <2>. QED BY <1>4, <1>10, <2>1
<1>. QED BY <1>6, <1>7, <1>8, <1>9, <1>10
-----------------------------------------------------------------------------
(***************************************************************************)
(* The options in force are those of a file                                *)
(***************************************************************************)
Loaded(f) == LoadConfiguration(f).option

\* Where the option comes from, at every stage that a property speaks of; a
\* file that could not be read has gone no further than "loaded".
OptionInv ==
  /\ stage = "loaded" =>
       file \in Files /\ ~LoadConfiguration(file).err /\ option = Loaded(file)
  /\ stage = "bound" =>
       /\ file \in Files /\ file.state = "toml" /\ interfaces \in Interfaces
       /\ ~ServerPanics(Loaded(file))
       /\ option = InitServerOption(Loaded(file), interfaces)
  /\ stage = "client" =>
       /\ file \in Files /\ file.state = "toml"
       /\ ~ClientPanics(Loaded(file))
       /\ option = InitClientOption(Loaded(file))

LEMMA OptionInit == Init => OptionInv
BY DEF Init, OptionInv

LEMMA OptionInductive == OptionInv /\ [Next]_vars => OptionInv'
<1>. SUFFICES ASSUME OptionInv, [Next]_vars PROVE OptionInv'
  OBVIOUS
<1>1. CASE Load
  <2>1. PICK f \in Files :
          /\ file' = f /\ option' = LoadConfiguration(f).option
          /\ stage' = IF LoadConfiguration(f).err THEN "panicked" ELSE "loaded"
    BY <1>1 DEF Load
  <2>2. stage' \notin {"bound", "client"}
    BY <2>1
  <2>. QED BY <2>1, <2>2 DEF OptionInv, Loaded
<1>2. CASE BindServer
  <2>1. CASE Panic
    BY <2>1 DEF Panic, OptionInv
  <2>2. CASE /\ ~ServerPanics(option) /\ stage' = "bound" /\ interfaces' \in Interfaces
             /\ option' = InitServerOption(option, interfaces') /\ file' = file
    <3>1. file \in Files /\ ~LoadConfiguration(file).err /\ option = Loaded(file)
      BY <1>2 DEF BindServer, OptionInv
    <3>2. file.state = "toml"
      BY <2>2, <3>1, EmptyOptionPanics, DeploymentAssumption DEF DeploymentAssumption, Loaded
    <3>. QED BY <2>2, <3>1, <3>2 DEF OptionInv
  <2>. QED BY <1>2, <2>1, <2>2 DEF BindServer
<1>3. CASE StartClient
  <2>1. CASE Panic
    BY <2>1 DEF Panic, OptionInv
  <2>2. CASE /\ ~ClientPanics(option) /\ stage' = "client"
             /\ option' = InitClientOption(option) /\ file' = file
    <3>1. file \in Files /\ ~LoadConfiguration(file).err /\ option = Loaded(file)
      BY <1>3 DEF StartClient, OptionInv
    <3>2. file.state = "toml"
      BY <2>2, <3>1, EmptyOptionPanics, DeploymentAssumption DEF DeploymentAssumption, Loaded
    <3>. QED BY <2>2, <3>1, <3>2 DEF OptionInv
  <2>. QED BY <1>3, <2>1, <2>2 DEF StartClient
<1>4. CASE Publish \/ Assemble \/ TimerTurn \/ OpenFile
  <2>1. stage' \in {"panicked", "published", "serving", "opened"}
    BY <1>4 DEF Publish, Assemble, TimerTurn, OpenFile, Panic
  <2>. QED BY <2>1 DEF OptionInv
<1>5. CASE UNCHANGED <<stage, file, interfaces, option>>
  BY <1>5 DEF OptionInv
<1>6. CASE LookupFile \/ LookupAndCall \/ UNCHANGED vars
  BY <1>5, <1>6 DEF LookupFile, LookupAndCall, vars
<1>. QED BY <1>1, <1>2, <1>3, <1>4, <1>6 DEF Next

LEMMA OptionHolds == Spec => []OptionInv
BY OptionInit, OptionInductive, PTL DEF Spec

\* What a bound server has taken from its file.
LEMMA BoundServer ==
  ASSUME OptionInv, stage = "bound"
  PROVE  /\ IsFile(file) /\ file.state = "toml" /\ interfaces \in Seq(Seq(Address))
         /\ file.option.Server \in Server
         /\ option.Server.RunMode = file.option.Server.RunMode
         /\ option.Server.BindAddress = BindAddress(file.option.Server.BindAddress, interfaces)
         /\ option.Clusters = Loaded(file).Clusters
         /\ file.option.Server.BindAddress.port
         /\ file.option.Server.RunMode \in DOMAIN Loaded(file).Clusters
<1>1. /\ file \in Files /\ file.state = "toml" /\ interfaces \in Interfaces
      /\ ~ServerPanics(Loaded(file))
      /\ option = InitServerOption(Loaded(file), interfaces)
  BY DEF OptionInv
<1>2. IsFile(file) /\ interfaces \in Seq(Seq(Address))
  BY <1>1, DeploymentAssumption DEF DeploymentAssumption
<1>3. Loaded(file).Server = file.option.Server
  BY <1>1, <1>2, LoadedFile DEF Loaded
<1>4. file.option.Server \in Server
  BY <1>1, <1>2 DEF IsFile
<1>5. /\ option.Server.RunMode = file.option.Server.RunMode
      /\ option.Server.BindAddress = BindAddress(file.option.Server.BindAddress, interfaces)
      /\ option.Clusters = Loaded(file).Clusters
  BY <1>1, <1>2, ServerInit DEF Loaded
<1>. QED BY <1>1, <1>2, <1>3, <1>4, <1>5 DEF ServerPanics

\* Nothing gets past the options but those of a file that was read and names a
\* cluster, whatever files there are.
THEOREM OptionsValid == Spec => []OnlyValidFilesGetOn
<1>1. OptionInv => OnlyValidFilesGetOn
  <2>. SUFFICES ASSUME OptionInv PROVE OnlyValidFilesGetOn
    OBVIOUS
  <2>1. CASE stage = "bound"
    <3>1. /\ IsFile(file) /\ file.state = "toml" /\ file.option.Server.BindAddress.port
          /\ file.option.Server.RunMode \in DOMAIN Loaded(file).Clusters
      BY <2>1, BoundServer
    <3>2. file.option.Server.RunMode \in DOMAIN file.option.Clusters
      BY <3>1, ClustersInForce DEF Loaded
    <3>. QED BY <2>1, <3>1, <3>2 DEF OnlyValidFilesGetOn
  <2>2. CASE stage = "client"
    <3>1. file \in Files /\ file.state = "toml" /\ ~ClientPanics(Loaded(file))
      BY <2>2 DEF OptionInv
    <3>2. IsFile(file)
      BY <3>1, DeploymentAssumption DEF DeploymentAssumption
    <3>3. Loaded(file).Client.RunMode = file.option.Client.RunMode
      BY <3>1, <3>2, LoadedFile DEF Loaded
    <3>4. file.option.Client.RunMode \in DOMAIN Loaded(file).Clusters
      BY <3>1, <3>3 DEF ClientPanics
    <3>5. file.option.Client.RunMode \in DOMAIN file.option.Clusters
      BY <3>2, <3>4, ClustersInForce DEF Loaded
    <3>. QED BY <2>2, <3>1, <3>5 DEF OnlyValidFilesGetOn
  <2>. QED BY <2>1, <2>2 DEF OnlyValidFilesGetOn
<1>. QED BY <1>1, OptionHolds, PTL

\* The timeouts in force are the configured seconds or the defaults, for every
\* configured number whose nanoseconds fit into 64 bits.
THEOREM TimeoutsCorrect == Spec => []TimeoutsInForce
<1>1. OptionInv => TimeoutsInForce
  <2>. SUFFICES ASSUME OptionInv, stage = "bound" PROVE TimeoutsInForce
    BY DEF TimeoutsInForce
  <2>. DEFINE given == file.option.Clusters[option.Server.RunMode]
              meant(n, default) == (IF n <= 0 THEN default ELSE n) * Second
  <2>1. /\ given \in Cluster
        /\ ServerCluster = WithDefaults(given)
    <3>1. /\ IsFile(file) /\ option.Server.RunMode \in DOMAIN Loaded(file).Clusters
          /\ option.Clusters = Loaded(file).Clusters
      BY BoundServer
    <3>. QED BY <3>1, ClustersInForce DEF ServerCluster, Loaded
  <2>2. \A n \in Number, d \in Nat : meant(n, d) = Positive(n, d) * Second
    <3>1. \A n \in Number : n \in Int
      BY OptionsAssumption DEF Number
    <3>. QED BY <3>1 DEF Positive
  <2>3. given.ProcessTimeout \in Number /\ given.IdleTimeout \in Number
    BY <2>1 DEF Cluster
  <2>. HIDE DEF given
  <2>4. /\ ServerCluster.ProcessTimeout = Timeout(given.ProcessTimeout, 5)
        /\ ServerCluster.IdleTimeout = Timeout(given.IdleTimeout, 300)
    BY <2>1, TimeoutsGiven
  <2>5. ASSUME meant(given.ProcessTimeout, 5) <= MaxInt
        PROVE  ServerCluster.ProcessTimeout = meant(given.ProcessTimeout, 5)
    BY <2>2, <2>3, <2>4, <2>5, TimeoutFits
  <2>6. ASSUME meant(given.IdleTimeout, 300) <= MaxInt
        PROVE  ServerCluster.IdleTimeout = meant(given.IdleTimeout, 300)
    BY <2>2, <2>3, <2>4, <2>6, TimeoutFits
  <2>. QED BY <2>5, <2>6 DEF TimeoutsInForce, given
<1>. QED BY <1>1, OptionHolds, PTL

\* For every pattern and every machine: the server binds an address of the
\* machine that is not loopback or any, without a pattern any, and with one an
\* address that matches it if there is such an address.
THEOREM BindsCorrect == Spec => []BindsReachably
<1>1. OptionInv => BindsReachably
  <2>. SUFFICES ASSUME OptionInv, stage = "bound" PROVE BindsReachably
    BY DEF BindsReachably
  <2>1. /\ file.option.Server.BindAddress \in Bind /\ interfaces \in Seq(Seq(Address))
        /\ option.Server.BindAddress = BindAddress(file.option.Server.BindAddress, interfaces)
    BY BoundServer DEF Server
  <2>. QED BY <2>1, BoundReachably DEF BindsReachably
<1>. QED BY <1>1, OptionHolds, PTL
-----------------------------------------------------------------------------
(***************************************************************************)
(* The table of a FileRegistry                                             *)
(***************************************************************************)
NoEntries == [k \in {} |-> {}]

\* table holds, for each prefix of the entries up to n, the map after them.
Tables(table, entries, n) ==
  table = [i \in 0..n |-> IF i = 0 THEN NoEntries ELSE Added(table[i - 1], entries[i])]

\* What the map must be after the first n entries.
Right(map, entries, n) ==
  /\ \A k : k \in DOMAIN map
       <=> \E i \in 1..n : entries[i].hostPorts # {} /\ KeyOf(entries[i]) = k
  /\ \A k \in DOMAIN map : \A h :
       h \in map[k] <=> \E i \in 1..n : KeyOf(entries[i]) = k /\ h \in Metas(entries[i])

\* One more table for one more entry.
LEMMA TablesGrow ==
  ASSUME NEW entries, NEW n \in Nat, NEW table, Tables(table, entries, n)
  PROVE  \E longer : Tables(longer, entries, n + 1)
<1>. DEFINE longer == [i \in 0..(n + 1) |->
                         IF i <= n THEN table[i] ELSE Added(table[n], entries[n + 1])]
            next == [i \in 0..(n + 1) |->
                       IF i = 0 THEN NoEntries ELSE Added(longer[i - 1], entries[i])]
<1>1. \A i \in 0..n : table[i] = IF i = 0 THEN NoEntries ELSE Added(table[i - 1], entries[i])
  <2>. DEFINE body == [i \in 0..n |-> IF i = 0 THEN NoEntries ELSE Added(table[i - 1], entries[i])]
  <2>1. table = body
    BY DEF Tables
  <2>2. \A i \in 0..n : body[i] = IF i = 0 THEN NoEntries ELSE Added(table[i - 1], entries[i])
    OBVIOUS
  <2>. HIDE DEF body
  <2>. QED BY <2>1, <2>2
<1>2. ASSUME NEW i \in 0..(n + 1) PROVE longer[i] = next[i]
  <2>1. CASE i = 0
    <3>1. longer[0] = table[0] /\ table[0] = NoEntries
      BY <1>1
    <3>. QED BY <2>1, <3>1
  <2>2. CASE i \in 1..n
    <3>1. i - 1 \in 0..n /\ i \in 0..n /\ i # 0 /\ i <= n /\ i - 1 <= n /\ i - 1 \in 0..(n + 1)
      BY <2>2
    <3>2. longer[i] = table[i] /\ longer[i - 1] = table[i - 1]
      BY <3>1
    <3>3. next[i] = Added(longer[i - 1], entries[i])
      BY <3>1
    <3>4. table[i] = Added(table[i - 1], entries[i])
      BY <1>1, <3>1
    <3>. QED BY <3>2, <3>3, <3>4
  <2>3. CASE i = n + 1
    <3>1. n \in 0..(n + 1) /\ n + 1 \in 0..(n + 1) /\ n + 1 # 0 /\ ~(n + 1 <= n) /\ n + 1 - 1 = n
      OBVIOUS
    <3>2. longer[n + 1] = Added(table[n], entries[n + 1]) /\ longer[n] = table[n]
      BY <3>1
    <3>3. next[n + 1] = Added(longer[n], entries[n + 1])
      BY <3>1
    <3>. QED BY <2>3, <3>2, <3>3
  <2>. QED BY <2>1, <2>2, <2>3
<1>3. longer = next
  <2>1. longer = [i \in 0..(n + 1) |-> longer[i]] /\ next = [i \in 0..(n + 1) |-> next[i]]
    OBVIOUS
  <2>. HIDE DEF longer, next
  <2>. QED BY <1>2, <2>1
<1>. QED BY <1>3 DEF Tables

\* So there are tables for all entries: no prefix with tables is the longest but
\* the whole.
LEMMA TablesExist ==
  ASSUME NEW entries, NEW n \in Nat
  PROVE  \E table : Tables(table, entries, n)
<1>. DEFINE Good == {m \in 0..n : \E table : Tables(table, entries, m)}
<1>1. 0 \in Good
  <2>. DEFINE first == [i \in 0..0 |-> NoEntries]
  <2>1. first = [i \in 0..0 |-> IF i = 0 THEN NoEntries ELSE Added(first[i - 1], entries[i])]
    OBVIOUS
  <2>2. Tables(first, entries, 0)
    BY <2>1 DEF Tables
  <2>. QED BY <2>2
<1>2. PICK m \in Good : \A k \in Good : k <= m
  <2>1. Good \in SUBSET (0..n) /\ IsFiniteSet(0..n)
    BY FS_Interval
  <2>2. IsFiniteSet(Good) /\ Good \in SUBSET Nat
    BY <2>1, FS_Subset
  <2>. HIDE DEF Good
  <2>. QED BY <1>1, <2>2, GreatestExists
<1>3. ASSUME m < n PROVE FALSE
  <2>1. m \in Nat /\ m + 1 \in 0..n
    BY <1>3
  <2>2. \E table : Tables(table, entries, m + 1)
    BY <2>1, TablesGrow
  <2>3. m + 1 \in Good
    BY <2>1, <2>2
  <2>. HIDE DEF Good
  <2>. QED BY <1>2, <2>1, <2>3
<1>4. m = n
  BY <1>3
<1>. QED BY <1>4

\* An entry adds its hosts under its key and leaves the rest alone.
LEMMA AddedIsRight ==
  ASSUME NEW entries, NEW n \in Nat, NEW map, Right(map, entries, n)
  PROVE  Right(Added(map, entries[n + 1]), entries, n + 1)
<1>. DEFINE s == entries[n + 1]
            more == Added(map, s)
<1>1. \A i : i \in 1..(n + 1) <=> i \in 1..n \/ i = n + 1
  OBVIOUS
<1>2. \A k : k \in DOMAIN more
        <=> k \in DOMAIN map \/ (s.hostPorts # {} /\ k = KeyOf(s))
  BY DEF Added
<1>3. \A k \in DOMAIN more : \A h : h \in more[k]
        <=> (k \in DOMAIN map /\ h \in map[k]) \/ (k = KeyOf(s) /\ h \in Metas(s))
  BY DEF Added
<1>4. s.hostPorts = {} => Metas(s) = {}
  BY DEF Metas
<1>5. \A i \in 1..n : \A h : h \in Metas(entries[i]) => entries[i].hostPorts # {}
  BY DEF Metas
<1>6. ASSUME NEW k
      PROVE  k \in DOMAIN more
               <=> \E i \in 1..(n + 1) : entries[i].hostPorts # {} /\ KeyOf(entries[i]) = k
  BY <1>1, <1>2 DEF Right
<1>7. ASSUME NEW k \in DOMAIN more, NEW h
      PROVE  h \in more[k]
               <=> \E i \in 1..(n + 1) : KeyOf(entries[i]) = k /\ h \in Metas(entries[i])
  <2>1. k \in DOMAIN map /\ h \in map[k]
          <=> \E i \in 1..n : KeyOf(entries[i]) = k /\ h \in Metas(entries[i])
    BY <1>5 DEF Right
  <2>. HIDE DEF more
  <2>. QED BY <1>1, <1>3, <2>1
<1>. HIDE DEF more, s
<1>. QED BY <1>6, <1>7 DEF Right, more, s

LEMMA RegistryIsRight ==
  ASSUME NEW entries, Len(entries) \in Nat
  PROVE  Right(NewFileRegistry(entries), entries, Len(entries))
<1>. DEFINE n == Len(entries)
            table == CHOOSE t : Tables(t, entries, n)
            Good == {m \in 0..n : Right(table[m], entries, m)}
<1>1. Tables(table, entries, n)
  BY TablesExist
<1>2. NewFileRegistry(entries) = table[n]
  BY DEF NewFileRegistry, Tables, NoEntries
<1>. HIDE DEF table
<1>3. table[0] = NoEntries /\ \A i \in 1..n : table[i] = Added(table[i - 1], entries[i])
  <2>. DEFINE body == [i \in 0..n |-> IF i = 0 THEN NoEntries ELSE Added(table[i - 1], entries[i])]
  <2>1. table = body
    BY <1>1 DEF Tables
  <2>2. body[0] = NoEntries /\ \A i \in 1..n : body[i] = Added(table[i - 1], entries[i])
    OBVIOUS
  <2>. HIDE DEF body
  <2>. QED BY <2>1, <2>2
<1>4. 0 \in Good
  <2>1. DOMAIN NoEntries = {}
    BY DEF NoEntries
  <2>2. 1..0 = {}
    OBVIOUS
  <2>3. Right(NoEntries, entries, 0)
    BY <2>1, <2>2 DEF Right
  <2>. QED BY <1>3, <2>3
<1>5. PICK m \in Good : \A k \in Good : k <= m
  <2>1. Good \in SUBSET (0..n) /\ IsFiniteSet(0..n)
    BY FS_Interval
  <2>2. IsFiniteSet(Good) /\ Good \in SUBSET Nat
    BY <2>1, FS_Subset
  <2>. HIDE DEF Good
  <2>. QED BY <1>4, <2>2, GreatestExists
<1>6. ASSUME m < n PROVE FALSE
  <2>1. m \in Nat /\ m + 1 \in 1..n /\ m + 1 \in 0..n /\ m + 1 - 1 = m
    BY <1>6
  <2>2. Right(table[m], entries, m)
    OBVIOUS
  <2>3. table[m + 1] = Added(table[m], entries[m + 1])
    BY <1>3, <2>1
  <2>4. Right(table[m + 1], entries, m + 1)
    BY <2>1, <2>2, <2>3, AddedIsRight
  <2>5. m + 1 \in Good
    BY <2>1, <2>4
  <2>. HIDE DEF Good
  <2>. QED BY <1>5, <2>1, <2>5
<1>7. m = n
  BY <1>6
<1>. QED BY <1>2, <1>7
-----------------------------------------------------------------------------
(***************************************************************************)
(* What a client finds in a file                                           *)
(***************************************************************************)
\* Plain uris share a key with the groups that agree, and with no others.
LEMMA SameKey ==
  ASSUME NEW u \in Name, NEW v \in Name, NEW g \in Name, NEW h \in Name, Plain(u), Plain(v)
  PROVE  BuildServiceUri(u, g) = BuildServiceUri(v, h) <=> u = v /\ SameGroup(g, h)
<1>1. BuildServiceUri(u, g) = BuildServiceUri(v, h) => u = v /\ SameGroup(g, h)
  BY NodesDistinct, GroupsAgree
<1>2. u = v /\ SameGroup(g, h) => BuildServiceUri(u, g) = BuildServiceUri(v, h)
  BY DEF SameGroup, BuildServiceUri
<1>. QED BY <1>1, <1>2

LEMMA FindsExactly ==
  ASSUME NEW entries \in Seq(LocalService), \A s \in Range(entries) : Plain(s.uri),
         NEW uri \in Name, NEW gid \in Name, Plain(uri)
  PROVE  {m.hostPort : m \in GetFileService(NewFileRegistry(entries), uri, PROTOCOL, gid)} =
           UNION {s.hostPorts : s \in
                    {t \in Range(entries) : /\ t.uri = uri
                                            /\ SameGroup(t.gid, gid)
                                            /\ t.proto \in {"", PROTOCOL}}}
<1>. DEFINE map == NewFileRegistry(entries)
            key == BuildServiceUri(uri, gid)
            n == Len(entries)
            found == GetFileService(map, uri, PROTOCOL, gid)
            Wanted(t) == /\ t.uri = uri
                         /\ SameGroup(t.gid, gid)
                         /\ t.proto \in {"", PROTOCOL}
<1>1. /\ n \in Nat /\ DOMAIN entries = 1..n
      /\ \A i \in 1..n : entries[i] \in LocalService /\ entries[i] \in Range(entries)
  BY DEF Range
<1>2. Right(map, entries, n)
  BY <1>1, RegistryIsRight
<1>. HIDE DEF map, n
<1>3. \A i \in 1..n : KeyOf(entries[i]) = key
        <=> entries[i].uri = uri /\ SameGroup(entries[i].gid, gid)
  <2>. SUFFICES ASSUME NEW i \in 1..n
                PROVE  KeyOf(entries[i]) = key
                         <=> entries[i].uri = uri /\ SameGroup(entries[i].gid, gid)
    OBVIOUS
  <2>1. entries[i].uri \in Name /\ entries[i].gid \in Name /\ Plain(entries[i].uri)
    BY <1>1 DEF LocalService
  <2>. QED BY <2>1, SameKey DEF KeyOf
<1>4. \A m : m \in found
        <=> /\ m.proto = PROTOCOL
            /\ \E i \in 1..n : KeyOf(entries[i]) = key /\ m \in Metas(entries[i])
  <2>1. \A m : m \in found <=> key \in DOMAIN map /\ m \in map[key] /\ m.proto = PROTOCOL
    BY DEF GetFileService
  <2>2. \A i \in 1..n : \A m \in Metas(entries[i]) : entries[i].hostPorts # {}
    BY DEF Metas
  <2>3. key \in DOMAIN map <=> \E i \in 1..n : entries[i].hostPorts # {} /\ KeyOf(entries[i]) = key
    BY <1>2 DEF Right
  <2>4. key \in DOMAIN map => \A m : m \in map[key] <=>
          \E i \in 1..n : KeyOf(entries[i]) = key /\ m \in Metas(entries[i])
    BY <1>2 DEF Right
  <2>. HIDE DEF found, key
  <2>. QED BY <2>1, <2>2, <2>3, <2>4
<1>5. \A i \in 1..n : \A m : m \in Metas(entries[i]) /\ m.proto = PROTOCOL
        <=> \E hp \in entries[i].hostPorts :
              m = MetaOf(entries[i], hp) /\ entries[i].proto \in {"", PROTOCOL}
  <2>1. \A i \in 1..n : \A hp : MetaOf(entries[i], hp).proto = PROTOCOL
          <=> entries[i].proto \in {"", PROTOCOL}
    BY DEF MetaOf
  <2>. QED BY <2>1 DEF Metas
<1>6. \A i \in 1..n : \A hp : MetaOf(entries[i], hp).hostPort = hp
  BY DEF MetaOf
<1>. HIDE DEF found, key
<1>7. ASSUME NEW x
      PROVE  (\E m \in found : m.hostPort = x)
               <=> \E t \in Range(entries) : Wanted(t) /\ x \in t.hostPorts
  <2>1. ASSUME NEW m \in found, m.hostPort = x
        PROVE  \E t \in Range(entries) : Wanted(t) /\ x \in t.hostPorts
    <3>1. PICK i \in 1..n : KeyOf(entries[i]) = key /\ m \in Metas(entries[i]) /\ m.proto = PROTOCOL
      BY <1>4
    <3>2. PICK hp \in entries[i].hostPorts :
            m = MetaOf(entries[i], hp) /\ entries[i].proto \in {"", PROTOCOL}
      BY <1>5, <3>1
    <3>3. hp = x
      BY <1>6, <2>1, <3>2
    <3>. QED BY <1>1, <1>3, <3>1, <3>2, <3>3
  <2>2. ASSUME NEW t \in Range(entries), Wanted(t), x \in t.hostPorts
        PROVE  \E m \in found : m.hostPort = x
    <3>1. PICK i \in 1..n : t = entries[i]
      BY <1>1 DEF Range
    <3>2. KeyOf(entries[i]) = key
      BY <1>3, <2>2, <3>1
    <3>3. MetaOf(entries[i], x) \in Metas(entries[i]) /\ MetaOf(entries[i], x).proto = PROTOCOL
      BY <1>5, <2>2, <3>1
    <3>4. MetaOf(entries[i], x) \in found
      BY <1>4, <3>2, <3>3
    <3>. QED BY <1>6, <3>4
  <2>. QED BY <2>1, <2>2
<1>. QED
  <2>1. \A x : x \in {m.hostPort : m \in found} <=> \E m \in found : m.hostPort = x
    OBVIOUS
  <2>2. \A x : x \in UNION {s.hostPorts : s \in {t \in Range(entries) : Wanted(t)}}
          <=> \E t \in Range(entries) : Wanted(t) /\ x \in t.hostPorts
    OBVIOUS
  <2>3. {m.hostPort : m \in found} = UNION {s.hostPorts : s \in {t \in Range(entries) : Wanted(t)}}
    <3>. HIDE DEF Wanted
    <3>. QED BY <1>7, <2>1, <2>2
  <2>. QED BY <2>3 DEF found, map

\* A client's table is that of its file, and it looks nothing up before.
FileInv ==
  /\ stage = "opened" => locals \in LocalFiles /\ uri2Services = NewFileRegistry(locals)
  /\ request.kind = "file" => stage = "opened"

LEMMA FileInit == Init => FileInv
BY DEF Init, FileInv, NoRequest

LEMMA FileInductive == FileInv /\ [Next]_vars => FileInv'
<1>. SUFFICES ASSUME FileInv, [Next]_vars PROVE FileInv'
  OBVIOUS
<1>1. CASE Load \/ BindServer \/ StartClient \/ Publish \/ Assemble \/ TimerTurn
  <2>1. stage \notin {"opened"} /\ stage' \notin {"opened"} /\ request' = request
    BY <1>1 DEF Load, BindServer, StartClient, Publish, Assemble, TimerTurn, Panic
  <2>. QED BY <2>1 DEF FileInv
<1>2. CASE OpenFile
  BY <1>2 DEF OpenFile, Panic, FileInv
<1>3. CASE LookupFile
  BY <1>3 DEF LookupFile, FileInv
<1>4. CASE LookupAndCall
  <2>1. request'.kind = "zk" /\ stage = "serving" /\ stage' = stage
    BY <1>4 DEF LookupAndCall
  <2>. QED BY <2>1 DEF FileInv
<1>5. CASE UNCHANGED vars
  BY <1>5 DEF FileInv, vars
<1>. QED BY <1>1, <1>2, <1>3, <1>4, <1>5 DEF Next

\* A client of a FileRegistry gets the hosts of its service, group and protocol
\* and no others, for every yaml file of services with plain uris.
THEOREM FileLookupCorrect == Spec => []FileLookupExact
<1>1. Init => FileLookupExact
  <2>1. Init => request.kind # "file"
    BY DEF Init, NoRequest
  <2>. QED BY <2>1 DEF FileLookupExact
<1>2. FileInv /\ FileLookupExact /\ [Next]_vars => FileLookupExact'
  <2>. SUFFICES ASSUME FileInv, FileLookupExact, [Next]_vars PROVE FileLookupExact'
    OBVIOUS
  <2>1. CASE LookupFile
    <3>1. PICK uri \in Uris, gid \in Groups :
            request' = [kind |-> "file", uri |-> uri, gid |-> gid,
                        found |-> GetFileService(uri2Services, uri, PROTOCOL, gid)]
      BY <2>1 DEF LookupFile
    <3>2. /\ request'.uri = uri /\ request'.gid = gid
          /\ request'.found = GetFileService(uri2Services, uri, PROTOCOL, gid)
      BY <3>1
    <3>3. locals' = locals /\ locals \in LocalFiles /\ uri2Services = NewFileRegistry(locals)
      BY <2>1 DEF LookupFile, FileInv
    <3>4. locals \in Seq(LocalService) /\ uri \in Name /\ gid \in Name
      BY <3>3, DeploymentAssumption DEF DeploymentAssumption
    <3>5. ASSUME \A s \in Range(locals) : Plain(s.uri), Plain(uri)
          PROVE  {m.hostPort : m \in GetFileService(uri2Services, uri, PROTOCOL, gid)} =
                   UNION {s.hostPorts : s \in
                            {t \in Range(locals) : /\ t.uri = uri
                                                   /\ SameGroup(t.gid, gid)
                                                   /\ t.proto \in {"", PROTOCOL}}}
      BY <3>3, <3>4, <3>5, FindsExactly
    <3>. QED BY <3>2, <3>3, <3>5 DEF FileLookupExact
  <2>2. CASE LookupAndCall
    <3>1. request'.kind = "zk"
      BY <2>2 DEF LookupAndCall
    <3>. QED BY <3>1 DEF FileLookupExact
  <2>3. CASE OpenFile
    <3>1. request'.kind # "file"
      BY <2>3 DEF OpenFile, Panic, FileInv
    <3>. QED BY <3>1 DEF FileLookupExact
  <2>4. CASE locals' = locals /\ request' = request
    BY <2>4 DEF FileLookupExact
  <2>5. CASE Load \/ BindServer \/ StartClient \/ Publish \/ Assemble \/ TimerTurn \/ UNCHANGED vars
    BY <2>4, <2>5 DEF Load, BindServer, StartClient, Publish, Assemble, TimerTurn, Panic, vars
  <2>. QED BY <2>1, <2>2, <2>3, <2>5 DEF Next
<1>. QED BY <1>1, <1>2, FileInit, FileInductive, PTL DEF Spec
-----------------------------------------------------------------------------
(***************************************************************************)
(* Types                                                                   *)
(***************************************************************************)
LEMMA UriIsName ==
  ASSUME NEW u \in Name, NEW g \in Name PROVE BuildServiceUri(u, g) \in Name
<1>1. u \in Seq(Parts) /\ g \in Seq(Parts) /\ Len(u) \in Nat \ {0}
  BY EmptySeq DEF Name
<1>2. u \o g \in Seq(Parts) /\ Len(u \o g) = Len(u) + Len(g)
  BY <1>1, ConcatProperties
<1>3. u \o g # <<>>
  BY <1>1, <1>2
<1>. QED BY <1>2, <1>3 DEF BuildServiceUri, Name

\* No key without hosts.
LEMMA NoEmptyKeys ==
  ASSUME NEW entries \in Seq(LocalService), NEW k \in DOMAIN NewFileRegistry(entries)
  PROVE  NewFileRegistry(entries)[k] # {}
<1>1. Right(NewFileRegistry(entries), entries, Len(entries))
  BY RegistryIsRight
<1>2. PICK i \in 1..Len(entries) : entries[i].hostPorts # {} /\ KeyOf(entries[i]) = k
  BY <1>1 DEF Right
<1>3. PICK hp \in entries[i].hostPorts : TRUE
  BY <1>2
<1>4. MetaOf(entries[i], hp) \in Metas(entries[i])
  BY <1>3 DEF Metas
<1>. QED BY <1>1, <1>2, <1>4 DEF Right

SizesOK ==
  \A name \in DOMAIN option.Clusters : \A f \in Sizes : option.Clusters[name][f] \in 1..MaxInt

LEMMA LoadedSizes ==
  ASSUME NEW f, IsFile(f), NEW name \in DOMAIN Loaded(f).Clusters, NEW g \in Sizes
  PROVE  Loaded(f).Clusters[name][g] \in 1..MaxInt
BY ClustersInForce, SizesInForce DEF Loaded

LEMMA SizesInductive == OptionInv /\ OptionInv' /\ SizesOK /\ [Next]_vars => SizesOK'
<1>. SUFFICES ASSUME OptionInv, OptionInv', SizesOK, [Next]_vars PROVE SizesOK'
  OBVIOUS
<1>1. ASSUME NEW f \in Files, option'.Clusters = Loaded(f).Clusters PROVE SizesOK'
  <2>1. IsFile(f)
    BY DeploymentAssumption DEF DeploymentAssumption
  <2>. QED BY <1>1, <2>1, LoadedSizes DEF SizesOK
<1>2. CASE option' = option
  BY <1>2 DEF SizesOK
<1>3. CASE Load
  BY <1>1, <1>3 DEF Load, Loaded
<1>4. CASE BindServer
  <2>1. CASE stage' = "bound"
    <3>1. file' \in Files /\ file'.state = "toml" /\ option' = InitServerOption(Loaded(file'), interfaces')
      BY <2>1 DEF OptionInv
    <3>2. IsFile(file')
      BY <3>1, DeploymentAssumption DEF DeploymentAssumption
    <3>3. option'.Clusters = Loaded(file').Clusters
      BY <3>1, <3>2, ServerInit DEF Loaded
    <3>. QED BY <1>1, <3>1, <3>3
  <2>. QED BY <1>2, <1>4, <2>1 DEF BindServer, Panic
<1>5. CASE StartClient
  <2>1. CASE stage' = "client"
    <3>1. file' \in Files /\ file'.state = "toml" /\ option' = InitClientOption(Loaded(file'))
      BY <2>1 DEF OptionInv
    <3>2. IsFile(file')
      BY <3>1, DeploymentAssumption DEF DeploymentAssumption
    <3>3. option'.Clusters = Loaded(file').Clusters
      BY <3>1, <3>2, ClientInit DEF Loaded
    <3>. QED BY <1>1, <3>1, <3>3
  <2>. QED BY <1>2, <1>5, <2>1 DEF StartClient, Panic
<1>6. CASE \/ Publish \/ Assemble \/ TimerTurn \/ OpenFile \/ LookupFile \/ LookupAndCall
           \/ UNCHANGED vars
  BY <1>2, <1>6 DEF Publish, Assemble, TimerTurn, Panic, OpenFile, LookupFile, LookupAndCall, vars
<1>. QED BY <1>3, <1>4, <1>5, <1>6 DEF Next

\* The other parts of TypeOK that a step can disturb.
PublishedOK == \A n \in published : n.key \in Name /\ n.meta.proto = PROTOCOL
TablesOK ==
  /\ \A u \in DOMAIN instances : instances[u].invokesPerClient \in BOOLEAN
  /\ \A k \in DOMAIN uri2Services : uri2Services[k] # {}

LEMMA PublishedInductive == BundleInv' /\ PublishedOK /\ [Next]_vars => PublishedOK'
<1>. SUFFICES ASSUME BundleInv', PublishedOK, [Next]_vars PROVE PublishedOK'
  OBVIOUS
<1>1. CASE Publish
  <2>1. PICK bundle \in Bundles :
          /\ services' = [i \in DOMAIN bundle |-> DefaultGroup(bundle[i])]
          /\ published' \subseteq {AddressNode(services'[i]) : i \in DOMAIN bundle}
    BY <1>1 DEF Publish
  <2>2. ASSUME NEW i \in DOMAIN bundle
        PROVE  /\ AddressNode(services'[i]).key \in Name
               /\ AddressNode(services'[i]).meta.proto = PROTOCOL
    <3>1. services' \in Seq(Service) /\ i \in DOMAIN services'
      BY <2>1 DEF BundleInv
    <3>2. services'[i] \in Service
      BY <3>1
    <3>3. services'[i].uri \in Name /\ services'[i].gid \in Name
      BY <3>2 DEF Service
    <3>. QED BY <3>3, UriIsName DEF AddressNode
  <2>. QED BY <2>1, <2>2 DEF PublishedOK
<1>2. CASE published' = published
  BY <1>2 DEF PublishedOK
<1>3. CASE \/ Load \/ BindServer \/ StartClient \/ Assemble \/ TimerTurn \/ OpenFile
           \/ LookupFile \/ LookupAndCall \/ UNCHANGED vars
  BY <1>2, <1>3 DEF Load, BindServer, StartClient, Assemble, TimerTurn, Panic, OpenFile,
     LookupFile, LookupAndCall, vars
<1>. QED BY <1>1, <1>3 DEF Next

LEMMA TablesInductive == BundleInv /\ TablesOK /\ [Next]_vars => TablesOK'
<1>. SUFFICES ASSUME BundleInv, TablesOK, [Next]_vars PROVE TablesOK'
  OBVIOUS
<1>1. CASE instances' = instances /\ uri2Services' = uri2Services
  BY <1>1 DEF TablesOK
<1>2. CASE instances' = Instances(services) /\ uri2Services' = uri2Services
  <2>1. ASSUME NEW u \in DOMAIN Instances(services)
        PROVE  Instances(services)[u].invokesPerClient \in BOOLEAN
    <3>1. services \in Seq(Service)
      BY DEF BundleInv
    <3>2. PICK s \in Range(services) : Instances(services)[u] = Entry(s)
      BY <3>1, TableHasServices
    <3>3. Entry(s).invokesPerClient = (s.methods # <<>>)
      BY Zenon DEF Entry
    <3>4. Entry(s).invokesPerClient \in BOOLEAN
      BY <3>3, Zenon
    <3>. QED BY <3>2, <3>4, Zenon
  <2>. QED BY <1>2, <2>1 DEF TablesOK
<1>3. ASSUME OpenFile, uri2Services' # uri2Services PROVE TablesOK'
  <2>1. PICK entries \in LocalFiles : uri2Services' = NewFileRegistry(entries)
    BY <1>3 DEF OpenFile, Panic
  <2>2. entries \in Seq(LocalService) /\ instances' = instances
    BY <1>3, DeploymentAssumption DEF DeploymentAssumption, OpenFile, Panic
  <2>3. \A k \in DOMAIN NewFileRegistry(entries) : NewFileRegistry(entries)[k] # {}
    BY <2>2, NoEmptyKeys
  <2>. QED BY <2>1, <2>2, <2>3 DEF TablesOK
<1>4. CASE Assemble
  BY <1>1, <1>2, <1>4 DEF Assemble, Panic
<1>5. CASE \/ Load \/ BindServer \/ StartClient \/ Publish \/ TimerTurn
           \/ LookupFile \/ LookupAndCall \/ UNCHANGED vars
           \/ OpenFile /\ uri2Services' = uri2Services
  BY <1>1, <1>5 DEF Load, BindServer, StartClient, Publish, TimerTurn, Panic, OpenFile,
     LookupFile, LookupAndCall, vars
<1>. QED BY <1>3, <1>4, <1>5 DEF Next

\* Where the process is, and what it reads there.
StageOK ==
  /\ stage \in Stage
  /\ file \in Files \cup {NoFile}
  /\ interfaces \in Interfaces \cup {<<>>}
  /\ locals \in LocalFiles \cup {<<>>}
  /\ request.kind \in {"none", "zk", "file"}

LEMMA StageInductive == StageOK /\ [Next]_vars => StageOK'
<1>. SUFFICES ASSUME StageOK, [Next]_vars PROVE StageOK'
  OBVIOUS
<1>1. CASE Load \/ BindServer \/ StartClient
  BY <1>1 DEF Load, BindServer, StartClient, Panic, StageOK, Stage
<1>2. CASE Publish \/ Assemble \/ TimerTurn
  BY <1>2 DEF Publish, Assemble, TimerTurn, Panic, StageOK, Stage
<1>3. CASE OpenFile
  BY <1>3 DEF OpenFile, Panic, StageOK, Stage
<1>4. CASE LookupFile \/ LookupAndCall
  <2>1. request'.kind \in {"zk", "file"}
    BY <1>4 DEF LookupFile, LookupAndCall
  <2>2. UNCHANGED <<stage, file, interfaces, locals>>
    BY <1>4 DEF LookupFile, LookupAndCall
  <2>. QED BY <2>1, <2>2 DEF StageOK
<1>5. CASE UNCHANGED vars
  BY <1>5 DEF StageOK, vars
<1>. QED BY <1>1, <1>2, <1>3, <1>4, <1>5 DEF Next

\* The types, among them that no size is left at zero, that no service is
\* without group and that no key of a table is without hosts.
THEOREM DeploymentTypes == Spec => []TypeOK
<1>1. Init => StageOK /\ SizesOK /\ PublishedOK /\ TablesOK
  <2>. SUFFICES ASSUME Init PROVE StageOK /\ SizesOK /\ PublishedOK /\ TablesOK
    OBVIOUS
  <2>1. StageOK
    BY DEF Init, StageOK, Stage, NoRequest
  <2>2. DOMAIN option.Clusters = {}
    <3>1. NoOption.Clusters = [name \in {} |-> name]
      BY Zenon DEF NoOption
    <3>2. DOMAIN [name \in {} |-> name] = {}
      OBVIOUS
    <3>. QED BY <3>1, <3>2, Zenon DEF Init
  <2>3. DOMAIN instances = {} /\ DOMAIN uri2Services = {} /\ published = {}
    BY DEF Init, NoTable
  <2>. QED BY <2>1, <2>2, <2>3 DEF SizesOK, PublishedOK, TablesOK
<1>2. StageOK /\ SizesOK /\ PublishedOK /\ TablesOK /\ BundleInv => TypeOK
  <2>. SUFFICES ASSUME StageOK, SizesOK, PublishedOK, TablesOK, BundleInv PROVE TypeOK
    OBVIOUS
  <2>1. \A i \in DOMAIN services : services[i].gid # Empty
    BY DEF BundleInv, Range
  <2>. QED BY <2>1 DEF StageOK, SizesOK, PublishedOK, TablesOK, TypeOK, Sizes
<1>. QED BY <1>1, <1>2, StageInductive, SizesInductive, PublishedInductive, TablesInductive,
         BundleInit, BundleInductive, OptionInit, OptionInductive, PTL DEF Spec
=============================================================================
