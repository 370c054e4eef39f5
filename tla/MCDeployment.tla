---------------------------- MODULE MCDeployment ----------------------------
EXTENDS Deployment

NoCluster ==
  [Registry |-> "zk", ProcessTimeout |-> 0, IdleTimeout |-> 0, MaxDispatcherSize |-> 0,
   WorkerPoolSize |-> 0, ReadBufferSize |-> 0, WriteBufferSize |-> 0,
   WriteChannelSize |-> 0, ReadChannelSize |-> 0, FutureSize |-> 0]

Clusters ==
  {[NoCluster EXCEPT !.Registry = r, !.ProcessTimeout = t, !.IdleTimeout = 2 * t] :
     r \in {"zk", "file", "other"}, t \in {-1, 0, 150, 400}}
    \cup {[NoCluster EXCEPT !.MaxDispatcherSize = d, !.WorkerPoolSize = w,
                            !.FutureSize = 100 * 10000 + w] :
            d \in {-1, 50}, w \in {0, 1}}

Binds ==
  {[given |-> FALSE, matches |-> {}, port |-> TRUE],
   [given |-> TRUE, matches |-> {"10.0.0.1"}, port |-> FALSE]}
    \cup [given : {TRUE}, matches : SUBSET {"10.0.0.1", "10.0.0.2", "127.0.0.1"}, port : {TRUE}]

Config(mode, bind, clusters) ==
  [Server |-> [RunMode |-> mode, BindAddress |-> bind, Compress |-> "", IsPre |-> FALSE],
   Client |-> [RunMode |-> mode, Compress |-> "none", SelectorStrategy |-> "ketama",
               SlowLog |-> {}],
   Clusters |-> clusters]

Online(c) == [name \in {"online"} |-> c]

SomeFiles ==
  {[state |-> s] : s \in {"missing", "malformed", "unreadable"}}
    \cup {[state |-> "toml", option |-> Config(mode, bind, Online(c))] :
            mode \in {"online"}, bind \in Binds, c \in {NoCluster}}
    \cup {[state |-> "toml",
           option |-> Config(mode, [given |-> FALSE, matches |-> {}, port |-> TRUE], Online(c))] :
            mode \in {"online", "", "dev"}, c \in Clusters}

Lo == [ip |-> "127.0.0.1", kind |-> "loopback"]
V6 == [ip |-> "fe80::1", kind |-> "v6"]
One == [ip |-> "10.0.0.1", kind |-> "v4"]
Two == [ip |-> "10.0.0.2", kind |-> "v4"]

Short(S) == {<<>>} \cup {<<x>> : x \in S} \cup {<<x, y>> : x \in S, y \in S}

SomeInterfaces ==
  Short({<<>>, <<Lo>>, <<Lo, V6>>, <<One>>, <<V6, One>>, <<Two>>, <<One, Two>>, <<Lo, Two>>})

\* The names "Get" and "GET", one type that is accepted and two that are not.
Get(case, outs) == [name |-> [word |-> "get", case |-> case], outs |-> outs]
Put == [name |-> [word |-> "put", case |-> "Put"], outs |-> <<"error">>]
Interface ==
  {<<>>, <<Get("GET", <<"value", "error">>), Get("Get", <<"error">>)>>,
   <<Get("Get", <<"error">>), Put>>, <<Get("Get", <<"error", "value">>)>>,
   <<Put, Get("Get", <<>>)>>}

A == <<"a">>
AG == <<"a", "g">>
G == <<"g">>

SomeServices ==
  {[uri |-> u, gid |-> g, implements |-> TRUE, methods |-> m] :
     u \in {A, AG}, g \in {Empty, G}, m \in Interface}
    \cup {[uri |-> <<"b">>, gid |-> <<"h">>, implements |-> TRUE, methods |-> <<Put>>]}
    \cup {[uri |-> A, gid |-> Empty, implements |-> FALSE, methods |-> <<Put>>]}

SomeBundles == Short(SomeServices)

Locals ==
  [uri : {A, <<"b">>}, gid : {Empty, ALL_GROUP, G}, proto : {"", "v2"}, isPre : {FALSE},
   hostPorts : {{}, {"h1"}, {"h1", "h2"}}]
    \cup [uri : {AG}, gid : {Empty}, proto : {"v1"}, isPre : {FALSE}, hostPorts : {{"h3"}}]

SomeLocalFiles == Short(Locals)

AskedUris == {A, AG}
AskedGroups == {Empty, ALL_GROUP, G}
=============================================================================
