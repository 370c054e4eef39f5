------------------------------- MODULE Options -------------------------------
(***************************************************************************)
(* option.go: what LoadConfiguration makes of a configuration file, and    *)
(* what InitServerOption and InitClientOption make of the result.  A file  *)
(* is what the TOML decoder yields for it; a bind address is a pattern,    *)
(* given by the machine's addresses it matches, and a port.                *)
(***************************************************************************)
EXTENDS Integers, Sequences, SequencesExt

CONSTANTS
  Second,  \* time.Second, in nanoseconds
  MaxInt   \* the largest int64

ASSUME OptionsAssumption ==
  /\ Second \in Nat \ {0} /\ MaxInt \in Nat \ {0}
  /\ Second <= MaxInt /\ 100 * 10000 <= MaxInt

(***************************************************************************)
(* Option and Cluster, as TOML fills them in, and the files it comes from. *)
(***************************************************************************)
Number == -(MaxInt + 1)..MaxInt

Cluster ==
  [Registry : STRING, ProcessTimeout : Number, IdleTimeout : Number,
   MaxDispatcherSize : Number, WorkerPoolSize : Number, ReadBufferSize : Number,
   WriteBufferSize : Number, WriteChannelSize : Number, ReadChannelSize : Number,
   FutureSize : Number]

Bind == [given : BOOLEAN, matches : SUBSET STRING, port : BOOLEAN]
Server == [RunMode : STRING, BindAddress : Bind, Compress : STRING, IsPre : BOOLEAN]
Client ==
  [RunMode : STRING, Compress : STRING, SelectorStrategy : STRING, SlowLog : SUBSET BOOLEAN]

IsFile(f) ==
  \/ f \in [state : {"missing", "malformed", "unreadable"}]
  \/ /\ f \in [state : {"toml"},
                option : [Server : Server, Client : Client, Clusters : {f.option.Clusters}]]
     /\ \A name \in DOMAIN f.option.Clusters : f.option.Clusters[name] \in Cluster

\* Arithmetic in 64 bits.
Int64(n) == ((n + MaxInt + 1) % (2 * (MaxInt + 1))) - (MaxInt + 1)

Positive(n, default) == IF n > 0 THEN n ELSE default

SizeDefault ==
  [MaxDispatcherSize |-> 8000, ReadBufferSize |-> 16 * 1024, WriteBufferSize |-> 16 * 1024,
   WriteChannelSize |-> 1000, ReadChannelSize |-> 1000]

\* mutant: the unit is forgotten for a configured timeout
SecondsUnlessGiven(n, default) == IF n > 0 THEN n ELSE default * Second

\* A timeout is configured in seconds and kept in nanoseconds.
Timeout(n, default) == Int64(Positive(n, default) * Second)

\* A cluster once the defaults are in; 0 and less stand for "not given".
WithDefaults(c) ==
  LET size == [f \in DOMAIN SizeDefault |-> Positive(c[f], SizeDefault[f])]
  IN  [f \in DOMAIN c |->
         CASE f \in DOMAIN SizeDefault -> size[f]
           [] f = "WorkerPoolSize" -> Positive(c[f], size.MaxDispatcherSize)
           [] f = "FutureSize" -> IF c[f] <= 100 * 10000 THEN 100 * 10000 ELSE c[f]
           [] f = "IdleTimeout" -> Timeout(c[f], 5 * 60)
           [] f = "ProcessTimeout" -> Timeout(c[f], 5)
           [] OTHER -> c[f]]

\* Option{}: no server, no client, no clusters.  Its BindAddress has no colon.
NoBind == [given |-> FALSE, matches |-> {}, port |-> FALSE]
NoOption ==
  [Server |-> [RunMode |-> "", BindAddress |-> NoBind, Compress |-> "", IsPre |-> FALSE],
   Client |-> [RunMode |-> "", Compress |-> "", SelectorStrategy |-> "", SlowLog |-> {}],
   Clusters |-> [name \in {} |-> name]]

\* A file that cannot be read yields Option{} without an error, for err is the
\* one of Open.
LoadConfiguration(file) ==
  CASE file.state \in {"missing", "malformed"} -> [err |-> TRUE, option |-> NoOption]
    [] file.state = "unreadable" -> [err |-> FALSE, option |-> NoOption]
    [] file.state = "toml" ->
         [err |-> FALSE,
          option |-> [file.option EXCEPT
            !.Client.SlowLog = IF @ = {} THEN {TRUE} ELSE @,
            !.Clusters = [name \in DOMAIN @ |-> WithDefaults(@[name])]]]

-----------------------------------------------------------------------------
(***************************************************************************)
(* InitServerOption.  An interface is a sequence of addresses              *)
(***************************************************************************)
AnyAddress == "0.0.0.0"

IPv4(a) == a.kind = "v4"

Addresses(inters) == UNION {Range(inters[i]) : i \in DOMAIN inters}

\* The first wanted address of the last interface that has one: the loops
\* break out of the addresses only, so that a later interface wins.
LastChoice(inters, wanted) ==
  LET at(i) == {j \in DOMAIN inters[i] : inters[i][j] \in wanted}
      found == {i \in DOMAIN inters : at(i) # {}}
      last == Max(found)
  IN  IF found = {} THEN {} ELSE {inters[last][Min(at(last))].ip}

HasLoopback(addrs) == \E i \in DOMAIN addrs : addrs[i].kind = "loopback"

WithoutLoopback(inters) ==
  [i \in DOMAIN inters |-> IF HasLoopback(inters[i]) THEN <<>> ELSE inters[i]]

Matching(bind, inters) ==
  LastChoice(inters, {a \in Addresses(inters) : IPv4(a) /\ a.ip \in bind.matches})

\* mutant: the second loop does not skip the loopback interface, nor its address
OtherOfAny(inters) == LastChoice(inters, {a \in Addresses(inters) : a.kind # "v6"})

Other(inters) == LastChoice(WithoutLoopback(inters), {a \in Addresses(inters) : IPv4(a)})

\* The address to bind: one that matches the pattern, else one of an interface
\* without loopback, else any.
BindAddress(bind, inters) ==
  CASE ~bind.given -> AnyAddress
    [] bind.given /\ Matching(bind, inters) # {} -> CHOOSE ip \in Matching(bind, inters) : TRUE
    [] bind.given /\ Matching(bind, inters) = {} /\ Other(inters) # {} ->
         CHOOSE ip \in Other(inters) : TRUE
    [] OTHER -> AnyAddress

Compress(given) == IF given = "" THEN "snappy" ELSE given

\* mutant: a run mode without cluster is taken for an empty one
ServerPanicsWithoutPort(option) == ~option.Server.BindAddress.port

\* Without a colon split[1] is out of range; without a cluster it panics too.
ServerPanics(option) ==
  \/ ~option.Server.BindAddress.port
  \/ option.Server.RunMode \notin DOMAIN option.Clusters

InitServerOption(option, inters) ==
  [option EXCEPT !.Server.BindAddress = BindAddress(@, inters),
                 !.Server.Compress = Compress(@)]

-----------------------------------------------------------------------------
(***************************************************************************)
(* InitClientOption; the case of the strategy's letters is abstracted      *)
(***************************************************************************)
ClientPanics(option) == option.Client.RunMode \notin DOMAIN option.Clusters

InitClientOption(option) ==
  [option EXCEPT !.Client.Compress = Compress(@),
                 !.Client.SelectorStrategy = IF @ \in {"ketama", "priority_random"}
                                             THEN @ ELSE "random"]
=============================================================================
