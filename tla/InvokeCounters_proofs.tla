------------------------ MODULE InvokeCounters_proofs ------------------------
(***************************************************************************)
(* Proofs about InvokeCounters, for any number of invocations, clients and *)
(* methods, with the timer pruning at any moment.                          *)
(***************************************************************************)
EXTENDS InvokeCounters, FiniteSetTheorems, TLAPS

-----------------------------------------------------------------------------
(***************************************************************************)
(* The invariant                                                           *)
(***************************************************************************)
\* The types, without the bound on the counts, which Incr keeps only because
\* no invocation is counted twice.
Types ==
  /\ connected \subseteq Clients
  /\ pc \in [Calls -> Stage]
  /\ source \in [Calls -> Clients]
  /\ method \in [Calls -> Methods]
  /\ flow \in [Calls -> Calls]
  /\ counter \in [Calls -> Calls]
  /\ DOMAIN perClient \subseteq Clients
  /\ perClient \in [DOMAIN perClient -> Calls]
  /\ DOMAIN flows = Calls
  /\ \A f \in Calls : DOMAIN flows[f] \subseteq Methods /\ flows[f] \in [DOMAIN flows[f] -> Calls]
  /\ timer \in {"waiting", "scan", "delete"}
  /\ allclients \subseteq Clients
  /\ removeClients \subseteq Clients
  /\ pruned \subseteq Clients

\* The map of a client was made by a call of that client.
MapsOfClients == \A c \in DOMAIN perClient : source[perClient[c]] = c

\* A counter was made by a call of the client and the method it stands for.
CountersOfMethods ==
  \A f \in Calls : \A m \in DOMAIN flows[f] :
    source[flows[f][m]] = source[f] /\ method[flows[f][m]] = m

\* An invocation works on a map of its client, the one in the table unless the
\* client was pruned; and increments the counter that map has for its method.
OnItsMap(i) ==
  pc[i] \in {"loadMethod", "storeMethod", "incr", "done"} =>
    /\ source[flow[i]] = source[i]
    /\ source[i] \notin pruned =>
         source[i] \in DOMAIN perClient /\ flow[i] = perClient[source[i]]

OnItsCounter(i) ==
  pc[i] \in {"incr", "done"} =>
    method[i] \in DOMAIN flows[flow[i]] /\ counter[i] = flows[flow[i]][method[i]]

Credited(n) == {i \in Calls : pc[i] = "done" /\ counter[i] = n}

\* Every invocation that is done is in one count, and in one only.
CountsCredited == \A n \in Calls : count[n] = Cardinality(Credited(n))

Shape ==
  /\ Types /\ MapsOfClients /\ CountersOfMethods
  /\ \A i \in Calls : OnItsMap(i) /\ OnItsCounter(i)

-----------------------------------------------------------------------------
LEMMA ShapeInit == Init => Shape
BY DEF Init, Shape, Types, MapsOfClients, CountersOfMethods, OnItsMap, OnItsCounter, Stage

LEMMA LoadKeeps ==
  ASSUME Shape, NEW i \in Calls, Load(i) PROVE Shape'
<1>1. CASE source[i] \in DOMAIN perClient /\ flow' = [flow EXCEPT ![i] = perClient[source[i]]]
           /\ Goto(i, "load", "loadMethod")
  BY <1>1 DEF Load, Shape, Types, MapsOfClients, CountersOfMethods, OnItsMap, OnItsCounter,
              Goto, tables, pruning, Stage
<1>2. CASE Goto(i, "load", "store") /\ UNCHANGED flow
  BY <1>2 DEF Load, Shape, Types, MapsOfClients, CountersOfMethods, OnItsMap, OnItsCounter,
              Goto, tables, pruning, Stage
<1>. QED BY <1>1, <1>2 DEF Load

LEMMA LoadOrStoreKeeps ==
  ASSUME Shape, NEW i \in Calls, LoadOrStore(i) PROVE Shape'
<1>1. /\ DOMAIN perClient' = DOMAIN perClient \cup {source[i]}
      /\ perClient' \in [DOMAIN perClient' -> Calls]
      /\ \A c \in DOMAIN perClient : perClient'[c] = perClient[c]
      /\ source[i] \notin DOMAIN perClient => perClient'[source[i]] = i
  <2>1. perClient \in [DOMAIN perClient -> Calls]
    BY DEF Shape, Types
  <2>2. CASE source[i] \in DOMAIN perClient
    BY <2>1, <2>2 DEF LoadOrStore
  <2>3. CASE source[i] \notin DOMAIN perClient
    <3>1. perClient' = With(perClient, source[i], i)
      BY <2>3 DEF LoadOrStore
    <3>. QED BY <2>1, <2>3, <3>1 DEF LoadOrStore, Shape, Types, With
  <2>. QED BY <2>2, <2>3
<1>2. Types'
  BY <1>1 DEF LoadOrStore, Shape, Types, Goto, Stage, pruning
<1>3. MapsOfClients'
  BY <1>1 DEF LoadOrStore, Shape, MapsOfClients
<1>4. flow'[i] = perClient'[source[i]] /\ source[flow'[i]] = source[i]
  BY <1>1 DEF LoadOrStore, Shape, Types, MapsOfClients
<1>5. \A j \in Calls : OnItsMap(j)' /\ OnItsCounter(j)'
  BY <1>1, <1>4 DEF LoadOrStore, Shape, Types, OnItsMap, OnItsCounter, Goto, pruning
<1>6. CountersOfMethods'
  BY DEF LoadOrStore, Shape, CountersOfMethods
<1>. QED BY <1>2, <1>3, <1>5, <1>6 DEF Shape

LEMMA LoadMethodKeeps ==
  ASSUME Shape, NEW i \in Calls, LoadMethod(i) PROVE Shape'
<1>1. CASE method[i] \in DOMAIN flows[flow[i]]
           /\ counter' = [counter EXCEPT ![i] = flows[flow[i]][method[i]]]
           /\ Goto(i, "loadMethod", "incr")
  BY <1>1 DEF LoadMethod, Shape, Types, MapsOfClients, CountersOfMethods, OnItsMap,
              OnItsCounter, Goto, tables, pruning, Stage
<1>2. CASE Goto(i, "loadMethod", "storeMethod") /\ UNCHANGED counter
  BY <1>2 DEF LoadMethod, Shape, Types, MapsOfClients, CountersOfMethods, OnItsMap,
              OnItsCounter, Goto, tables, pruning, Stage
<1>. QED BY <1>1, <1>2 DEF LoadMethod

LEMMA LoadOrStoreMethodKeeps ==
  ASSUME Shape, NEW i \in Calls, LoadOrStoreMethod(i) PROVE Shape'
<1>. DEFINE f == flow[i]
            m == method[i]
<1>1. f \in Calls /\ m \in Methods /\ source[f] = source[i]
  BY DEF LoadOrStoreMethod, Goto, Shape, Types, OnItsMap
<1>2. /\ DOMAIN flows' = Calls
      /\ DOMAIN flows'[f] = DOMAIN flows[f] \cup {m}
      /\ flows'[f] \in [DOMAIN flows'[f] -> Calls]
      /\ \A k \in DOMAIN flows[f] : flows'[f][k] = flows[f][k]
      /\ m \notin DOMAIN flows[f] => flows'[f][m] = i
      /\ \A g \in Calls \ {f} : flows'[g] = flows[g]
  <2>1. CASE m \in DOMAIN flows[f]
    BY <1>1, <2>1 DEF LoadOrStoreMethod, Shape, Types
  <2>2. CASE m \notin DOMAIN flows[f]
    <3>1. flows' = [flows EXCEPT ![f] = With(flows[f], m, i)]
      BY <2>2 DEF LoadOrStoreMethod
    <3>2. flows'[f] = With(flows[f], m, i) /\ DOMAIN flows' = Calls
          /\ \A g \in Calls \ {f} : flows'[g] = flows[g]
      BY <1>1, <3>1 DEF Shape, Types
    <3>3. flows[f] \in [DOMAIN flows[f] -> Calls]
      BY <1>1 DEF Shape, Types
    <3>. QED BY <1>1, <2>2, <3>2, <3>3 DEF With
  <2>. QED BY <2>1, <2>2
<1>3. Types'
  BY <1>1, <1>2 DEF LoadOrStoreMethod, Shape, Types, Goto, Stage, pruning
<1>4. CountersOfMethods'
  BY <1>1, <1>2 DEF LoadOrStoreMethod, Shape, CountersOfMethods
<1>5. MapsOfClients' /\ \A j \in Calls : OnItsMap(j)'
  BY DEF LoadOrStoreMethod, Shape, Types, MapsOfClients, OnItsMap, Goto, pruning
<1>6. ASSUME NEW j \in Calls PROVE OnItsCounter(j)'
  <2>1. CASE j = i
    BY <1>1, <1>2, <2>1 DEF LoadOrStoreMethod, Shape, Types, OnItsCounter
  <2>2. CASE j # i
    <3>1. pc'[j] = pc[j] /\ counter'[j] = counter[j] /\ flow'[j] = flow[j] /\ method'[j] = method[j]
      BY <2>2 DEF LoadOrStoreMethod, Goto, Shape, Types
    <3>2. flow[j] \in Calls
      BY DEF Shape, Types
    <3>. QED BY <1>2, <3>1, <3>2 DEF Shape, OnItsCounter
  <2>. QED BY <2>1, <2>2
<1>. QED BY <1>3, <1>4, <1>5, <1>6 DEF Shape

\* Deleting a client prunes it, and no invocation is held to the table for it.
LEMMA DeleteKeeps ==
  ASSUME Shape, NEW c \in Clients, Delete(c) PROVE Shape'
<1>1. /\ DOMAIN perClient' = DOMAIN perClient \ {c}
      /\ \A k \in DOMAIN perClient' : perClient'[k] = perClient[k]
      /\ perClient' = [k \in DOMAIN perClient \ {c} |-> perClient[k]]
  BY DEF Delete
<1>2. Types'
  BY <1>1 DEF Delete, Shape, Types, invocation
<1>3. MapsOfClients' /\ CountersOfMethods'
  BY <1>1 DEF Delete, Shape, MapsOfClients, CountersOfMethods, invocation
<1>4. \A i \in Calls : OnItsMap(i)' /\ OnItsCounter(i)'
  BY <1>1 DEF Delete, Shape, OnItsMap, OnItsCounter, invocation
<1>. QED BY <1>2, <1>3, <1>4 DEF Shape

LEMMA ShapeInductive == Shape /\ [Next]_vars => Shape'
<1>. SUFFICES ASSUME Shape, [Next]_vars PROVE Shape'
  OBVIOUS
<1>1. ASSUME NEW c \in Clients, Connect(c) \/ Disconnect(c) PROVE Shape'
  BY <1>1 DEF Connect, Disconnect, invocation, tables, pruning, Shape, Types, MapsOfClients,
              CountersOfMethods, OnItsMap, OnItsCounter
<1>2. ASSUME NEW i \in Calls, Arrive(i) \/ Incr(i) PROVE Shape'
  BY <1>2 DEF Arrive, Incr, Goto, Stage, tables, pruning, Shape, Types, MapsOfClients,
              CountersOfMethods, OnItsMap, OnItsCounter
<1>3. CASE ListClients \/ Scan \/ TimerDone \/ UNCHANGED vars
  <2>1. Types'
    BY <1>3 DEF ListClients, Scan, TimerDone, vars, invocation, tables, pruning, Shape, Types
  <2>2. UNCHANGED <<invocation, tables>> /\ pruned' = pruned
    BY <1>3 DEF ListClients, Scan, TimerDone, vars, pruning
  <2>3. MapsOfClients' /\ CountersOfMethods'
    BY <2>2 DEF invocation, tables, Shape, MapsOfClients, CountersOfMethods
  <2>4. \A i \in Calls : OnItsMap(i)' /\ OnItsCounter(i)'
    BY <2>2 DEF invocation, tables, Shape, OnItsMap, OnItsCounter
  <2>. QED BY <2>1, <2>3, <2>4 DEF Shape
<1>. QED
  BY <1>1, <1>2, <1>3, LoadKeeps, LoadOrStoreKeeps, LoadMethodKeeps,
     LoadOrStoreMethodKeeps, DeleteKeeps
  DEF Next, Invoke, Prune

-----------------------------------------------------------------------------
(***************************************************************************)
(* What is counted                                                         *)
(***************************************************************************)
LEMMA CreditedFinite ==
  ASSUME NEW n \in Calls
  PROVE  /\ IsFiniteSet(Credited(n))
         /\ Cardinality(Credited(n)) \in 0..Cardinality(Calls)
<1>1. Credited(n) \subseteq Calls
  BY DEF Credited
<1>2. IsFiniteSet(Credited(n)) /\ Cardinality(Credited(n)) <= Cardinality(Calls)
  BY <1>1, CountersAssumption, FS_Subset DEF CountersAssumption
<1>3. Cardinality(Credited(n)) \in Nat /\ Cardinality(Calls) \in Nat
  BY <1>2, CountersAssumption, FS_CardinalityType DEF CountersAssumption
<1>. QED BY <1>2, <1>3

LEMMA CreditsInit == Init => count \in [Calls -> Nat] /\ CountsCredited
<1>. SUFFICES ASSUME Init PROVE count \in [Calls -> Nat] /\ CountsCredited
  OBVIOUS
<1>1. \A n \in Calls : Credited(n) = {}
  BY DEF Init, Credited
<1>. QED BY <1>1, FS_EmptySet DEF Init, CountsCredited

\* Only Incr changes what is credited and counted, and it does both.
LEMMA CreditsInductive ==
  ASSUME Shape, count \in [Calls -> Nat], CountsCredited, [Next]_vars
  PROVE  (count \in [Calls -> Nat])' /\ CountsCredited'
<1>1. ASSUME NEW i \in Calls, Incr(i) PROVE (count \in [Calls -> Nat])' /\ CountsCredited'
  <2>. DEFINE k == counter[i]
  <2>1. k \in Calls /\ i \notin Credited(k) /\ pc'[i] = "done"
        /\ (\A j \in Calls \ {i} : pc'[j] = pc[j]) /\ counter' = counter
    BY <1>1 DEF Incr, Goto, Shape, Types, Credited
  <2>2. Credited(k)' = Credited(k) \cup {i}
    BY <2>1 DEF Credited
  <2>3. Cardinality(Credited(k)') = Cardinality(Credited(k)) + 1
    BY <2>1, <2>2, CreditedFinite, FS_AddElement
  <2>4. \A n \in Calls \ {k} : Credited(n)' = Credited(n)
    BY <2>1 DEF Credited
  <2>5. count'[k] = count[k] + 1 /\ (\A n \in Calls \ {k} : count'[n] = count[n])
        /\ (count \in [Calls -> Nat])'
    BY <1>1, <2>1 DEF Incr
  <2>. QED BY <2>1, <2>3, <2>4, <2>5 DEF CountsCredited
<1>2. ASSUME count' = count, \A n \in Calls : Credited(n)' = Credited(n)
      PROVE  (count \in [Calls -> Nat])' /\ CountsCredited'
  BY <1>2 DEF CountsCredited
<1>3. ASSUME NEW i \in Calls, Arrive(i) \/ Load(i) \/ LoadOrStore(i)
      PROVE  count' = count /\ \A n \in Calls : Credited(n)' = Credited(n)
  BY <1>3 DEF Arrive, Load, LoadOrStore, Goto, tables, Shape, Types, Credited
<1>4. ASSUME NEW i \in Calls, LoadMethod(i) \/ LoadOrStoreMethod(i)
      PROVE  count' = count /\ \A n \in Calls : Credited(n)' = Credited(n)
  BY <1>4 DEF LoadMethod, LoadOrStoreMethod, Goto, tables, Shape, Types, Credited
<1>5. CASE (\E c \in Clients : Connect(c) \/ Disconnect(c)) \/ Prune \/ UNCHANGED vars
  <2>1. count' = count /\ pc' = pc /\ counter' = counter
    <3>1. CASE \E c \in Clients : Connect(c) \/ Disconnect(c)
      BY <3>1 DEF Connect, Disconnect, invocation, tables
    <3>2. CASE \E c \in Clients : Delete(c)
      BY <3>2 DEF Delete, invocation
    <3>3. CASE ListClients \/ Scan \/ TimerDone \/ UNCHANGED vars
      BY <3>3 DEF ListClients, Scan, TimerDone, vars, invocation, tables
    <3>. QED BY <1>5, <3>1, <3>2, <3>3 DEF Prune
  <2>2. \A n \in Calls : Credited(n)' = Credited(n)
    BY <2>1 DEF Credited
  <2>. QED BY <1>2, <2>1, <2>2
<1>. QED BY <1>1, <1>2, <1>3, <1>4, <1>5 DEF Next, Invoke

IInv == Shape /\ count \in [Calls -> Nat] /\ CountsCredited

LEMMA IInvInductive == Spec => []IInv
<1>1. Init => IInv
  BY ShapeInit, CreditsInit DEF IInv
<1>2. IInv /\ [Next]_vars => IInv'
  BY ShapeInductive, CreditsInductive DEF IInv
<1>. QED BY <1>1, <1>2, PTL DEF Spec

\* Every variable has its type, and no counter exceeds the number of calls.
THEOREM TypeCorrect == Spec => []TypeOK
<1>1. IInv => TypeOK
  BY CreditedFinite DEF IInv, Shape, Types, CountsCredited, TypeOK
<1>. QED BY <1>1, IInvInductive, PTL

-----------------------------------------------------------------------------
\* What is credited to the counter of a client and a method was called by that
\* client and is of that method.
LEMMA CreditedAreCounted ==
  ASSUME Shape, NEW c \in DOMAIN perClient, NEW m \in DOMAIN flows[perClient[c]]
  PROVE  Credited(flows[perClient[c]][m]) \subseteq Counted(c, m)
<1>. DEFINE f == perClient[c]
            n == flows[f][m]
<1>1. f \in Calls /\ source[n] = c /\ method[n] = m
  BY DEF Shape, Types, MapsOfClients, CountersOfMethods
<1>2. ASSUME NEW i \in Calls, pc[i] = "done", counter[i] = n
      PROVE  source[i] = c /\ method[i] = m
  <2>1. source[flow[i]] = source[i] /\ flow[i] \in Calls
    BY <1>2 DEF Shape, Types, OnItsMap
  <2>2. method[i] \in DOMAIN flows[flow[i]] /\ n = flows[flow[i]][method[i]]
    BY <1>2 DEF Shape, OnItsCounter
  <2>3. source[n] = source[flow[i]] /\ method[n] = method[i]
    BY <2>1, <2>2 DEF Shape, CountersOfMethods
  <2>. QED BY <1>1, <2>1, <2>3
<1>. QED BY <1>2 DEF Credited, Counted

LEMMA CountedFinite ==
  ASSUME NEW c, NEW m
  PROVE  IsFiniteSet(Counted(c, m)) /\ Cardinality(Counted(c, m)) \in Nat
<1>1. Counted(c, m) \subseteq Calls
  BY DEF Counted
<1>. QED BY <1>1, CountersAssumption, FS_Subset, FS_CardinalityType DEF CountersAssumption

\* No call is ever reported for another client or method, or more than once,
\* whatever the timer deletes under the calls in progress.
THEOREM NoOvercount == Spec => []NeverOvercounted
<1>1. ASSUME IInv, NEW c \in Clients, NEW m \in Methods
      PROVE  ListInvokes(c, m) <= Cardinality(Counted(c, m))
  <2>1. CASE c \in DOMAIN perClient /\ m \in DOMAIN flows[perClient[c]]
    <3>. DEFINE n == flows[perClient[c]][m]
    <3>1. n \in Calls
      BY <1>1, <2>1 DEF IInv, Shape, Types
    <3>2. Credited(n) \subseteq Counted(c, m)
      BY <1>1, <2>1, CreditedAreCounted DEF IInv
    <3>3. Cardinality(Credited(n)) <= Cardinality(Counted(c, m))
      BY <3>2, CountedFinite, FS_Subset
    <3>4. ListInvokes(c, m) = Cardinality(Credited(n))
      BY <1>1, <2>1, <3>1 DEF IInv, CountsCredited, ListInvokes
    <3>. QED BY <3>3, <3>4
  <2>2. CASE ~(c \in DOMAIN perClient /\ m \in DOMAIN flows[perClient[c]])
    BY <2>2, CountedFinite DEF ListInvokes
  <2>. QED BY <2>1, <2>2
<1>2. IInv => NeverOvercounted
  BY <1>1 DEF NeverOvercounted
<1>. QED BY <1>2, IInvInductive, PTL

\* For a client that was never pruned the report is exact: first calls that race
\* to create its map or a counter all end up on the one in the table.
THEOREM ReportExact == Spec => []CountsExact
<1>1. ASSUME IInv, NEW c \in Clients \ pruned, NEW m \in Methods
      PROVE  ListInvokes(c, m) = Cardinality(Counted(c, m))
  <2>1. ASSUME NEW i \in Counted(c, m)
        PROVE  /\ c \in DOMAIN perClient /\ m \in DOMAIN flows[perClient[c]]
               /\ i \in Credited(flows[perClient[c]][m])
    BY <1>1, <2>1 DEF Counted, Credited, IInv, Shape, OnItsMap, OnItsCounter
  <2>2. CASE c \in DOMAIN perClient /\ m \in DOMAIN flows[perClient[c]]
    <3>. DEFINE n == flows[perClient[c]][m]
    <3>1. Credited(n) = Counted(c, m)
      BY <1>1, <2>1, <2>2, CreditedAreCounted DEF IInv
    <3>2. n \in Calls
      BY <1>1, <2>2 DEF IInv, Shape, Types
    <3>3. ListInvokes(c, m) = Cardinality(Credited(n))
      BY <1>1, <2>2, <3>2 DEF IInv, CountsCredited, ListInvokes
    <3>. QED BY <3>1, <3>3
  <2>3. CASE ~(c \in DOMAIN perClient /\ m \in DOMAIN flows[perClient[c]])
    <3>1. Counted(c, m) = {}
      BY <2>1, <2>3
    <3>. QED BY <2>3, <3>1, FS_EmptySet DEF ListInvokes
  <2>. QED BY <2>2, <2>3
<1>2. IInv => CountsExact
  BY <1>1 DEF CountsExact
<1>. QED BY <1>2, IInvInductive, PTL
=============================================================================
