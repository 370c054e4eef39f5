-------------------------- MODULE MoaContext_proofs --------------------------
(***************************************************************************)
(* Proofs about MoaContext, for any number of calls and keys.              *)
(***************************************************************************)
EXTENDS MoaContext, TLAPS

\* The maps a call may work with.
MapsOf(r) == {Decoded(r), <<r, "main">>, <<r, "child">>}

\* A goroutine works with the map of its own request, or with one that a
\* goroutine of the request made; the nil map is that of the request.
OwnMap(g) ==
  /\ ctx[g] \in MapsOf(Request(g)) \cup {NoMap, NilMap}
  /\ ctx[g] = NilMap => props[Request(g)] = NilMap

\* What is being written is the map of the context.
WritesOwn(g) ==
  pc[g] = "write" => write[g] \in Writes /\ write[g].map = ctx[g] /\ ctx[g] \in Allocated

RequestMaps ==
  \A r \in Requests :
    /\ props[r] \in {Decoded(r), NilMap}
    /\ props[r] = NilMap => carried[r] = {}
    /\ carried[r] \ detached[r] \subseteq heap[props[r]]
    /\ pc[Main(r)] \in {"trace", "run", "write"} => ctx[Main(r)] = props[r]

Owning == RequestMaps /\ \A g \in Goroutines : OwnMap(g) /\ WritesOwn(g)

Goal == TypeOK /\ Owning /\ RacesAreHomemade /\ OnlyGoroutinesCrash

-----------------------------------------------------------------------------
LEMMA Names ==
  ASSUME NEW g \in Goroutines
  PROVE  /\ Request(g) \in Requests /\ g \in {<<Request(g), "main">>, <<Request(g), "child">>}
         /\ g \in MapsOf(Request(g)) /\ g # Decoded(Request(g))
<1>1. PICK r \in Requests, who \in {"main", "child"} : g = <<r, who>>
  BY DEF Goroutines
<1>. QED BY <1>1 DEF Request, MapsOf, Decoded

LEMMA MapNames ==
  /\ \A r \in Requests : /\ Decoded(r) \in Allocated /\ Decoded(r)[1] = r
                         /\ <<r, "main">> \in Goroutines /\ <<r, "child">> \in Goroutines
                         /\ Main(r) = <<r, "main">>
  /\ Goroutines \subseteq Allocated /\ Allocated \subseteq Maps
  /\ NoMap \in Maps /\ NilMap \in Maps /\ AppMap \in Maps /\ NoMap # NilMap
BY DEF Goroutines, Main, Maps, Allocated, NoMap, NilMap, Decoded, AppMap

LEMMA NoMapsApart == NoMap \notin Allocated /\ NilMap \notin Allocated
<1>1. \A r \in Requests : r # 0
  BY ContextAssumption DEF ContextAssumption
<1>. QED BY <1>1 DEF Goroutines, Allocated, NoMap, NilMap, Decoded, AppMap

\* Maps of different calls have different names.
LEMMA MapsApart ==
  ASSUME NEW r \in Requests, NEW q \in Requests, NEW m \in MapsOf(r) \cap MapsOf(q)
  PROVE  r = q
BY DEF MapsOf, Decoded

LEMMA GoalInit == Init => Goal
<1>. SUFFICES ASSUME Init PROVE Goal
  OBVIOUS
<1>1. Allocated \subseteq Maps /\ NoMap \in Maps /\ NilMap \in Maps /\ NoMap # NilMap /\ AppMap \in Maps
      /\ \A r \in Requests : Decoded(r) \in Maps /\ Decoded(r) # NilMap /\ Decoded(r) # NoMap
                             /\ Decoded(r)[1] = r
  BY MapNames, NoMapsApart
<1>2. props \in [Requests -> Maps] /\ \A r \in Requests : props[r] \in {Decoded(r), NilMap}
  BY DEF Init
<1>3. PICK traced \in SUBSET Requests :
        heap = [m \in Maps |->
                  IF \E r \in Requests : m = props[r] /\ m # NilMap
                  THEN carried[m[1]] \cup (IF m[1] \in traced THEN {Span} ELSE {}) ELSE {}]
  BY DEF Init
<1>4. heap[NoMap] = {} /\ heap[NilMap] = {}
  BY <1>1, <1>2, <1>3
<1>5. \A r \in Requests : carried[r] \subseteq heap[props[r]]
  BY <1>1, <1>2, <1>3 DEF Init
<1>6. heap \in [Maps -> SUBSET (Keys \cup {Span})]
  <2>1. ASSUME NEW m \in Maps, NEW r \in Requests, m = props[r], m # NilMap
        PROVE  m[1] \in Requests
    BY <1>1, <1>2, <2>1
  <2>. QED BY <1>3, <2>1 DEF Init
<1>7. TypeOK
  BY <1>1, <1>2, <1>4, <1>6 DEF Init, TypeOK, NoWrite
<1>8. RequestMaps
  BY <1>2, <1>5 DEF Init, RequestMaps, Main, Goroutines
<1>9. \A g \in Goroutines : OwnMap(g) /\ WritesOwn(g)
  BY <1>1 DEF Init, OwnMap, WritesOwn
<1>. QED BY <1>7, <1>8, <1>9 DEF Goal, Owning, Init, RacesAreHomemade, OnlyGoroutinesCrash

-----------------------------------------------------------------------------
LEMMA EnterKeeps ==
  ASSUME Goal, NEW r \in Requests, Enter(r) PROVE Goal'
<1>1. /\ Main(r) \in Goroutines /\ Request(Main(r)) = r
      /\ \A q \in Requests : Main(q) \in Goroutines /\ (Main(q) = Main(r) => q = r)
  BY MapNames DEF Main, Request
<1>2. props[r] \in MapsOf(r) \cup {NilMap} /\ props[r] \in Maps
  BY DEF Goal, Owning, RequestMaps, TypeOK, MapsOf
<1>3. TypeOK'
  BY <1>1, <1>2 DEF Enter, request, Goal, TypeOK, NoWrite
<1>4. \A g \in Goroutines : OwnMap(g)' /\ WritesOwn(g)'
  BY <1>1, <1>2 DEF Enter, request, Goal, Owning, OwnMap, WritesOwn, TypeOK
<1>5. RequestMaps'
  BY <1>1 DEF Enter, request, Goal, Owning, RequestMaps, TypeOK
<1>. QED BY <1>3, <1>4, <1>5 DEF Enter, Goal, Owning, RacesAreHomemade, OnlyGoroutinesCrash

\* A span is injected only where there is one, so never into the nil map.
LEMMA TraceKeeps ==
  ASSUME Goal, NEW r \in Requests, Trace(r) PROVE Goal'
<1>. DEFINE m == ctx[Main(r)]
<1>1. /\ Main(r) \in Goroutines
      /\ \A q \in Requests : Main(q) \in Goroutines /\ (Main(q) = Main(r) => q = r)
  BY MapNames DEF Main
<1>2. m = props[r] /\ m \in {Decoded(r), NilMap} /\ m \in Maps /\ m # NoMap
  <2>1. m = props[r] /\ m \in {Decoded(r), NilMap}
    BY DEF Trace, Goal, Owning, RequestMaps
  <2>2. m \in Maps
    BY <2>1 DEF Goal, TypeOK
  <2>3. NoMap # Decoded(r) /\ NoMap # NilMap
    BY MapNames, NoMapsApart
  <2>. QED BY <2>1, <2>2, <2>3
<1>3. UNCHANGED <<heap, ctx, process>> \/
      (m # NilMap /\ heap' = [heap EXCEPT ![m] = @ \cup {Span}] /\ ctx' = ctx /\ process' = process)
  <2>1. CASE IsTracing(m)
    <3>1. m # NilMap
      BY <2>1 DEF IsTracing, GetSpanCtx, Goal, TypeOK
    <3>2. heap' = [heap EXCEPT ![m] = @ \cup {Span}] /\ ctx' = [ctx EXCEPT ![Main(r)] = m]
          /\ process' = process
      BY <1>2, <2>1, <3>1 DEF Trace, WithSpanCtx
    <3>3. ctx' = ctx
      BY <1>1, <3>2 DEF Goal, TypeOK
    <3>. QED BY <3>1, <3>2, <3>3
  <2>. QED BY <2>1 DEF Trace
<1>4. /\ pc' = [pc EXCEPT ![Main(r)] = "run"] /\ pc[Main(r)] = "trace" /\ process = "up"
      /\ UNCHANGED <<appCtx, props, carried, write, detached, ctx, process>>
  BY <1>3 DEF Trace, request
<1>5. heap' \in [Maps -> SUBSET (Keys \cup {Span})] /\ heap'[NoMap] = {} /\ heap'[NilMap] = {}
      /\ \A k \in Maps : heap[k] \subseteq heap'[k]
  <2>1. CASE heap' = heap
    BY <2>1 DEF Goal, TypeOK
  <2>2. CASE m # NilMap /\ heap' = [heap EXCEPT ![m] = @ \cup {Span}]
    BY <1>2, <2>2, MapNames DEF Goal, TypeOK
  <2>. QED BY <1>3, <2>1, <2>2
<1>6. TypeOK'
  BY <1>1, <1>4, <1>5 DEF Goal, TypeOK, NoWrite
<1>7. \A g \in Goroutines : OwnMap(g)' /\ WritesOwn(g)'
  BY <1>1, <1>4 DEF Goal, Owning, OwnMap, WritesOwn, TypeOK
<1>8. RequestMaps'
  BY <1>1, <1>4, <1>5 DEF Goal, Owning, RequestMaps, TypeOK
<1>. QED BY <1>4, <1>6, <1>7, <1>8 DEF Goal, Owning, RacesAreHomemade, OnlyGoroutinesCrash

\* A write to a map, or the race it runs into: the other goroutine in the
\* middle of a write to it is one of the same call.
LEMMA BeginWriteKeeps ==
  ASSUME Goal, NEW g \in Goroutines, process = "up", pc[g] = "run", ctx[g] \in Allocated,
         NEW w \in Writes, w.map = ctx[g], BeginWrite(g, w), UNCHANGED <<heap, request, ctx, detached>>
  PROVE  Goal'
<1>1. CASE \E h \in Goroutines : pc[h] = "write" /\ write[h].map = w.map
  <2>1. PICK h \in Goroutines : pc[h] = "write" /\ ctx[h] = ctx[g]
    BY <1>1 DEF Goal, Owning, WritesOwn
  <2>2. process' = "fatal" /\ UNCHANGED <<pc, write>>
    BY <1>1 DEF BeginWrite
  <2>3. ctx[g] \in MapsOf(Request(g)) \cap MapsOf(Request(h))
    BY <2>1, NoMapsApart DEF Goal, Owning, OwnMap
  <2>4. Request(g) = Request(h) /\ g # h
    BY <2>1, <2>3, MapsApart, Names
  <2>5. {g, h} = {Main(Request(g)), <<Request(g), "child">>}
    BY <2>4, Names DEF Main
  <2>6. RacesAreHomemade'
    <3>1. ctx[<<Request(g), "child">>] = ctx[Main(Request(g))] /\ pc[<<Request(g), "child">>] # "off"
      BY <2>1, <2>5
    <3>. QED BY <2>2, <3>1, Names DEF RacesAreHomemade, Spawned
  <2>. QED
    BY <2>2, <2>6 DEF request, Goal, TypeOK, Owning, RequestMaps, OwnMap, WritesOwn,
                      OnlyGoroutinesCrash
<1>2. CASE ~\E h \in Goroutines : pc[h] = "write" /\ write[h].map = w.map
  <2>1. pc' = [pc EXCEPT ![g] = "write"] /\ write' = [write EXCEPT ![g] = w] /\ process' = process
    BY <1>2 DEF BeginWrite
  <2>2. w # NoWrite
    BY DEF Writes, NoWrite
  <2>3. TypeOK'
    BY <2>1, <2>2 DEF request, Goal, TypeOK
  <2>4. \A h \in Goroutines : OwnMap(h)' /\ WritesOwn(h)'
    BY <2>1 DEF request, Goal, Owning, OwnMap, WritesOwn, TypeOK
  <2>5. RequestMaps'
    BY <2>1, MapNames DEF request, Goal, Owning, RequestMaps, TypeOK
  <2>. QED BY <2>1, <2>3, <2>4, <2>5 DEF Goal, Owning, RacesAreHomemade, OnlyGoroutinesCrash
<1>. QED BY <1>1, <1>2

LEMMA AttachKeeps ==
  ASSUME Goal, NEW g \in Goroutines, NEW key \in Keys, AttachMoaProperty(g, key) PROVE Goal'
<1>1. ctx[g] \in Maps /\ ctx[g] \in MapsOf(Request(g)) \cup {NoMap, NilMap} /\ process = "up" /\ pc[g] = "run"
  BY DEF AttachMoaProperty, Goal, Owning, OwnMap, TypeOK
<1>2. CASE ctx[g] = NoMap
  <2>1. /\ heap' = [heap EXCEPT ![g] = {key}] /\ ctx' = [ctx EXCEPT ![g] = g]
        /\ UNCHANGED <<pc, write, process, appCtx, props, carried, detached>>
    BY <1>2, MapNames DEF AttachMoaProperty, request
  <2>2. g \in Allocated /\ g \in Maps /\ g # NoMap /\ g # NilMap /\ g \in MapsOf(Request(g))
    BY Names, MapNames, NoMapsApart
  <2>3. \A r \in Requests : props[r] # g /\ (pc[Main(r)] \in {"trace", "run", "write"} => Main(r) # g)
    <3>. SUFFICES ASSUME NEW r \in Requests
                  PROVE  props[r] # g /\ (pc[Main(r)] \in {"trace", "run", "write"} => Main(r) # g)
      OBVIOUS
    <3>1. props[r] \in {Decoded(r), NilMap} /\ NoMap \notin {Decoded(r), NilMap}
      BY MapNames, NoMapsApart DEF Goal, Owning, RequestMaps
    <3>2. Decoded(r) # g
      BY DEF Decoded, Goroutines
    <3>. QED BY <1>2, <2>2, <3>1, <3>2 DEF Goal, Owning, RequestMaps
  <2>4. TypeOK'
    BY <2>1, <2>2 DEF Goal, TypeOK
  <2>5. \A h \in Goroutines : OwnMap(h)' /\ WritesOwn(h)'
    BY <1>1, <2>1, <2>2 DEF Goal, Owning, OwnMap, WritesOwn, TypeOK
  <2>6. RequestMaps'
    BY <2>1, <2>2, <2>3, MapNames DEF Goal, Owning, RequestMaps, TypeOK
  <2>. QED
    BY <1>1, <2>1, <2>4, <2>5, <2>6 DEF Goal, Owning, RacesAreHomemade, OnlyGoroutinesCrash
<1>3. CASE ctx[g] = NilMap
  <2>1. /\ pc' = [pc EXCEPT ![g] = "done"]
        /\ process' = IF g = Main(Request(g)) THEN "up" ELSE "crashed"
        /\ UNCHANGED <<heap, ctx, write, appCtx, props, carried, detached>>
    BY <1>3, MapNames DEF AttachMoaProperty, request
  <2>2. TypeOK'
    BY <1>1, <2>1 DEF Goal, TypeOK
  <2>3. \A h \in Goroutines : OwnMap(h)' /\ WritesOwn(h)'
    BY <2>1 DEF Goal, Owning, OwnMap, WritesOwn, TypeOK
  <2>4. RequestMaps'
    BY <2>1, MapNames DEF Goal, Owning, RequestMaps, TypeOK
  <2>5. OnlyGoroutinesCrash'
    <3>. SUFFICES ASSUME process' = "crashed"
                  PROVE  Spawned(Request(g))' /\ props'[Request(g)] = NilMap
      BY Names DEF OnlyGoroutinesCrash
    <3>1. g = <<Request(g), "child">>
      BY <2>1, Names DEF Main
    <3>2. props[Request(g)] = NilMap
      BY <1>3 DEF Goal, Owning, OwnMap
    <3>. QED BY <2>1, <3>1, <3>2 DEF Spawned, Goal, TypeOK
  <2>. QED BY <2>1, <2>2, <2>3, <2>4, <2>5 DEF Goal, Owning, RacesAreHomemade
<1>4. CASE ctx[g] \notin {NoMap, NilMap}
  <2>. DEFINE w == [op |-> "attach", key |-> key, map |-> ctx[g]]
  <2>1. BeginWrite(g, w) /\ UNCHANGED <<heap, ctx, request, detached>>
    BY <1>4 DEF AttachMoaProperty
  <2>2. w \in Writes /\ w.map = ctx[g]
    BY <1>1 DEF Writes
  <2>3. ctx[g] \in Allocated
    BY <1>1, <1>4, MapNames DEF Maps
  <2>. QED BY <1>1, <2>1, <2>2, <2>3, BeginWriteKeeps
<1>. QED BY <1>2, <1>3, <1>4

LEMMA DetachKeeps ==
  ASSUME Goal, NEW g \in Goroutines, NEW key \in Keys, DetachMoaProperty(g, key) PROVE Goal'
<1>. DEFINE w == [op |-> "detach", key |-> key, map |-> ctx[g]]
<1>1. w \in Writes /\ w.map = ctx[g]
  BY DEF Writes, Goal, TypeOK
<1>. QED BY <1>1, BeginWriteKeeps DEF DetachMoaProperty

\* A write changes the properties of the writer's own request only.
LEMMA EndWriteEnds ==
  ASSUME Goal, NEW g \in Goroutines, EndWrite(g) PROVE Goal'
<1>. DEFINE w == write[g]
            q == Request(g)
<1>1. /\ process = "up" /\ pc[g] = "write" /\ w \in Writes
      /\ w.map = ctx[g] /\ ctx[g] \in Allocated /\ w.map \in Maps
      /\ ctx[g] \in MapsOf(q) /\ w.key \in Keys /\ q \in Requests
  BY Names, MapNames, NoMapsApart DEF EndWrite, Goal, Owning, OwnMap, WritesOwn, Writes
<1>2. /\ heap' = [heap EXCEPT ![w.map] = IF w.op = "attach" THEN @ \cup {w.key} ELSE @ \ {w.key}]
      /\ detached' = IF w.op = "detach" THEN [detached EXCEPT ![q] = @ \cup {w.key}] ELSE detached
      /\ pc' = [pc EXCEPT ![g] = "run"] /\ write' = [write EXCEPT ![g] = NoWrite]
      /\ UNCHANGED <<appCtx, props, carried, ctx, process>>
  BY DEF EndWrite, request
<1>3. TypeOK'
  <2>1. w.map # NoMap /\ w.map # NilMap
    BY <1>1, NoMapsApart
  <2>2. heap' \in [Maps -> SUBSET (Keys \cup {Span})] /\ heap'[NoMap] = {} /\ heap'[NilMap] = {}
    BY <1>1, <1>2, <2>1, MapNames DEF Goal, TypeOK
  <2>3. detached' \in [Requests -> SUBSET Keys]
    BY <1>1, <1>2 DEF Goal, TypeOK
  <2>. QED BY <1>2, <2>2, <2>3 DEF Goal, TypeOK
<1>4. \A h \in Goroutines : OwnMap(h)' /\ WritesOwn(h)'
  BY <1>2 DEF Goal, Owning, OwnMap, WritesOwn, TypeOK
<1>5. ASSUME NEW r \in Requests PROVE carried[r] \ detached'[r] \subseteq heap'[props[r]]
  <2>1. carried[r] \ detached[r] \subseteq heap[props[r]] /\ props[r] \in {Decoded(r), NilMap}
        /\ props[r] \in Maps
    BY DEF Goal, Owning, RequestMaps, TypeOK
  <2>2. CASE props[r] # w.map
    <3>1. heap'[props[r]] = heap[props[r]]
      BY <1>2, <2>1, <2>2 DEF Goal, TypeOK
    <3>2. detached[r] \subseteq detached'[r]
      BY <1>2 DEF Goal, TypeOK
    <3>. QED BY <2>1, <3>1, <3>2
  <2>3. CASE props[r] = w.map
    <3>1. r = q
      BY <1>1, <2>1, <2>3, NoMapsApart, MapsApart DEF MapsOf
    <3>2. CASE w.op = "attach"
      <4>1. heap'[props[r]] = heap[props[r]] \cup {w.key} /\ detached' = detached
        BY <1>2, <2>1, <2>3, <3>2 DEF Goal, TypeOK
      <4>. QED BY <2>1, <4>1
    <3>3. CASE w.op = "detach"
      <4>1. heap'[props[r]] = heap[props[r]] \ {w.key} /\ detached'[r] = detached[r] \cup {w.key}
        BY <1>2, <2>1, <2>3, <3>1, <3>3 DEF Goal, TypeOK
      <4>. QED BY <2>1, <4>1
    <3>. QED BY <1>1, <3>2, <3>3 DEF Writes
  <2>. QED BY <2>2, <2>3
<1>6. RequestMaps'
  BY <1>1, <1>2, <1>5, MapNames DEF Goal, Owning, RequestMaps, TypeOK
<1>. QED BY <1>1, <1>2, <1>3, <1>4, <1>6 DEF Goal, Owning, RacesAreHomemade, OnlyGoroutinesCrash

LEMMA SpawnKeeps ==
  ASSUME Goal, NEW r \in Requests, Spawn(r) PROVE Goal'
<1>. DEFINE child == <<r, "child">>
<1>1. /\ child \in Goroutines /\ Main(r) \in Goroutines /\ Request(child) = r /\ Request(Main(r)) = r
      /\ \A q \in Requests : Main(q) # child /\ Main(q) \in Goroutines
  BY MapNames DEF Main, Request
<1>2. PICK m \in {ctx[Main(r)], NoMap} : ctx' = [ctx EXCEPT ![child] = m]
  BY DEF Spawn
<1>3. m \in Maps /\ m \in MapsOf(r) \cup {NoMap, NilMap} /\ (m = NilMap => props[r] = NilMap)
  BY <1>1, MapNames DEF Goal, Owning, OwnMap, TypeOK
<1>4. /\ pc' = [pc EXCEPT ![child] = "run"] /\ pc[child] = "off" /\ process = "up"
      /\ UNCHANGED <<heap, appCtx, props, carried, write, process, detached>>
  BY DEF Spawn, request
<1>5. TypeOK'
  BY <1>1, <1>2, <1>3, <1>4 DEF Goal, TypeOK
<1>6. \A h \in Goroutines : OwnMap(h)' /\ WritesOwn(h)'
  BY <1>1, <1>2, <1>3, <1>4 DEF Goal, Owning, OwnMap, WritesOwn, TypeOK
<1>7. RequestMaps'
  BY <1>1, <1>2, <1>4 DEF Goal, Owning, RequestMaps, TypeOK
<1>. QED BY <1>4, <1>5, <1>6, <1>7 DEF Goal, Owning, RacesAreHomemade, OnlyGoroutinesCrash

LEMMA FinishKeeps ==
  ASSUME Goal, NEW g \in Goroutines, Finish(g) PROVE Goal'
<1>1. /\ pc' = [pc EXCEPT ![g] = "done"] /\ pc[g] = "run" /\ process = "up"
      /\ UNCHANGED <<heap, appCtx, props, carried, ctx, write, process, detached>>
  BY DEF Finish, request
<1>2. TypeOK'
  BY <1>1 DEF Goal, TypeOK
<1>3. \A h \in Goroutines : OwnMap(h)' /\ WritesOwn(h)'
  BY <1>1 DEF Goal, Owning, OwnMap, WritesOwn, TypeOK
<1>4. RequestMaps'
  BY <1>1, MapNames DEF Goal, Owning, RequestMaps, TypeOK
<1>. QED BY <1>1, <1>2, <1>3, <1>4 DEF Goal, Owning, RacesAreHomemade, OnlyGoroutinesCrash

LEMMA GoalInvariant == Spec => []Goal
<1>1. ASSUME Goal, [Next]_vars PROVE Goal'
  <2>1. CASE UNCHANGED vars
    BY <1>1, <2>1 DEF vars, request, Goal, TypeOK, Owning, RequestMaps, OwnMap, WritesOwn,
                      RacesAreHomemade, OnlyGoroutinesCrash, Spawned
  <2>. QED
    BY <1>1, <2>1, EnterKeeps, TraceKeeps, AttachKeeps, DetachKeeps, EndWriteEnds, SpawnKeeps,
       FinishKeeps
    DEF Next
<1>. QED BY <1>1, GoalInit, PTL DEF Spec

-----------------------------------------------------------------------------
\* Every variable has its type, and the nil map never gets a key.
THEOREM TypeCorrect == Spec => []TypeOK
<1>1. Goal => TypeOK
  BY DEF Goal
<1>. QED BY <1>1, GoalInvariant, PTL

\* A map race that stops the server is one between a method and a goroutine it
\* handed its context to, for any number of calls: calls share no map.
THEOREM RacesOnlyWithin == Spec => []RacesAreHomemade
<1>1. Goal => RacesAreHomemade
  BY DEF Goal
<1>. QED BY <1>1, GoalInvariant, PTL

\* Neither Invoke nor the method's own goroutine takes the server down by a
\* write to the nil map of a request without properties.
THEOREM CrashesOnlyOfGoroutines == Spec => []OnlyGoroutinesCrash
<1>1. Goal => OnlyGoroutinesCrash
  BY DEF Goal
<1>. QED BY <1>1, GoalInvariant, PTL

\* What a request carries stays visible to its method until its own call
\* detaches it.
THEOREM PropertiesStay == Spec => []RequestPropertiesStay
<1>1. Goal => RequestPropertiesStay
  <2>. SUFFICES ASSUME Goal, NEW r \in Requests, NEW key \in Keys,
                       Started(Main(r)), key \in carried[r] \ detached[r]
                PROVE  GetMoaProperty(Main(r), key)
    BY DEF RequestPropertiesStay
  <2>. QED BY DEF Goal, Owning, RequestMaps, Started, GetMoaProperty
<1>. QED BY <1>1, GoalInvariant, PTL
=============================================================================
