----------------------------- MODULE MoaContext -----------------------------
(***************************************************************************)
(* The MOA properties of a call (moa_codec.go): a map in the context,      *)
(* which dis puts there from the request (application.go), Invoke writes   *)
(* the child span into (proxy.go), and the method and the goroutines it    *)
(* starts attach to and detach from.  Contexts derived from one another    *)
(* share the map; all that matters of a context is which map it holds, and *)
(* of a map which keys it has.                                             *)
(***************************************************************************)
EXTENDS Naturals

CONSTANTS
  Requests,  \* the calls, numbered
  Keys       \* keys of properties; the tracer's is Span

ASSUME ContextAssumption == Requests \subseteq Nat \ {0}

\* The key TextMap propagation uses (opentracing).
Span == "span"

\* The goroutines of a call: Invoke's, and one that the method starts.
Goroutines == Requests \X {"main", "child"}

Request(g) == g[1]
Main(r) == <<r, "main">>

\* A map is named after what allocated it: the decoder, the application's
\* caller, or a goroutine.  NoMap stands for a context without properties,
\* NilMap for the nil map of a request without "props".
Decoded(r) == <<r, "decoded">>
AppMap == <<0, "app">>
NoMap == <<0, "none">>
NilMap == <<0, "nil">>
Allocated == {Decoded(r) : r \in Requests} \cup {AppMap} \cup Goroutines
Maps == Allocated \cup {NoMap, NilMap}

VARIABLES
  heap,    \* heap[m]: the keys of map m
  appCtx,  \* the map of the context given to NewApplicationWithContext
  props,   \* props[r]: Properties of request r
  carried, \* history: carried[r]: the keys it arrived with
  ctx,     \* ctx[g]: the map of the context g works with
  pc,      \* pc[g]: where g is
  write,   \* write[g]: the assignment or deletion g is in the middle of
  process, \* "up", "crashed" by a panic nobody recovers, "fatal" by a race
  detached \* history: detached[r]: the keys some goroutine of r has detached

vars == <<heap, appCtx, props, carried, ctx, pc, write, process, detached>>
request == <<appCtx, props, carried>>

NoWrite == [op |-> "none"]
Writes == [op : {"attach", "detach"}, key : Keys, map : Maps]

TypeOK ==
  /\ heap \in [Maps -> SUBSET (Keys \cup {Span})]
  /\ heap[NoMap] = {} /\ heap[NilMap] = {}
  /\ appCtx \in {AppMap, NoMap}
  /\ props \in [Requests -> Maps]
  /\ carried \in [Requests -> SUBSET Keys]
  /\ ctx \in [Goroutines -> Maps]
  /\ pc \in [Goroutines -> {"off", "trace", "run", "write", "done"}]
  /\ write \in [Goroutines -> Writes \cup {NoWrite}]
  /\ \A g \in Goroutines : pc[g] = "write" <=> write[g] # NoWrite
  /\ process \in {"up", "crashed", "fatal"}
  /\ detached \in [Requests -> SUBSET Keys]

\* The application's context may hold properties of its own; every request
\* is decoded into a map of its own, or into none.
Init ==
  /\ appCtx \in {AppMap, NoMap}
  /\ props \in {p \in [Requests -> Maps] : \A r \in Requests : p[r] \in {Decoded(r), NilMap}}
  /\ carried \in [Requests -> SUBSET Keys]
  /\ \A r \in Requests : props[r] = NilMap => carried[r] = {}
  /\ \E traced \in SUBSET Requests :
       heap = [m \in Maps |->
                 IF \E r \in Requests : m = props[r] /\ m # NilMap
                 THEN carried[m[1]] \cup (IF m[1] \in traced THEN {Span} ELSE {}) ELSE {}]
  /\ ctx = [g \in Goroutines |-> NoMap]
  /\ pc = [g \in Goroutines |-> "off"]
  /\ write = [g \in Goroutines |-> NoWrite]
  /\ process = "up"
  /\ detached = [r \in Requests |-> {}]

-----------------------------------------------------------------------------
(***************************************************************************)
(* dis and the head of Invoke                                              *)
(***************************************************************************)
\* mutant: a request without properties keeps those of the parent context
EnterOverParent(r) ==
  /\ process = "up"
  /\ pc[Main(r)] = "off"
  /\ pc' = [pc EXCEPT ![Main(r)] = "trace"]
  /\ ctx' = [ctx EXCEPT ![Main(r)] = IF props[r] = NilMap THEN appCtx ELSE props[r]]
  /\ UNCHANGED <<heap, request, write, process, detached>>

\* WithValue hides what the application's context holds, with a nil map too.
Enter(r) ==
  /\ process = "up"
  /\ pc[Main(r)] = "off"
  /\ pc' = [pc EXCEPT ![Main(r)] = "trace"]
  /\ ctx' = [ctx EXCEPT ![Main(r)] = props[r]]
  /\ UNCHANGED <<heap, request, write, process, detached>>

\* Extract finds a parent span in the map.
GetSpanCtx(m) == Span \in heap[m]

\* mutant: the child span gets a map of its own
WithSpanCtxInNewMap(g) ==
  /\ heap' = [heap EXCEPT ![g] = {Span}]
  /\ ctx' = [ctx EXCEPT ![g] = g]
  /\ UNCHANGED process

\* Inject writes into the map of the context, or a new one if it has none; to
\* write to a nil map panics, and Invoke has not deferred its recovery yet.
WithSpanCtx(g) ==
  LET p == IF ctx[g] = NoMap THEN g ELSE ctx[g]
  IN  IF p = NilMap
      THEN process' = "crashed" /\ UNCHANGED <<heap, ctx>>
      ELSE /\ heap' = [heap EXCEPT ![p] = @ \cup {Span}]
           /\ ctx' = [ctx EXCEPT ![g] = p]
           /\ UNCHANGED process

\* mutant: every call is traced, with or without a parent
Traced(m) == TRUE

\* A call is traced if its caller is.
IsTracing(m) == GetSpanCtx(m)

Trace(r) ==
  /\ process = "up"
  /\ pc[Main(r)] = "trace"
  /\ pc' = [pc EXCEPT ![Main(r)] = "run"]
  /\ IF IsTracing(ctx[Main(r)]) THEN WithSpanCtx(Main(r)) ELSE UNCHANGED <<heap, ctx, process>>
  /\ UNCHANGED <<request, write, detached>>

-----------------------------------------------------------------------------
(***************************************************************************)
(* The method and its goroutine.  A write to a map takes time; the runtime *)
(* stops the process when it finds another one under way.                  *)
(***************************************************************************)
BeginWrite(g, w) ==
  IF \E h \in Goroutines : pc[h] = "write" /\ write[h].map = w.map
  THEN process' = "fatal" /\ UNCHANGED <<pc, write>>
  ELSE /\ pc' = [pc EXCEPT ![g] = "write"]
       /\ write' = [write EXCEPT ![g] = w]
       /\ UNCHANGED process

\* Without properties in the context there is a new map and a new context; a
\* panic ends the call, or the process if it is not Invoke's goroutine.
AttachMoaProperty(g, key) ==
  /\ process = "up" /\ pc[g] = "run"
  /\ CASE ctx[g] = NoMap ->
            /\ heap' = [heap EXCEPT ![g] = {key}]
            /\ ctx' = [ctx EXCEPT ![g] = g]
            /\ UNCHANGED <<pc, write, process>>
       [] ctx[g] = NilMap ->
            /\ pc' = [pc EXCEPT ![g] = "done"]
            /\ process' = IF g = Main(Request(g)) THEN "up" ELSE "crashed"
            /\ UNCHANGED <<heap, ctx, write>>
       [] OTHER ->
            /\ BeginWrite(g, [op |-> "attach", key |-> key, map |-> ctx[g]])
            /\ UNCHANGED <<heap, ctx>>
  /\ UNCHANGED <<request, detached>>

\* Deleting from a nil map does nothing.
DetachMoaProperty(g, key) ==
  /\ process = "up" /\ pc[g] = "run" /\ ctx[g] \in Allocated
  /\ BeginWrite(g, [op |-> "detach", key |-> key, map |-> ctx[g]])
  /\ UNCHANGED <<heap, request, ctx, detached>>

EndWrite(g) ==
  /\ process = "up" /\ pc[g] = "write"
  /\ LET w == write[g]
     IN  /\ heap' = [heap EXCEPT ![w.map] = IF w.op = "attach" THEN @ \cup {w.key}
                                                               ELSE @ \ {w.key}]
         /\ detached' = IF w.op = "detach"
                        THEN [detached EXCEPT ![Request(g)] = @ \cup {w.key}] ELSE detached
  /\ pc' = [pc EXCEPT ![g] = "run"]
  /\ write' = [write EXCEPT ![g] = NoWrite]
  /\ UNCHANGED <<request, ctx, process>>

\* The method hands its context to a goroutine, or lets it start afresh.
Spawn(r) ==
  LET child == <<r, "child">>
  IN  /\ process = "up" /\ pc[Main(r)] = "run" /\ pc[child] = "off"
      /\ pc' = [pc EXCEPT ![child] = "run"]
      /\ \E m \in {ctx[Main(r)], NoMap} : ctx' = [ctx EXCEPT ![child] = m]
      /\ UNCHANGED <<heap, request, write, process, detached>>

Finish(g) ==
  /\ process = "up" /\ pc[g] = "run"
  /\ pc' = [pc EXCEPT ![g] = "done"]
  /\ UNCHANGED <<heap, request, ctx, write, process, detached>>

Next ==
  \/ \E r \in Requests : Enter(r) \/ Trace(r) \/ Spawn(r)
  \/ \E g \in Goroutines :
       \/ \E key \in Keys : AttachMoaProperty(g, key) \/ DetachMoaProperty(g, key)
       \/ EndWrite(g) \/ Finish(g)

Spec == Init /\ [][Next]_vars

-----------------------------------------------------------------------------
(***************************************************************************)
(* Properties                                                              *)
(***************************************************************************)
\* GetMoaProperty.
GetMoaProperty(g, key) == key \in heap[ctx[g]]

Started(g) == pc[g] \in {"run", "write"}

Spawned(r) == pc[<<r, "child">>] # "off"

\* Calls never share a map, whatever the application's context holds: a race on
\* a map is always one between a method and a goroutine it has itself handed
\* its context to.
RacesAreHomemade ==
  process = "fatal" =>
    \E r \in Requests : Spawned(r) /\ ctx[<<r, "child">>] = ctx[Main(r)]

\* A write to a nil map never takes the process down, unless a goroutine of the
\* application does it: Invoke itself injects a span only into a map that has
\* one, and what the method does is recovered.
OnlyGoroutinesCrash ==
  process = "crashed" =>
    \E r \in Requests : Spawned(r) /\ props[r] = NilMap

\* The call's environment goes with it to the end: what the request carried is
\* seen by the method, traced or not, until some goroutine of the call detaches it.
RequestPropertiesStay ==
  \A r \in Requests, key \in Keys :
    Started(Main(r)) /\ key \in carried[r] \ detached[r] => GetMoaProperty(Main(r), key)
=============================================================================
