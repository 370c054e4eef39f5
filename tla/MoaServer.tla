----------------------------- MODULE MoaServer -----------------------------
(***************************************************************************)
(* The request path of the MOA server: BinaryCodec decodes a frame         *)
(* (moa_codec.go), dis dispatches it (application.go), the invoke pool of  *)
(* turbo runs the call, InvocationHandler.Invoke resolves it, calls the    *)
(* method by reflection, counts it in MoaStat and answers (proxy.go,       *)
(* stat.go).  Frames are handled concurrently: dis runs in turbo's         *)
(* dispatcher, every call in a goroutine of the pool.                      *)
(***************************************************************************)
EXTENDS MoaProtocol, Sequences, FiniteSets

CONSTANTS
  Requests,       \* the frames clients send; the element is the packet's opaque
  Frames,         \* the kinds of frames they may send, a subset of Frame
  Timeout,        \* ProcessTimeout of the cluster, in ticks (milliseconds)
  PoolSize,       \* MaxDispatcherSize, the capacity of the invoke pool
  MaxClock        \* bound of the model: the clock stops here

ASSUME ServerAssumption ==
  /\ IsFiniteSet(Requests)
  /\ Frames \subseteq Frame
  /\ Timeout \in Nat \ {0}
  /\ PoolSize \in Nat \ {0}
  /\ MaxClock \in Nat

VARIABLES
  clock,      \* time.Now()
  frame,      \* frame[r]: what arrived as r
  stage,      \* stage[r]: where the server is with r
  decodedAt,  \* CreateTime, stamped by UnmarshalPayload
  queuedAt,   \* when dis made the context that bounds the task
  startedAt,  \* `now` of Invoke
  outcome,    \* how the method call came back
  resp,       \* resp.ErrCode of Invoke, 0 before the verdict
  wire,       \* wire[r]: the packets written to the client of r
  unsent,     \* history: unsent[r]: a write to the client of r has failed
  recv, proc, error, timeout,  \* the flows of MoaStatistic
  stopped     \* the application's context has been cancelled

times == <<decodedAt, queuedAt, startedAt>>
flows == <<recv, proc, error, timeout>>
replies == <<wire, unsent>>
vars == <<clock, frame, stage, times, outcome, resp, replies, flows, stopped>>

NoFrame == [cmd |-> "none", body |-> "none"]

Stage == {"idle", "decoded", "admitted", "queued", "begun", "calling", "returning", "answering",
          "settled"}

\* A call holds a worker of the pool from the start of its task to its end.
InPool(r) == stage[r] \in {"begun", "calling", "returning", "answering"}

IsCall(r) == frame[r].cmd = "REQ" /\ ~UnmarshalFails(frame[r])

\* Invoke has started for r: it is still running, or it has left its verdict.
Begun(r) == InPool(r) \/ resp[r] # 0

TypeOK ==
  /\ clock \in Nat
  /\ frame \in [Requests -> Frame \cup {NoFrame}]
  /\ stage \in [Requests -> Stage]
  /\ decodedAt \in [Requests -> Nat]
  /\ queuedAt \in [Requests -> Nat]
  /\ startedAt \in [Requests -> Nat]
  /\ outcome \in [Requests -> Outcome \cup {"none"}]
  /\ resp \in [Requests -> {0} \cup InvokeCode]
  /\ wire \in [Requests -> Seq(Wire)]
  /\ unsent \in [Requests -> BOOLEAN]
  /\ recv \in Nat /\ proc \in Nat /\ error \in Nat /\ timeout \in Nat
  /\ stopped \in BOOLEAN

Init ==
  /\ clock = 0
  /\ frame = [r \in Requests |-> NoFrame]
  /\ stage = [r \in Requests |-> "idle"]
  /\ decodedAt = [r \in Requests |-> 0]
  /\ queuedAt = [r \in Requests |-> 0]
  /\ startedAt = [r \in Requests |-> 0]
  /\ outcome = [r \in Requests |-> "none"]
  /\ resp = [r \in Requests |-> 0]
  /\ wire = [r \in Requests |-> <<>>]
  /\ unsent = [r \in Requests |-> FALSE]
  /\ recv = 0 /\ proc = 0 /\ error = 0 /\ timeout = 0
  /\ stopped = FALSE

-----------------------------------------------------------------------------
(***************************************************************************)
(* Steps shared by the handlers                                            *)
(***************************************************************************)
Goto(r, from, to) ==
  /\ stage[r] = from
  /\ stage' = [stage EXCEPT ![r] = to]

\* Client.Write either delivers the packet or returns an error, which every
\* caller only logs: nothing is written again.
Write(r, cmd, code, payload) ==
  \/ /\ wire' = [wire EXCEPT ![r] = Append(@, MarshalPayload(cmd, code, payload))]
     /\ UNCHANGED unsent
  \/ /\ unsent' = [unsent EXCEPT ![r] = TRUE]
     /\ UNCHANGED wire

IncrRecv == recv' = recv + 1 /\ UNCHANGED <<proc, error, timeout>>
IncrProc == proc' = proc + 1 /\ UNCHANGED <<recv, error, timeout>>
IncrError == error' = error + 1 /\ UNCHANGED <<recv, proc, timeout>>

-----------------------------------------------------------------------------
(***************************************************************************)
(* The codec and the dispatcher                                            *)
(***************************************************************************)
\* UnmarshalPayload: a REQ carries no creation time, so decoding stamps it.
\* (It is cut to milliseconds: the code may find a call older by less than a tick.)
\* A frame that does not decode reaches dis as well, with ctx.Err set.
Decode(r, f) ==
  /\ Goto(r, "idle", "decoded")
  /\ frame' = [frame EXCEPT ![r] = f]
  /\ decodedAt' = [decodedAt EXCEPT ![r] = clock]
  /\ UNCHANGED <<clock, queuedAt, startedAt, outcome, resp, replies, flows, stopped>>

DisError(r) ==
  /\ UnmarshalFails(frame[r])
  /\ Goto(r, "decoded", "settled")
  /\ Write(r, "RESP", CODE_THROWABLE, "error")
  /\ UNCHANGED <<clock, frame, times, outcome, resp, flows, stopped>>

Expired(r) == clock - decodedAt[r] >= Timeout

\* A call that waited too long for the dispatcher is dropped in silence.
DisExpired(r) ==
  /\ IsCall(r) /\ Expired(r)
  /\ Goto(r, "decoded", "settled")
  /\ UNCHANGED <<clock, frame, times, outcome, resp, replies, flows, stopped>>

DisAdmit(r) ==
  /\ IsCall(r) /\ ~Expired(r)
  /\ Goto(r, "decoded", "admitted")
  /\ UNCHANGED <<clock, frame, times, outcome, resp, replies, flows, stopped>>

\* context.WithTimeout(self.ctx, req.Timeout), which reads the clock again, then
\* invokePool.Queue.
DisQueue(r) ==
  /\ Goto(r, "admitted", "queued")
  /\ queuedAt' = [queuedAt EXCEPT ![r] = clock]
  /\ UNCHANGED <<clock, frame, decodedAt, startedAt, outcome, resp, replies, flows, stopped>>

\* Client.Pong of turbo (external) only records the heartbeat: it sends nothing.
DisPing(r) ==
  /\ frame[r].cmd = "PING" /\ ~UnmarshalFails(frame[r])
  /\ Goto(r, "decoded", "settled")
  /\ Write(r, "PONG", 0, "timestamp")
  /\ UNCHANGED <<clock, frame, times, outcome, resp, flows, stopped>>

DisInfo(r) ==
  /\ frame[r].cmd = "INFO" /\ ~UnmarshalFails(frame[r])
  /\ Goto(r, "decoded", "settled")
  /\ Write(r, "INFO", 0, "stat")
  /\ UNCHANGED <<clock, frame, times, outcome, resp, flows, stopped>>

\* RESP and PONG have no branch in dis.
DisIgnore(r) ==
  /\ frame[r].cmd \in {"RESP", "PONG"} /\ ~UnmarshalFails(frame[r])
  /\ Goto(r, "decoded", "settled")
  /\ UNCHANGED <<clock, frame, times, outcome, resp, replies, flows, stopped>>

Dis(r) ==
  \/ DisError(r) \/ DisExpired(r) \/ DisAdmit(r) \/ DisQueue(r)
  \/ DisPing(r) \/ DisInfo(r) \/ DisIgnore(r)

-----------------------------------------------------------------------------
(***************************************************************************)
(* The invoke pool (turbo, external): at most PoolSize tasks run, and dis  *)
(* ignores what Queue returns.  A task whose context is done before a      *)
(* worker takes it may be dropped, or still be run.                        *)
(***************************************************************************)
CtxDone(r) == stopped \/ clock - queuedAt[r] >= Timeout

PoolDrop(r) ==
  /\ CtxDone(r)
  /\ Goto(r, "queued", "settled")
  /\ UNCHANGED <<clock, frame, times, outcome, resp, replies, flows, stopped>>

PoolTakes == Cardinality({r \in Requests : InPool(r)}) < PoolSize

(***************************************************************************)
(* Invoke, from its first statement to its deferred function               *)
(***************************************************************************)
Begin(r) ==
  /\ PoolTakes
  /\ Goto(r, "queued", "begun")
  /\ IncrRecv
  /\ startedAt' = [startedAt EXCEPT ![r] = clock]
  /\ UNCHANGED <<clock, frame, decodedAt, queuedAt, outcome, resp, replies, stopped>>

\* mutant: a refused argument is reported with the client's code
RefusalCodeOfClient(call) == IF call = "badArgument" THEN 3020 ELSE CODE_SERVICE_NOT_FOUND

\* The code of a call that is refused before the method runs.
RefusalCode(call) ==
  CASE call = "noService" -> CODE_SERVICE_NOT_FOUND
    [] call = "noMethod" -> CODE_METHOD_NOT_FOUND
    [] call = "badArity" -> CODE_SERIALIZATION
    [] call = "badArgument" -> CODE_SERIALIZATION_SERVER

Refuse(r) ==
  /\ frame[r].body \notin Callable
  /\ Goto(r, "begun", "returning")
  /\ IncrError
  /\ resp' = [resp EXCEPT ![r] = RefusalCode(frame[r].body)]
  /\ UNCHANGED <<clock, frame, times, outcome, replies, stopped>>

CallMethod(r) ==
  /\ frame[r].body \in Callable
  /\ Goto(r, "begun", "calling")
  /\ UNCHANGED <<clock, frame, times, outcome, resp, replies, flows, stopped>>

\* The method returned.  Only the error of a method whose single result is an
\* error counts as a failure; a (value, error) pair counts as processed.
Return(r, o) ==
  /\ Goto(r, "calling", "returning")
  /\ o \in ReturnsOf(frame[r].body)
  /\ outcome' = [outcome EXCEPT ![r] = o]
  /\ \/ /\ o = "error"
        /\ IncrError
        /\ resp' = [resp EXCEPT ![r] = CODE_INVOCATION_TARGET]
     \/ /\ o # "error"
        /\ IncrProc
        /\ resp' = [resp EXCEPT ![r] = CODE_SERVER_SUCC]
  /\ UNCHANGED <<clock, frame, times, replies, stopped>>

\* mutant: the panic is answered where it happens, and again at the end
PanicAnswersAtOnce(r) ==
  /\ Goto(r, "calling", "returning")
  /\ outcome' = [outcome EXCEPT ![r] = "panic"]
  /\ Write(r, "RESP", CODE_INVOCATION_TARGET, "panic")
  /\ UNCHANGED <<clock, frame, times, resp, flows, stopped>>

\* mutant: a method that panicked is called again
PanicRetries(r) ==
  /\ Goto(r, "calling", "begun")
  /\ UNCHANGED <<clock, frame, times, outcome, resp, replies, flows, stopped>>

\* The method panicked: control goes straight to the deferred function.
Panic(r) ==
  /\ Goto(r, "calling", "returning")
  /\ outcome' = [outcome EXCEPT ![r] = "panic"]
  /\ UNCHANGED <<clock, frame, times, resp, replies, flows, stopped>>

\* What makes the deferred function recover: a panic of the method, or of IsNil
\* on an error that is a struct (after IncrProc).
Crashed(r) == outcome[r] \in {"panic", "structError"}

\* mutant: recovery only fills in a verdict that is missing
FinalCodeIfUnset(r) == IF resp[r] = 0 THEN CODE_INVOCATION_TARGET ELSE resp[r]

FinalCode(r) == IF Crashed(r) THEN CODE_INVOCATION_TARGET ELSE resp[r]

\* mutant: the cost is rounded up
LateTooSoon(r) == clock - startedAt[r] + 1 >= Timeout

Late(r) == clock - startedAt[r] >= Timeout

\* mutant: recovery forgets IncrError
DeferredUncounted(r) ==
  /\ Goto(r, "returning", IF Late(r) THEN "settled" ELSE "answering")
  /\ resp' = [resp EXCEPT ![r] = FinalCode(r)]
  /\ UNCHANGED <<clock, frame, times, outcome, replies, flows, stopped>>

\* mutant: a late call never gives its worker back
DeferredKeepsLateWorker(r) ==
  /\ ~Late(r)
  /\ Goto(r, "returning", "answering")
  /\ resp' = [resp EXCEPT ![r] = FinalCode(r)]
  /\ IF Crashed(r) THEN IncrError ELSE UNCHANGED flows
  /\ UNCHANGED <<clock, frame, times, outcome, replies, stopped>>

\* The deferred function recovers and reads its cost: a result that took too
\* long is discarded.
Deferred(r) ==
  /\ Goto(r, "returning", IF Late(r) THEN "settled" ELSE "answering")
  /\ resp' = [resp EXCEPT ![r] = FinalCode(r)]
  /\ IF Crashed(r) THEN IncrError ELSE UNCHANGED flows
  /\ UNCHANGED <<clock, frame, times, outcome, replies, stopped>>

\* onCallback, however much later: the cost is not looked at again.
Answer(r) ==
  /\ Goto(r, "answering", "settled")
  /\ Write(r, "RESP", resp[r], outcome[r])
  /\ UNCHANGED <<clock, frame, times, outcome, resp, flows, stopped>>

-----------------------------------------------------------------------------
(***************************************************************************)
(* The environment: time passes; DestroyApplication cancels the context.   *)
(***************************************************************************)
Tick ==
  /\ clock < MaxClock
  /\ clock' = clock + 1
  /\ UNCHANGED <<frame, stage, times, outcome, resp, replies, flows, stopped>>

Stop ==
  /\ ~stopped
  /\ stopped' = TRUE
  /\ UNCHANGED <<clock, frame, stage, times, outcome, resp, replies, flows>>

Serve(r) ==
  \/ Dis(r) \/ PoolDrop(r) \/ Begin(r) \/ Refuse(r) \/ CallMethod(r)
  \/ (\E o \in Returned : Return(r, o)) \/ Panic(r)
  \/ Deferred(r) \/ Answer(r)

Next ==
  \/ \E r \in Requests : (\E f \in Frames : Decode(r, f)) \/ Serve(r)
  \/ Tick \/ Stop

Spec == Init /\ [][Next]_vars

(***************************************************************************)
(* Every goroutine that can run does (Go's scheduler); a task waiting for  *)
(* a worker gets one in its turn, hence strong fairness for Begin.  That   *)
(* methods return, or panic, is an assumption about the application.       *)
(***************************************************************************)
FairSpec ==
  /\ Spec
  /\ \A r \in Requests :
       /\ WF_vars(Serve(r))
       /\ SF_vars(Begin(r) \/ PoolDrop(r))

-----------------------------------------------------------------------------
(***************************************************************************)
(* Properties                                                              *)
(***************************************************************************)
\* A client gets at most one packet for a frame, and only once the server is
\* done with it: neither the recovery of a panic nor a failed write answers
\* a second time (proxy.go:174-218, application.go:262-269).
AtMostOneReply ==
  \A r \in Requests :
    /\ Len(wire[r]) <= 1
    /\ wire[r] # <<>> => stage[r] = "settled"

BegunCalls == {r \in Requests : Begun(r)}
ProcessedCalls == {r \in Requests : resp[r] = CODE_SERVER_SUCC \/ outcome[r] = "structError"}
FailedCalls == {r \in Requests : resp[r] \in FailureCode}

\* MoaStat tells the truth about verdicts: recv counts the invocations begun,
\* error those with a failure code, proc those with code 200, plus those that
\* lost it again to a panic, whichever of the nine IncrX call sites of Invoke
\* they went through and however they interleave.
CountersExact ==
  /\ recv = Cardinality(BegunCalls)
  /\ proc = Cardinality(ProcessedCalls)
  /\ error = Cardinality(FailedCalls)

\* Code 200 on the wire means that the method ran, returned, and was counted
\* as processed: no refusal, panic or unencodable result is reported as 200.
SuccessIsGenuine ==
  \A r \in Requests :
    wire[r] # <<>> /\ wire[r][1].code = CODE_SERVER_SUCC =>
      /\ outcome[r] \in {"value", "valueWithError", "nil"}
      /\ resp[r] = CODE_SERVER_SUCC

\* A frame that dis has a branch for goes without an answer only for a reason:
\* the write failed, the application was being stopped, or ProcessTimeout had
\* passed since the call was decoded, whichever of the three clocks ran out
\* (application.go:278 and 283, proxy.go:192).
Answerable(r) == UnmarshalFails(frame[r]) \/ frame[r].cmd \in {"REQ", "PING", "INFO"}

SilenceIsJustified ==
  [][\A r \in Requests :
       stage[r] # "settled" /\ stage'[r] = "settled" /\ Answerable(r) /\ wire'[r] = <<>> =>
         unsent'[r] \/ (IsCall(r) /\ (stopped \/ clock - decodedAt[r] >= Timeout))]_vars

\* Every frame the server has decoded is eventually settled and its worker
\* given back: no path through dis, the pool or Invoke loses a request.
EveryFrameSettles ==
  \A r \in Requests : (stage[r] = "decoded") ~> (stage[r] = "settled")

(***************************************************************************)
(* The server implements the promise of MoaRpc.                            *)
(***************************************************************************)
PhaseOf(r) ==
  CASE stage[r] = "idle" -> "idle"
    [] stage[r] = "settled" -> "settled"
    [] stage[r] = "calling" \/ (stage[r] \in {"returning", "answering"} /\ outcome[r] # "none") ->
         "executing"
    [] OTHER -> "pending"

AnswerOf(r) ==
  CASE wire[r] = <<>> -> "none"
    [] wire[r] # <<>> /\ wire[r][1].cmd # "RESP" -> "notice"
    [] wire[r] # <<>> /\ wire[r][1].cmd = "RESP" ->
         IF wire[r][1].code = CODE_SERVER_SUCC THEN "success" ELSE "failure"

Rpc == INSTANCE MoaRpc WITH phase <- [r \in Requests |-> PhaseOf(r)],
                            answer <- [r \in Requests |-> AnswerOf(r)]

\* Each frame is received, executed at most once and settled at most once,
\* and every received frame is settled (the promise MoaRpc spells out).
ImplementsRpc == Rpc!FairSpec

-----------------------------------------------------------------------------
(***************************************************************************)
(* What the documentation says and the code does not do                    *)
(***************************************************************************)
\* README: "timeout" is the number of timed-out calls.  A call dropped because
\* it expired before or during its invocation should be counted there.
TimeoutsAreCounted ==
  [][\A r \in Requests :
       stage'[r] = "settled" /\ ((stage[r] = "decoded" /\ IsCall(r) /\ Expired(r))
                                 \/ (stage[r] = "returning" /\ Late(r)))
         => timeout' = timeout + 1]_vars
=============================================================================
