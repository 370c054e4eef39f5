-------------------------- MODULE MoaServer_proofs --------------------------
(***************************************************************************)
(* Proofs about MoaServer, for every set of requests and frames, timeout,  *)
(* pool size and clock bound.                                              *)
(***************************************************************************)
EXTENDS MoaServer, FiniteSetTheorems, TLAPS

(***************************************************************************)
(* The packets the server hands to Client.Write are well formed on the     *)
(* wire, and a response keeps its code unless its result does not encode.  *)
(***************************************************************************)
LEMMA ResponseType ==
  ASSUME NEW code \in Code, NEW payload
  PROVE  /\ MarshalPayload("RESP", code, payload) \in Wire
         /\ MarshalPayload("RESP", code, payload).cmd = "RESP"
         /\ MarshalPayload("RESP", code, payload).code =
              IF payload = "unencodable" THEN CODE_SERIALIZATION_SERVER ELSE code
  BY DEF MarshalPayload, Wire, Command, Code, InvokeCode, FailureCode

LEMMA NoticeType ==
  /\ MarshalPayload("PONG", 0, "timestamp") \in Wire
  /\ MarshalPayload("PONG", 0, "timestamp").cmd = "PONG"
  /\ MarshalPayload("INFO", 0, "stat") \in Wire
  /\ MarshalPayload("INFO", 0, "stat").cmd = "INFO"
  BY DEF MarshalPayload, Wire, Command, Code

LEMMA CodeTypes ==
  /\ CODE_THROWABLE \in Code
  /\ InvokeCode \subseteq Code
  /\ FailureCode \subseteq InvokeCode
  /\ 0 \notin InvokeCode
  /\ CODE_SERVER_SUCC \in InvokeCode \ FailureCode
  /\ CODE_INVOCATION_TARGET \in FailureCode
  /\ CODE_SERIALIZATION_SERVER \in FailureCode
  BY DEF Code, InvokeCode, FailureCode, CODE_SERVER_SUCC, CODE_THROWABLE,
     CODE_SERIALIZATION, CODE_SERVICE_NOT_FOUND, CODE_METHOD_NOT_FOUND,
     CODE_INVOCATION_TARGET, CODE_SERIALIZATION_SERVER

LEMMA RefusalType ==
  ASSUME NEW call \in Call \ Callable
  PROVE  RefusalCode(call) \in FailureCode
  BY DEF Call, Callable, RefusalCode, FailureCode

\* Whether the write succeeds or not, the wires stay sequences of packets.
LEMMA WriteType ==
  ASSUME wire \in [Requests -> Seq(Wire)], unsent \in [Requests -> BOOLEAN],
         NEW r \in Requests, NEW cmd, NEW code, NEW payload,
         MarshalPayload(cmd, code, payload) \in Wire,
         Write(r, cmd, code, payload)
  PROVE  wire' \in [Requests -> Seq(Wire)] /\ unsent' \in [Requests -> BOOLEAN]
<1>. DEFINE p == MarshalPayload(cmd, code, payload)
<1>0. unsent' \in [Requests -> BOOLEAN]
  BY DEF Write
<1>1. CASE UNCHANGED wire
  BY <1>0, <1>1
<1>2. CASE wire' = [wire EXCEPT ![r] = Append(@, p)]
  <2>1. Append(wire[r], p) \in Seq(Wire)
    OBVIOUS
  <2>. QED BY <1>0, <1>2, <2>1
<1>. QED BY <1>1, <1>2 DEF Write

-----------------------------------------------------------------------------
(***************************************************************************)
(* Type correctness.  A call that is refused is one of Call \ Callable     *)
(* because only calls are queued.                                          *)
(***************************************************************************)
QueuedAreCalls ==
  \A r \in Requests :
    stage[r] \in {"admitted", "queued", "begun", "calling", "returning", "answering"} =>
      IsCall(r) /\ frame[r].body \in Call

LEMMA TypeInductive ==
  /\ Init => TypeOK /\ QueuedAreCalls
  /\ TypeOK /\ QueuedAreCalls /\ [Next]_vars => TypeOK' /\ QueuedAreCalls'
<1>. USE ServerAssumption
<1>1. Init => TypeOK /\ QueuedAreCalls
  <2>. SUFFICES ASSUME Init PROVE TypeOK /\ QueuedAreCalls
    OBVIOUS
  <2>1. wire \in [Requests -> Seq(Wire)]
    <3>1. <<>> \in Seq(Wire)
      OBVIOUS
    <3>. QED BY <3>1 DEF Init
  <2>2. stopped \in BOOLEAN
    BY DEF Init
  <2>. QED BY <2>1, <2>2 DEF Init, TypeOK, QueuedAreCalls, Stage
<1>2. ASSUME TypeOK, QueuedAreCalls, [Next]_vars
      PROVE  TypeOK' /\ QueuedAreCalls'
  <2>. USE <1>2 DEF TypeOK, QueuedAreCalls, Goto, Stage, times, flows, replies, IsCall
  <2>1. ASSUME NEW r \in Requests, NEW f \in Frames, Decode(r, f)
        PROVE  TypeOK' /\ QueuedAreCalls'
    BY <2>1 DEF Decode
  <2>2. ASSUME NEW r \in Requests, DisError(r)
        PROVE  TypeOK' /\ QueuedAreCalls'
    <3>1. wire' \in [Requests -> Seq(Wire)] /\ unsent' \in [Requests -> BOOLEAN]
      BY <2>2, ResponseType, CodeTypes, WriteType DEF DisError
    <3>. QED BY <2>2, <3>1 DEF DisError
  <2>3. ASSUME NEW r \in Requests, DisExpired(r)
        PROVE  TypeOK' /\ QueuedAreCalls'
    BY <2>3 DEF DisExpired
  <2>4. ASSUME NEW r \in Requests, DisAdmit(r)
        PROVE  TypeOK' /\ QueuedAreCalls'
    <3>1. frame[r].body \in Call
      BY <2>4 DEF DisAdmit, UnmarshalFails, Frame, NoFrame, Call, Command
    <3>. QED BY <2>4, <3>1 DEF DisAdmit
  <2>5. ASSUME NEW r \in Requests, DisPing(r)
        PROVE  TypeOK' /\ QueuedAreCalls'
    <3>1. wire' \in [Requests -> Seq(Wire)] /\ unsent' \in [Requests -> BOOLEAN]
      BY <2>5, NoticeType, WriteType DEF DisPing
    <3>. QED BY <2>5, <3>1 DEF DisPing
  <2>6. ASSUME NEW r \in Requests, DisInfo(r)
        PROVE  TypeOK' /\ QueuedAreCalls'
    <3>1. wire' \in [Requests -> Seq(Wire)] /\ unsent' \in [Requests -> BOOLEAN]
      BY <2>6, NoticeType, WriteType DEF DisInfo
    <3>. QED BY <2>6, <3>1 DEF DisInfo
  <2>7. ASSUME NEW r \in Requests, DisIgnore(r)
        PROVE  TypeOK' /\ QueuedAreCalls'
    BY <2>7 DEF DisIgnore
  <2>8. ASSUME NEW r \in Requests, PoolDrop(r)
        PROVE  TypeOK' /\ QueuedAreCalls'
    BY <2>8 DEF PoolDrop
  <2>9. ASSUME NEW r \in Requests, Begin(r)
        PROVE  TypeOK' /\ QueuedAreCalls'
    BY <2>9 DEF Begin, IncrRecv
  <2>10. ASSUME NEW r \in Requests, Refuse(r)
         PROVE  TypeOK' /\ QueuedAreCalls'
    <3>1. RefusalCode(frame[r].body) \in InvokeCode
      BY <2>10, RefusalType, CodeTypes DEF Refuse
    <3>. QED BY <2>10, <3>1 DEF Refuse, IncrError
  <2>11. ASSUME NEW r \in Requests, CallMethod(r)
         PROVE  TypeOK' /\ QueuedAreCalls'
    BY <2>11 DEF CallMethod
  <2>12. ASSUME NEW r \in Requests, NEW o \in Returned, Return(r, o)
         PROVE  TypeOK' /\ QueuedAreCalls'
    <3>1. o \in Outcome \cup {"none"}
      BY DEF Outcome
    <3>2. outcome' \in [Requests -> Outcome \cup {"none"}]
      BY <2>12, <3>1 DEF Return
    <3>3. resp' \in [Requests -> {0} \cup InvokeCode]
      BY <2>12, CodeTypes DEF Return
    <3>4. recv' \in Nat /\ proc' \in Nat /\ error' \in Nat /\ timeout' \in Nat
      BY <2>12 DEF Return, IncrError, IncrProc
    <3>. QED BY <2>12, <3>2, <3>3, <3>4 DEF Return
  <2>13. ASSUME NEW r \in Requests, Panic(r)
         PROVE  TypeOK' /\ QueuedAreCalls'
    BY <2>13 DEF Panic, Outcome
  <2>14. ASSUME NEW r \in Requests, Deferred(r)
         PROVE  TypeOK' /\ QueuedAreCalls'
    <3>1. FinalCode(r) \in {0} \cup InvokeCode
      BY CodeTypes DEF FinalCode, Crashed
    <3>2. recv' \in Nat /\ proc' \in Nat /\ error' \in Nat /\ timeout' \in Nat
      BY <2>14 DEF Deferred, IncrError
    <3>. QED BY <2>14, <3>1, <3>2 DEF Deferred
  <2>15. CASE Tick
    BY <2>15 DEF Tick
  <2>16. CASE Stop
    BY <2>16 DEF Stop
  <2>17. CASE UNCHANGED vars
    BY <2>17 DEF vars
  <2>18. ASSUME NEW r \in Requests, DisQueue(r)
         PROVE  TypeOK' /\ QueuedAreCalls'
    BY <2>18 DEF DisQueue
  <2>19. ASSUME NEW r \in Requests, Answer(r)
         PROVE  TypeOK' /\ QueuedAreCalls'
    <3>1. resp[r] \in Code
      BY CodeTypes DEF Code
    <3>2. wire' \in [Requests -> Seq(Wire)] /\ unsent' \in [Requests -> BOOLEAN]
      BY <2>19, <3>1, ResponseType, WriteType DEF Answer
    <3>. QED BY <2>19, <3>2 DEF Answer
  <2>. QED
    BY <2>1, <2>2, <2>3, <2>4, <2>5, <2>6, <2>7, <2>8, <2>9, <2>10, <2>11, <2>12,
       <2>13, <2>14, <2>15, <2>16, <2>17, <2>18, <2>19 DEF Next, Serve, Dis
<1>. QED BY <1>1, <1>2

(***************************************************************************)
(* In every reachable state the variables have their types, and only calls *)
(* ever reach the pool and Invoke.                                         *)
(***************************************************************************)
THEOREM TypeCorrect == Spec => [](TypeOK /\ QueuedAreCalls)
  BY TypeInductive, PTL DEF Spec

-----------------------------------------------------------------------------
(***************************************************************************)
(* The inductive invariant behind the safety properties.  VerdictInv ties  *)
(* resp and outcome to the stage: Invoke has no verdict before it returns, *)
(* has one when it does unless the method panicked, its verdict is         *)
(* "success" only for a method that returned without being an error, and   *)
(* what it answers is never the success of a call that crashed.            *)
(***************************************************************************)
VerdictInv ==
  \A r \in Requests :
    /\ stage[r] \in {"idle", "decoded", "admitted", "queued", "begun", "calling"} =>
         resp[r] = 0 /\ outcome[r] = "none"
    /\ stage[r] = "returning" => (resp[r] = 0 <=> outcome[r] = "panic")
    /\ stage[r] = "returning" /\ outcome[r] = "structError" => resp[r] = CODE_SERVER_SUCC
    /\ stage[r] = "answering" => ~(Crashed(r) /\ resp[r] = CODE_SERVER_SUCC) /\ resp[r] # 0
    /\ resp[r] = CODE_SERVER_SUCC => outcome[r] \in Returned \ {"error"}

LEMMA VerdictInductive ==
  /\ Init => VerdictInv
  /\ TypeOK /\ QueuedAreCalls /\ VerdictInv /\ [Next]_vars => VerdictInv'
<1>1. Init => VerdictInv
  BY DEF Init, VerdictInv, CODE_SERVER_SUCC
<1>2. ASSUME TypeOK, QueuedAreCalls, VerdictInv, [Next]_vars
      PROVE  VerdictInv'
  <2>. USE <1>2 DEF VerdictInv, Crashed, TypeOK, Goto, Stage
  <2>1. ASSUME NEW r \in Requests, NEW f \in Frames, Decode(r, f)
        PROVE  VerdictInv'
    BY <2>1 DEF Decode
  <2>2. ASSUME NEW r \in Requests, Dis(r) \/ PoolDrop(r)
        PROVE  VerdictInv'
    BY <2>2 DEF Dis, DisError, DisExpired, DisAdmit, DisQueue, DisPing, DisInfo, DisIgnore, PoolDrop
  <2>3. ASSUME NEW r \in Requests, Begin(r) \/ CallMethod(r)
        PROVE  VerdictInv'
    BY <2>3 DEF Begin, CallMethod
  <2>4. ASSUME NEW r \in Requests, Refuse(r)
        PROVE  VerdictInv'
    <3>1. RefusalCode(frame[r].body) \in FailureCode
      BY <2>4, RefusalType DEF Refuse, QueuedAreCalls
    <3>2. RefusalCode(frame[r].body) \notin {0, CODE_SERVER_SUCC}
      BY <3>1, CodeTypes
    <3>. QED BY <2>4, <3>2 DEF Refuse
  <2>5. ASSUME NEW r \in Requests, NEW o \in Returned, Return(r, o)
        PROVE  VerdictInv'
    <3>1. o \notin {"none", "panic"}
      BY DEF Returned
    <3>2. CODE_SERVER_SUCC \notin {0, CODE_INVOCATION_TARGET} /\ CODE_INVOCATION_TARGET # 0
      BY CodeTypes
    <3>. QED BY <2>5, <3>1, <3>2 DEF Return
  <2>6. ASSUME NEW r \in Requests, Panic(r)
        PROVE  VerdictInv'
    <3>1. CODE_SERVER_SUCC # 0
      BY CodeTypes
    <3>. QED BY <2>6, <3>1 DEF Panic
  <2>7. ASSUME NEW r \in Requests, Deferred(r)
        PROVE  VerdictInv'
    <3>1. /\ FinalCode(r) = CODE_SERVER_SUCC => resp[r] = CODE_SERVER_SUCC
          /\ ~(Crashed(r) /\ FinalCode(r) = CODE_SERVER_SUCC) /\ FinalCode(r) # 0
      BY <2>7, CodeTypes DEF FinalCode, Crashed, Deferred
    <3>. QED BY <2>7, <3>1 DEF Deferred
  <2>8. CASE Tick \/ Stop \/ UNCHANGED vars
    BY <2>8 DEF Tick, Stop, vars
  <2>9. ASSUME NEW r \in Requests, Answer(r)
        PROVE  VerdictInv'
    BY <2>9 DEF Answer
  <2>. QED
    BY <2>1, <2>2, <2>3, <2>4, <2>5, <2>6, <2>7, <2>8, <2>9 DEF Next, Serve
<1>. QED BY <1>1, <1>2

LEMMA VerdictCorrect == Spec => []VerdictInv
  BY TypeInductive, VerdictInductive, TypeCorrect, PTL DEF Spec

-----------------------------------------------------------------------------
(***************************************************************************)
(* Replies.  A step that writes leaves every other wire alone, and the     *)
(* wire it writes to, empty before, holds that packet or is still empty.   *)
(***************************************************************************)
LEMMA WriteOnce ==
  ASSUME wire \in [Requests -> Seq(Wire)], NEW r \in Requests, wire[r] = <<>>,
         NEW cmd, NEW code, NEW payload, Write(r, cmd, code, payload)
  PROVE  /\ \A q \in Requests \ {r} : wire'[q] = wire[q]
         /\ wire'[r] = <<>> \/ wire'[r] = <<MarshalPayload(cmd, code, payload)>>
  BY DEF Write

LEMMA ReplyInductive ==
  /\ Init => AtMostOneReply /\ SuccessIsGenuine
  /\ TypeOK /\ VerdictInv /\ AtMostOneReply /\ SuccessIsGenuine /\ [Next]_vars
       => AtMostOneReply' /\ SuccessIsGenuine'
<1>1. Init => AtMostOneReply /\ SuccessIsGenuine
  BY DEF Init, AtMostOneReply, SuccessIsGenuine
<1>2. ASSUME TypeOK, VerdictInv, AtMostOneReply, SuccessIsGenuine, [Next]_vars
      PROVE  AtMostOneReply' /\ SuccessIsGenuine'
  <2>. USE <1>2 DEF AtMostOneReply, SuccessIsGenuine, Goto, TypeOK, replies
  <2>1. ASSUME NEW r \in Requests, NEW cmd, NEW code, NEW payload,
               stage[r] # "settled", stage' = [stage EXCEPT ![r] = "settled"],
               Write(r, cmd, code, payload), UNCHANGED outcome,
               \A q \in Requests \ {r} : resp'[q] = resp[q],
               MarshalPayload(cmd, code, payload).code = CODE_SERVER_SUCC =>
                 /\ outcome[r] \in {"value", "valueWithError", "nil"}
                 /\ resp'[r] = CODE_SERVER_SUCC
        PROVE  AtMostOneReply' /\ SuccessIsGenuine'
    <3>1. wire[r] = <<>>
      BY <2>1
    <3>2. /\ \A q \in Requests \ {r} : wire'[q] = wire[q]
          /\ wire'[r] = <<>> \/ wire'[r] = <<MarshalPayload(cmd, code, payload)>>
      BY <2>1, <3>1, WriteOnce
    <3>. DEFINE p == MarshalPayload(cmd, code, payload)
    <3>3. CASE wire'[r] = <<>>
      BY <2>1, <3>2, <3>3
    <3>4. CASE wire'[r] = <<p>>
      <4>1. Len(wire'[r]) = 1 /\ wire'[r][1] = p
        BY <3>4
      <4>2. ASSUME NEW q \in Requests
            PROVE  Len(wire'[q]) <= 1 /\ (wire'[q] # <<>> => stage'[q] = "settled")
        <5>1. CASE q = r
          <6>1. stage'[r] = "settled"
            BY <2>1
          <6>2. Len(wire'[r]) <= 1
            BY <4>1, 1 <= 1
          <6>. QED BY <5>1, <6>1, <6>2
        <5>2. CASE q # r
          BY <2>1, <3>2, <5>2
        <5>. QED BY <5>1, <5>2
      <4>3. ASSUME NEW q \in Requests, wire'[q] # <<>>, wire'[q][1].code = CODE_SERVER_SUCC
            PROVE  /\ outcome'[q] \in {"value", "valueWithError", "nil"}
                   /\ resp'[q] = CODE_SERVER_SUCC
        <5>1. CASE q = r
          BY <2>1, <4>1, <4>3, <5>1
        <5>2. CASE q # r
          BY <2>1, <3>2, <4>3, <5>2
        <5>. QED BY <5>1, <5>2
      <4>. QED BY <4>2, <4>3
    <3>. QED BY <3>2, <3>3, <3>4
  <2>2. ASSUME NEW r \in Requests, NEW f \in Frames, Decode(r, f)
        PROVE  AtMostOneReply' /\ SuccessIsGenuine'
    BY <2>2 DEF Decode
  <2>3. ASSUME NEW r \in Requests, DisError(r)
        PROVE  AtMostOneReply' /\ SuccessIsGenuine'
    <3>1. MarshalPayload("RESP", CODE_THROWABLE, "error").code # CODE_SERVER_SUCC
      BY DEF MarshalPayload, CODE_THROWABLE, CODE_SERVER_SUCC
    <3>. QED BY <2>3, <3>1, <2>1 DEF DisError
  <2>4. ASSUME NEW r \in Requests, DisPing(r) \/ DisInfo(r)
        PROVE  AtMostOneReply' /\ SuccessIsGenuine'
    <3>1. /\ MarshalPayload("PONG", 0, "timestamp").code # CODE_SERVER_SUCC
          /\ MarshalPayload("INFO", 0, "stat").code # CODE_SERVER_SUCC
      BY DEF MarshalPayload, CODE_SERVER_SUCC
    <3>. QED BY <2>4, <3>1, <2>1 DEF DisPing, DisInfo
  <2>5. ASSUME NEW r \in Requests,
               DisExpired(r) \/ DisAdmit(r) \/ DisQueue(r) \/ DisIgnore(r) \/ PoolDrop(r)
                 \/ Begin(r) \/ CallMethod(r)
        PROVE  AtMostOneReply' /\ SuccessIsGenuine'
    BY <2>5 DEF DisExpired, DisAdmit, DisQueue, DisIgnore, PoolDrop, Begin, CallMethod
  <2>6. ASSUME NEW r \in Requests,
               Refuse(r) \/ (\E o \in Returned : Return(r, o)) \/ Panic(r)
        PROVE  AtMostOneReply' /\ SuccessIsGenuine'
    <3>1. wire[r] = <<>>
      BY <2>6 DEF Refuse, Return, Panic
    <3>. QED BY <2>6, <3>1 DEF Refuse, Return, Panic
  <2>7. ASSUME NEW r \in Requests, Deferred(r)
        PROVE  AtMostOneReply' /\ SuccessIsGenuine'
    <3>1. wire[r] = <<>>
      BY <2>7 DEF Deferred
    <3>. QED BY <2>7, <3>1 DEF Deferred, replies
  <2>8. CASE Tick \/ Stop \/ UNCHANGED vars
    BY <2>8 DEF Tick, Stop, vars
  <2>9. ASSUME NEW r \in Requests, Answer(r)
        PROVE  AtMostOneReply' /\ SuccessIsGenuine'
    <3>1. resp[r] \in Code
      BY CodeTypes DEF Code
    <3>2. MarshalPayload("RESP", resp[r], outcome[r]).code = CODE_SERVER_SUCC =>
            outcome[r] # "unencodable" /\ resp[r] = CODE_SERVER_SUCC
      BY <3>1, ResponseType, CodeTypes
    <3>3. resp[r] = CODE_SERVER_SUCC => outcome[r] \in Returned \ {"error", "structError"}
      BY <2>9 DEF Answer, Crashed, VerdictInv
    <3>4. MarshalPayload("RESP", resp[r], outcome[r]).code = CODE_SERVER_SUCC =>
            /\ outcome[r] \in {"value", "valueWithError", "nil"}
            /\ resp'[r] = CODE_SERVER_SUCC
      BY <2>9, <3>2, <3>3 DEF Answer, Returned
    <3>. QED BY <2>9, <3>4, <2>1 DEF Answer
  <2>. QED
    BY <2>2, <2>3, <2>4, <2>5, <2>6, <2>7, <2>8, <2>9 DEF Next, Serve, Dis
<1>. QED BY <1>1, <1>2

(***************************************************************************)
(* No frame is ever answered twice or before the server is done with it,   *)
(* and a "success" answer is always the result of a method that returned.  *)
(***************************************************************************)
THEOREM RepliesCorrect == Spec => [](AtMostOneReply /\ SuccessIsGenuine)
  BY ReplyInductive, TypeCorrect, VerdictCorrect, PTL DEF Spec

\* In particular code 200 on the wire is that of a method that returned: no
\* refusal, panic or result that cannot be encoded is answered with it.
COROLLARY SuccessCorrect == Spec => []SuccessIsGenuine
  BY RepliesCorrect, PTL

-----------------------------------------------------------------------------
(***************************************************************************)
(* The statistics.  Each IncrX of Invoke adds one call to the set its flow *)
(* counts, a call that was not in it.                                      *)
(***************************************************************************)
LEMMA CountOneMore ==
  ASSUME NEW S \in SUBSET Requests, NEW r \in Requests, r \notin S
  PROVE  Cardinality(S \cup {r}) = Cardinality(S) + 1
<1>1. IsFiniteSet(S)
  BY ServerAssumption, FS_Subset
<1>. QED BY <1>1, FS_AddElement

LEMMA CountNone == Cardinality({}) = 0
  BY FS_EmptySet

LEMMA CountersInductive ==
  /\ Init => CountersExact
  /\ TypeOK /\ QueuedAreCalls /\ VerdictInv /\ CountersExact /\ [Next]_vars => CountersExact'
<1>1. Init => CountersExact
  <2>. SUFFICES ASSUME Init PROVE CountersExact
    OBVIOUS
  <2>1. BegunCalls = {} /\ ProcessedCalls = {} /\ FailedCalls = {}
    BY CodeTypes DEF Init, BegunCalls, ProcessedCalls, FailedCalls, Begun, InPool
  <2>. QED BY <2>1, CountNone DEF Init, CountersExact
<1>2. ASSUME TypeOK, QueuedAreCalls, VerdictInv, CountersExact, [Next]_vars
      PROVE  CountersExact'
  <2>. USE <1>2 DEF TypeOK, VerdictInv, Goto, Stage, BegunCalls, ProcessedCalls, FailedCalls,
           Begun, InPool
  <2>1. ASSUME UNCHANGED flows, BegunCalls' = BegunCalls,
               ProcessedCalls' = ProcessedCalls, FailedCalls' = FailedCalls
        PROVE  CountersExact'
    BY <2>1 DEF CountersExact, flows
  <2>2. ASSUME NEW r \in Requests, NEW f \in Frames, Decode(r, f)
        PROVE  CountersExact'
    BY <2>1, <2>2 DEF Decode
  <2>3. ASSUME NEW r \in Requests, Dis(r) \/ PoolDrop(r)
        PROVE  CountersExact'
    BY <2>1, <2>3 DEF Dis, DisError, DisExpired, DisAdmit, DisQueue, DisPing, DisInfo, DisIgnore,
                      PoolDrop
  <2>4. ASSUME NEW r \in Requests, Begin(r)
        PROVE  CountersExact'
    <3>1. BegunCalls' = BegunCalls \cup {r} /\ r \notin BegunCalls
      BY <2>4 DEF Begin
    <3>2. ProcessedCalls' = ProcessedCalls /\ FailedCalls' = FailedCalls
      BY <2>4 DEF Begin
    <3>. HIDE DEF BegunCalls, ProcessedCalls, FailedCalls
    <3>3. BegunCalls \subseteq Requests
      BY DEF BegunCalls
    <3>. QED BY <2>4, <3>1, <3>2, <3>3, CountOneMore DEF Begin, IncrRecv, CountersExact
  <2>5. ASSUME NEW r \in Requests, BegunCalls' = BegunCalls, r \notin FailedCalls, IncrError,
               ProcessedCalls' = ProcessedCalls, FailedCalls' = FailedCalls \cup {r}
        PROVE  CountersExact'
    <3>. HIDE DEF BegunCalls, ProcessedCalls, FailedCalls
    <3>1. FailedCalls \subseteq Requests
      BY DEF FailedCalls
    <3>. QED BY <2>5, <3>1, CountOneMore DEF IncrError, CountersExact
  <2>6. ASSUME NEW r \in Requests, BegunCalls' = BegunCalls, r \notin ProcessedCalls, IncrProc,
               ProcessedCalls' = ProcessedCalls \cup {r}, FailedCalls' = FailedCalls
        PROVE  CountersExact'
    <3>. HIDE DEF BegunCalls, ProcessedCalls, FailedCalls
    <3>1. ProcessedCalls \subseteq Requests
      BY DEF ProcessedCalls
    <3>. QED BY <2>6, <3>1, CountOneMore DEF IncrProc, CountersExact
  <2>7. ASSUME NEW r \in Requests, Refuse(r)
        PROVE  CountersExact'
    <3>1. RefusalCode(frame[r].body) \in FailureCode
      BY <2>7, RefusalType DEF Refuse, QueuedAreCalls
    <3>2. RefusalCode(frame[r].body) \notin {0, CODE_SERVER_SUCC}
      BY <3>1, CodeTypes
    <3>3. BegunCalls' = BegunCalls
      BY <2>7 DEF Refuse
    <3>4. ProcessedCalls' = ProcessedCalls
      BY <2>7, <3>2, CodeTypes DEF Refuse
    <3>5. FailedCalls' = FailedCalls \cup {r} /\ r \notin FailedCalls
      BY <2>7, <3>1, CodeTypes DEF Refuse
    <3>. QED BY <2>5, <2>7, <3>3, <3>4, <3>5 DEF Refuse
  <2>8. ASSUME NEW r \in Requests, NEW o \in Returned, Return(r, o)
        PROVE  CountersExact'
    <3>1. BegunCalls' = BegunCalls
      BY <2>8 DEF Return
    <3>2. CASE o = "error"
      <4>1. ProcessedCalls' = ProcessedCalls
        BY <2>8, <3>2, CodeTypes DEF Return
      <4>2. FailedCalls' = FailedCalls \cup {r} /\ r \notin FailedCalls
        BY <2>8, <3>2, CodeTypes DEF Return
      <4>. QED BY <2>5, <2>8, <3>1, <3>2, <4>1, <4>2 DEF Return
    <3>3. CASE o # "error"
      <4>1. ProcessedCalls' = ProcessedCalls \cup {r} /\ r \notin ProcessedCalls
        BY <2>8, <3>3, CodeTypes DEF Return
      <4>2. FailedCalls' = FailedCalls
        BY <2>8, <3>3, CodeTypes DEF Return
      <4>. QED BY <2>6, <2>8, <3>1, <3>3, <4>1, <4>2 DEF Return
    <3>. QED BY <3>2, <3>3
  <2>9. ASSUME NEW r \in Requests, CallMethod(r)
        PROVE  CountersExact'
    BY <2>1, <2>9 DEF CallMethod
  <2>10. ASSUME NEW r \in Requests, Panic(r)
         PROVE  CountersExact'
    <3>1. ProcessedCalls' = ProcessedCalls
      BY <2>10 DEF Panic
    <3>. QED BY <2>1, <2>10, <3>1 DEF Panic
  <2>11. ASSUME NEW r \in Requests, Deferred(r)
         PROVE  CountersExact'
    <3>1. BegunCalls' = BegunCalls
      BY <2>11, CodeTypes DEF Deferred, FinalCode, Crashed
    <3>2. ProcessedCalls' = ProcessedCalls
      BY <2>11, CodeTypes DEF Deferred, FinalCode, Crashed
    <3>3. CASE Crashed(r)
      <4>1. FailedCalls' = FailedCalls \cup {r}
        BY <2>11, <3>3, CodeTypes DEF Deferred, FinalCode
      <4>2. r \notin FailedCalls
        BY <2>11, <3>3, CodeTypes DEF Deferred, Crashed
      <4>. QED BY <2>5, <2>11, <3>1, <3>2, <3>3, <4>1, <4>2 DEF Deferred
    <3>4. CASE ~Crashed(r)
      <4>1. FailedCalls' = FailedCalls
        BY <2>11, <3>4 DEF Deferred, FinalCode
      <4>. QED BY <2>1, <2>11, <3>1, <3>2, <3>4, <4>1 DEF Deferred
    <3>. QED BY <3>3, <3>4
  <2>12. CASE Tick \/ Stop \/ UNCHANGED vars
    BY <2>1, <2>12 DEF Tick, Stop, vars
  <2>13. ASSUME NEW r \in Requests, Answer(r)
         PROVE  CountersExact'
    <3>1. BegunCalls' = BegunCalls
      BY <2>13, CodeTypes DEF Answer
    <3>. QED BY <2>1, <2>13, <3>1 DEF Answer
  <2>. QED
    BY <2>2, <2>3, <2>4, <2>7, <2>8, <2>9, <2>10, <2>11, <2>12, <2>13 DEF Next, Serve
<1>. QED BY <1>1, <1>2

(***************************************************************************)
(* MoaStat's flows are exact in every reachable state, however the calls   *)
(* interleave: recv, proc and error are the numbers of calls begun, of     *)
(* calls whose method returned a result and of calls with a failure code.  *)
(***************************************************************************)
THEOREM CountersCorrect == Spec => []CountersExact
  BY CountersInductive, TypeCorrect, VerdictCorrect, PTL DEF Spec

-----------------------------------------------------------------------------
(***************************************************************************)
(* A step of frame r leaves the other frames as they are.                  *)
(***************************************************************************)
Alone(r) ==
  \A q \in Requests \ {r} : stage'[q] = stage[q] /\ outcome'[q] = outcome[q] /\ wire'[q] = wire[q]

\* Every step but the clock's and the shutdown is a step of one frame alone.
LEMMA StepsAreAlone ==
  ASSUME TypeOK, NEW r \in Requests, Serve(r) \/ \E f \in Frames : Decode(r, f)
  PROVE  Alone(r)
<1>. USE DEF TypeOK, Alone, Goto, Write, replies
<1>1. CASE \E f \in Frames : Decode(r, f)
  BY <1>1 DEF Decode
<1>2. CASE Dis(r)
  BY <1>2 DEF Dis, DisError, DisExpired, DisAdmit, DisQueue, DisPing, DisInfo, DisIgnore
<1>3. CASE PoolDrop(r) \/ Begin(r) \/ Refuse(r) \/ CallMethod(r) \/ Panic(r)
  BY <1>3 DEF PoolDrop, Begin, Refuse, CallMethod, Panic
<1>4. CASE \E o \in Returned : Return(r, o)
  BY <1>4 DEF Return
<1>5. CASE Deferred(r) \/ Answer(r)
  BY <1>5 DEF Deferred, Answer
<1>. QED BY <1>1, <1>2, <1>3, <1>4, <1>5 DEF Serve

-----------------------------------------------------------------------------
(***************************************************************************)
(* Time.  The two clocks started after decoding start after it: a call     *)
(* that they find too old is at least as old as that.                      *)
(***************************************************************************)
TimeInv ==
  \A r \in Requests :
    /\ decodedAt[r] <= clock
    /\ stage[r] = "queued" => decodedAt[r] <= queuedAt[r]
    /\ InPool(r) => decodedAt[r] <= startedAt[r]

LEMMA TimeInductive ==
  /\ Init => TimeInv
  /\ TypeOK /\ TimeInv /\ [Next]_vars => TimeInv'
<1>1. Init => TimeInv
  BY DEF Init, TimeInv, InPool
<1>2. ASSUME TypeOK, TimeInv, [Next]_vars
      PROVE  TimeInv'
  <2>. USE <1>2 DEF TypeOK, TimeInv, InPool, Goto, times
  <2>1. ASSUME NEW r \in Requests, NEW f \in Frames, Decode(r, f)
        PROVE  TimeInv'
    BY <2>1 DEF Decode
  <2>2. ASSUME NEW r \in Requests, DisQueue(r)
        PROVE  TimeInv'
    BY <2>2 DEF DisQueue
  <2>3. ASSUME NEW r \in Requests, Begin(r)
        PROVE  TimeInv'
    BY <2>3 DEF Begin
  <2>4. ASSUME NEW r \in Requests,
               DisError(r) \/ DisExpired(r) \/ DisAdmit(r) \/ DisPing(r) \/ DisInfo(r)
                 \/ DisIgnore(r) \/ PoolDrop(r)
        PROVE  TimeInv'
    BY <2>4 DEF DisError, DisExpired, DisAdmit, DisPing, DisInfo, DisIgnore, PoolDrop
  <2>5. ASSUME NEW r \in Requests,
               Refuse(r) \/ CallMethod(r) \/ (\E o \in Returned : Return(r, o)) \/ Panic(r)
        PROVE  TimeInv'
    BY <2>5 DEF Refuse, CallMethod, Return, Panic
  <2>6. ASSUME NEW r \in Requests, Deferred(r) \/ Answer(r)
        PROVE  TimeInv'
    BY <2>6 DEF Deferred, Answer
  <2>7. CASE Tick
    BY <2>7 DEF Tick
  <2>8. CASE Stop \/ UNCHANGED vars
    BY <2>8 DEF Stop, vars
  <2>. QED
    BY <2>1, <2>2, <2>3, <2>4, <2>5, <2>6, <2>7, <2>8 DEF Next, Serve, Dis
<1>. QED BY <1>1, <1>2

\* A step that writes leaves a packet on the wire or a failure on record.
LEMMA WriteSpeaks ==
  ASSUME TypeOK, NEW r \in Requests, NEW cmd, NEW code, NEW payload,
         Write(r, cmd, code, payload), wire'[r] = <<>>
  PROVE  unsent'[r]
<1>. DEFINE p == MarshalPayload(cmd, code, payload)
<1>1. CASE unsent' = [unsent EXCEPT ![r] = TRUE]
  BY <1>1 DEF TypeOK
<1>2. CASE wire' = [wire EXCEPT ![r] = Append(@, p)]
  <2>1. wire'[r] = Append(wire[r], p) /\ wire[r] \in Seq(Wire)
    BY <1>2 DEF TypeOK
  <2>2. Append(wire[r], p) # <<>>
    BY <2>1
  <2>. QED BY <2>1, <2>2
<1>. QED BY <1>1, <1>2 DEF Write

(***************************************************************************)
(* No call is given up before its time: a frame that dis has a branch for  *)
(* is settled without an answer only if the write failed, the application  *)
(* was being stopped or ProcessTimeout had passed since decoding, for      *)
(* every timeout, however long the goroutines wait between their steps.    *)
(***************************************************************************)
THEOREM SilenceCorrect == Spec => SilenceIsJustified
<1>1. TypeOK /\ QueuedAreCalls /\ TimeInv /\ [Next]_vars =>
        [\A r \in Requests :
           stage[r] # "settled" /\ stage'[r] = "settled" /\ Answerable(r) /\ wire'[r] = <<>> =>
             unsent'[r] \/ (IsCall(r) /\ (stopped \/ clock - decodedAt[r] >= Timeout))]_vars
  <2>. SUFFICES ASSUME TypeOK, QueuedAreCalls, TimeInv, [Next]_vars,
                       NEW r \in Requests, stage[r] # "settled", stage'[r] = "settled",
                       Answerable(r), wire'[r] = <<>>
                PROVE  unsent'[r] \/ (IsCall(r) /\ (stopped \/ clock - decodedAt[r] >= Timeout))
    OBVIOUS
  <2>. DEFINE Goal == unsent'[r] \/ (IsCall(r) /\ (stopped \/ clock - decodedAt[r] >= Timeout))
  <2>1. ASSUME NEW q \in Requests, Serve(q) PROVE q = r
    <3>1. stage'[r] # stage[r]
      OBVIOUS
    <3>2. Alone(q)
      BY <2>1, StepsAreAlone
    <3>. QED BY <3>1, <3>2 DEF Alone
  <2>2. CASE DisError(r) \/ DisPing(r) \/ DisInfo(r) \/ Answer(r)
    BY <2>2, WriteSpeaks DEF DisError, DisPing, DisInfo, Answer
  <2>3. CASE DisExpired(r)
    BY <2>3 DEF DisExpired, Expired
  <2>4. CASE DisIgnore(r)
    BY <2>4 DEF DisIgnore, Answerable
  <2>5. CASE PoolDrop(r)
    <3>1. IsCall(r) /\ decodedAt[r] <= queuedAt[r]
      BY <2>5 DEF PoolDrop, Goto, QueuedAreCalls, TimeInv
    <3>. QED BY <2>5, <3>1, ServerAssumption DEF PoolDrop, CtxDone, TypeOK
  <2>6. CASE Deferred(r)
    <3>1. IsCall(r) /\ decodedAt[r] <= startedAt[r]
      BY <2>6 DEF Deferred, Goto, QueuedAreCalls, TimeInv, InPool
    <3>2. Late(r)
      BY <2>6 DEF Deferred, Goto, TypeOK
    <3>. QED BY <3>1, <3>2, ServerAssumption DEF Late, TypeOK
  <2>7. CASE DisAdmit(r) \/ DisQueue(r) \/ Begin(r) \/ Refuse(r) \/ CallMethod(r) \/ Panic(r)
    BY <2>7 DEF DisAdmit, DisQueue, Begin, Refuse, CallMethod, Panic, Goto, TypeOK
  <2>8. CASE \E o \in Returned : Return(r, o)
    BY <2>8 DEF Return, Goto, TypeOK
  <2>9. CASE \E q \in Requests, f \in Frames : Decode(q, f)
    BY <2>9 DEF Decode, Goto, TypeOK
  <2>10. CASE Tick \/ Stop \/ UNCHANGED vars
    BY <2>10 DEF Tick, Stop, vars
  <2>11. CASE \E q \in Requests : Serve(q)
    BY <2>1, <2>2, <2>3, <2>4, <2>5, <2>6, <2>7, <2>8, <2>11 DEF Serve, Dis
  <2>. QED BY <2>9, <2>10, <2>11 DEF Next
<1>. QED
  BY <1>1, TypeInductive, TimeInductive, PTL DEF Spec, SilenceIsJustified
=============================================================================
