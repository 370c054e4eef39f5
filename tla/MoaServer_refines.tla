-------------------------- MODULE MoaServer_refines --------------------------
(***************************************************************************)
(* The safety half of the refinement: every behaviour of the server, seen  *)
(* through PhaseOf and AnswerOf, is a behaviour of MoaRpc.                 *)
(***************************************************************************)
EXTENDS MoaServer_proofs

RpcPhase == [r \in Requests |-> PhaseOf(r)]
RpcAnswer == [r \in Requests |-> AnswerOf(r)]

\* So a step of frame r is judged by the phase and the answer of r alone.
LEMMA AloneAbstract ==
  ASSUME NEW r \in Requests, Alone(r)
  PROVE  /\ RpcPhase' = [RpcPhase EXCEPT ![r] = PhaseOf(r)']
         /\ RpcAnswer' = [RpcAnswer EXCEPT ![r] = AnswerOf(r)']
<1>1. ASSUME NEW q \in Requests \ {r}
      PROVE  PhaseOf(q)' = PhaseOf(q) /\ AnswerOf(q)' = AnswerOf(q)
  BY DEF Alone, PhaseOf, AnswerOf
<1>. QED BY <1>1 DEF RpcPhase, RpcAnswer

LEMMA AloneStutters ==
  ASSUME NEW r \in Requests, Alone(r), PhaseOf(r)' = PhaseOf(r), AnswerOf(r)' = AnswerOf(r)
  PROVE  RpcPhase' = RpcPhase /\ RpcAnswer' = RpcAnswer
<1>1. ASSUME NEW q \in Requests
      PROVE  PhaseOf(q)' = PhaseOf(q) /\ AnswerOf(q)' = AnswerOf(q)
  BY DEF Alone, PhaseOf, AnswerOf
<1>. QED BY <1>1 DEF RpcPhase, RpcAnswer

-----------------------------------------------------------------------------
LEMMA InitRefines == Init => Rpc!Init
<1>. SUFFICES ASSUME Init PROVE Rpc!Init
  OBVIOUS
<1>1. ASSUME NEW r \in Requests PROVE PhaseOf(r) = "idle" /\ AnswerOf(r) = "none"
  BY DEF Init, PhaseOf, AnswerOf
<1>. QED BY <1>1 DEF Rpc!Init

\* A frame that is settled without reaching a method gets no "success".
LEMMA SettlesPending ==
  ASSUME NEW r \in Requests, Alone(r), PhaseOf(r) = "pending", PhaseOf(r)' = "settled",
         AnswerOf(r)' # "success"
  PROVE  Rpc!Settle(r)
<1>1. AnswerOf(r)' \in Rpc!Answer \ {"success"}
  BY DEF AnswerOf, Rpc!Answer
<1>. QED BY <1>1, AloneAbstract DEF Rpc!Settle, RpcPhase, RpcAnswer

LEMMA SettlesExecuting ==
  ASSUME NEW r \in Requests, Alone(r), PhaseOf(r) = "executing", PhaseOf(r)' = "settled",
         AnswerOf(r)' # "notice"
  PROVE  Rpc!Settle(r)
<1>1. AnswerOf(r)' \in Rpc!Answer \ {"notice"}
  BY DEF AnswerOf, Rpc!Answer
<1>. QED BY <1>1, AloneAbstract DEF Rpc!Settle, RpcPhase, RpcAnswer

LEMMA StepRefines ==
  /\ TypeOK /\ VerdictInv /\ AtMostOneReply /\ SuccessIsGenuine'
  /\ [Next]_vars
  => [Rpc!Next]_(Rpc!vars)
<1>. SUFFICES ASSUME TypeOK, VerdictInv, AtMostOneReply, SuccessIsGenuine', [Next]_vars
              PROVE  Rpc!Next \/ (RpcPhase' = RpcPhase /\ RpcAnswer' = RpcAnswer)
  BY DEF Rpc!vars, RpcPhase, RpcAnswer
<1>. USE DEF TypeOK, Stage, Goto
<1>1. ASSUME NEW r \in Requests, NEW f \in Frames, Decode(r, f)
      PROVE  Rpc!Next
  <2>1. Alone(r) /\ PhaseOf(r) = "idle" /\ PhaseOf(r)' = "pending" /\ AnswerOf(r)' = AnswerOf(r)
    BY <1>1, StepsAreAlone DEF Decode, replies, PhaseOf, AnswerOf
  <2>. QED BY <2>1, AloneAbstract DEF Rpc!Next, Rpc!Receive, RpcPhase, RpcAnswer
<1>2. ASSUME NEW r \in Requests, CallMethod(r)
      PROVE  Rpc!Next
  <2>1. Alone(r)
    BY <1>2, StepsAreAlone DEF Serve
  <2>2. PhaseOf(r) = "pending" /\ PhaseOf(r)' = "executing" /\ AnswerOf(r)' = AnswerOf(r)
    BY <1>2 DEF CallMethod, replies, PhaseOf, AnswerOf
  <2>. QED BY <2>1, <2>2, AloneAbstract DEF Rpc!Next, Rpc!Execute, RpcPhase, RpcAnswer
<1>3. ASSUME NEW r \in Requests,
             DisError(r) \/ DisExpired(r) \/ DisPing(r) \/ DisInfo(r) \/ DisIgnore(r) \/ PoolDrop(r)
      PROVE  Rpc!Next
  <2>1. Alone(r)
    BY <1>3, StepsAreAlone DEF Serve, Dis
  <2>2. PhaseOf(r) = "pending" /\ PhaseOf(r)' = "settled" /\ outcome'[r] = "none"
    BY <1>3 DEF DisError, DisExpired, DisPing, DisInfo, DisIgnore, PoolDrop, PhaseOf, VerdictInv
  <2>3. AnswerOf(r)' # "success"
    BY <2>2 DEF SuccessIsGenuine, AnswerOf
  <2>. QED BY <2>1, <2>2, <2>3, SettlesPending DEF Rpc!Next
<1>4. ASSUME NEW r \in Requests, DisAdmit(r) \/ DisQueue(r) \/ Begin(r) \/ Refuse(r)
      PROVE  RpcPhase' = RpcPhase /\ RpcAnswer' = RpcAnswer
  <2>1. Alone(r)
    BY <1>4, StepsAreAlone DEF Serve, Dis
  <2>2. PhaseOf(r)' = PhaseOf(r) /\ AnswerOf(r)' = AnswerOf(r)
    BY <1>4 DEF DisAdmit, DisQueue, Begin, Refuse, replies, PhaseOf, AnswerOf, VerdictInv
  <2>. QED BY <2>1, <2>2, AloneStutters
<1>5. ASSUME NEW r \in Requests, (\E o \in Returned : Return(r, o)) \/ Panic(r)
      PROVE  RpcPhase' = RpcPhase /\ RpcAnswer' = RpcAnswer
  <2>1. Alone(r)
    BY <1>5, StepsAreAlone DEF Serve
  <2>2. PhaseOf(r)' = PhaseOf(r) /\ AnswerOf(r)' = AnswerOf(r)
    BY <1>5 DEF Return, Returned, Panic, replies, PhaseOf, AnswerOf
  <2>. QED BY <2>1, <2>2, AloneStutters
<1>6. ASSUME NEW r \in Requests, Deferred(r)
      PROVE  Rpc!Next \/ (RpcPhase' = RpcPhase /\ RpcAnswer' = RpcAnswer)
  <2>1. Alone(r) /\ outcome'[r] = outcome[r] /\ wire'[r] = wire[r] /\ wire[r] = <<>>
    BY <1>6, StepsAreAlone DEF Serve, Deferred, replies, AtMostOneReply
  <2>2. AnswerOf(r)' = AnswerOf(r) /\ AnswerOf(r)' = "none"
    BY <2>1 DEF AnswerOf
  <2>3. CASE stage'[r] = "answering"
    <3>1. PhaseOf(r)' = PhaseOf(r)
      BY <1>6, <2>1, <2>3 DEF Deferred, PhaseOf
    <3>. QED BY <2>1, <2>2, <3>1, AloneStutters
  <2>4. CASE stage'[r] = "settled"
    <3>1. PhaseOf(r)' = "settled"
      BY <2>4 DEF PhaseOf
    <3>2. PhaseOf(r) \in {"pending", "executing"}
      BY <1>6 DEF Deferred, PhaseOf
    <3>. QED BY <2>1, <2>2, <3>1, <3>2, SettlesPending, SettlesExecuting DEF Rpc!Next
  <2>. QED BY <1>6, <2>3, <2>4 DEF Deferred
<1>7. CASE Tick \/ Stop \/ UNCHANGED vars
  BY <1>7 DEF Tick, Stop, vars, replies, RpcPhase, RpcAnswer, PhaseOf, AnswerOf
<1>8. ASSUME NEW r \in Requests, Answer(r)
      PROVE  Rpc!Next
  <2>1. Alone(r) /\ PhaseOf(r)' = "settled"
    BY <1>8, StepsAreAlone DEF Serve, Answer, PhaseOf
  <2>2. CASE outcome[r] = "none"
    <3>1. PhaseOf(r) = "pending"
      BY <1>8, <2>2 DEF Answer, PhaseOf
    <3>2. AnswerOf(r)' # "success"
      BY <1>8, <2>2 DEF Answer, SuccessIsGenuine, AnswerOf
    <3>. QED BY <2>1, <3>1, <3>2, SettlesPending DEF Rpc!Next
  <2>3. CASE outcome[r] # "none"
    <3>1. PhaseOf(r) = "executing"
      BY <1>8, <2>3 DEF Answer, PhaseOf
    <3>2. wire'[r] # <<>> => wire'[r][1].cmd = "RESP"
      <4>1. wire[r] = <<>>
        BY <1>8 DEF Answer, AtMostOneReply
      <4>2. resp[r] \in Code
        BY CodeTypes DEF Code
      <4>3. wire'[r] = <<>> \/ wire'[r] = <<MarshalPayload("RESP", resp[r], outcome[r])>>
        BY <1>8, <4>1, WriteOnce DEF Answer
      <4>. QED BY <4>2, <4>3, ResponseType
    <3>3. AnswerOf(r)' # "notice"
      BY <3>2 DEF AnswerOf
    <3>. QED BY <2>1, <3>1, <3>3, SettlesExecuting DEF Rpc!Next
  <2>. QED BY <2>2, <2>3
<1>. QED
  BY <1>1, <1>2, <1>3, <1>4, <1>5, <1>6, <1>7, <1>8 DEF Next, Serve, Dis

(***************************************************************************)
(* The server keeps MoaRpc's promise, liveness aside: a frame is received  *)
(* once, executed at most once, settled at most once, and "success" is     *)
(* answered only after an execution.                                       *)
(***************************************************************************)
THEOREM ServerImplementsRpc == Spec => Rpc!Spec
  BY InitRefines, StepRefines, TypeCorrect, VerdictCorrect, RepliesCorrect, PTL
  DEF Spec, Rpc!Spec
=============================================================================
