------------------------------- MODULE MoaRpc -------------------------------
(***************************************************************************)
(* What the MOA server promises its clients, one frame at a time: a frame  *)
(* is received once, the method it asks for runs at most once, and the     *)
(* frame is then settled for good, with at most one answer.  An answer     *)
(* that says "success" follows an execution of the method; settling        *)
(* without an answer is how a timeout or a dead connection shows.          *)
(***************************************************************************)
CONSTANT Requests  \* the frames clients send, each with an opaque of its own

VARIABLES phase,   \* phase[r]: how far the server is with frame r
          answer   \* answer[r]: what the client of r has been told

vars == <<phase, answer>>

Phase == {"idle", "pending", "executing", "settled"}
Answer == {"none", "success", "failure", "notice"}

TypeOK ==
  /\ phase \in [Requests -> Phase]
  /\ answer \in [Requests -> Answer]

Init ==
  /\ phase = [r \in Requests |-> "idle"]
  /\ answer = [r \in Requests |-> "none"]

Receive(r) ==
  /\ phase[r] = "idle"
  /\ phase' = [phase EXCEPT ![r] = "pending"]
  /\ UNCHANGED answer

Execute(r) ==
  /\ phase[r] = "pending"
  /\ phase' = [phase EXCEPT ![r] = "executing"]
  /\ UNCHANGED answer

\* A "notice" answers a frame that is not a call (PONG, INFO).
Settle(r) ==
  /\ \/ /\ phase[r] = "pending"
        /\ \E a \in Answer \ {"success"} : answer' = [answer EXCEPT ![r] = a]
     \/ /\ phase[r] = "executing"
        /\ \E a \in Answer \ {"notice"} : answer' = [answer EXCEPT ![r] = a]
  /\ phase' = [phase EXCEPT ![r] = "settled"]

Next == \E r \in Requests : Receive(r) \/ Execute(r) \/ Settle(r)

Spec == Init /\ [][Next]_vars

FairSpec == Spec /\ \A r \in Requests : WF_vars(Settle(r))
=============================================================================
