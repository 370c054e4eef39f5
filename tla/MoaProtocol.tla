---------------------------- MODULE MoaProtocol ----------------------------
(***************************************************************************)
(* The vocabulary of the MOA protocol: the packet commands, the response   *)
(* codes and what BinaryCodec (moa_codec.go) does to a packet in each      *)
(* direction.  Bytes are abstracted to what decoding tells apart; of a     *)
(* request only the way InvocationHandler.Invoke resolves it is kept.      *)
(***************************************************************************)
EXTENDS Naturals

Command == {"REQ", "RESP", "PING", "PONG", "INFO"}

CODE_SERVER_SUCC == 200
CODE_THROWABLE == 300
CODE_SERIALIZATION == 302
CODE_SERVICE_NOT_FOUND == 501
CODE_METHOD_NOT_FOUND == 502
CODE_INVOCATION_TARGET == 503
CODE_SERIALIZATION_SERVER == 3021

\* The codes a response that Invoke produces can carry (0 is the zero value
\* of MoaRespPacket.ErrCode, before Invoke has reached a verdict).
FailureCode == {CODE_SERIALIZATION, CODE_SERVICE_NOT_FOUND, CODE_METHOD_NOT_FOUND,
                CODE_INVOCATION_TARGET, CODE_SERIALIZATION_SERVER}
InvokeCode == {CODE_SERVER_SUCC} \cup FailureCode

(***************************************************************************)
(* What a request's JSON asks for: a service or method nobody published, a *)
(* wrong number of arguments, an argument that does not unmarshal into the *)
(* parameter's type, a method returning (value, error), a method returning *)
(* only an error, and a method returning (value, E) where E is a struct    *)
(* that implements error, which the service table accepts.                 *)
(***************************************************************************)
Callable == {"valueMethod", "errorMethod", "structErrorMethod"}
Call == {"noService", "noMethod", "badArity", "badArgument"} \cup Callable

\* A frame as it arrives: its command and what is in its body.
Frame == [cmd : {"REQ"}, body : Call \cup {"badSnappy", "badJson"}]
         \cup [cmd : Command \ {"REQ"}, body : {"json", "badSnappy", "badJson"}]

(***************************************************************************)
(* UnmarshalPayload fails on a snappy body that does not decompress, and   *)
(* on a REQ or RESP body that is not JSON.  It ignores the JSON error of a *)
(* PING or PONG, and does not look at the body of an INFO.                 *)
(***************************************************************************)
UnmarshalFails(f) ==
  \/ f.body = "badSnappy"
  \/ f.cmd \in {"REQ", "RESP"} /\ f.body = "badJson"

(***************************************************************************)
(* What a method call can come back with.  A (value, error) method may     *)
(* also return a value encoding/json cannot marshal; of an E that is a     *)
(* struct, Invoke cannot ask whether it is nil.                            *)
(***************************************************************************)
Returned == {"value", "valueWithError", "unencodable", "nil", "error", "structError"}
Outcome == Returned \cup {"panic"}

ReturnsOf(call) ==
  CASE call = "valueMethod" -> {"value", "valueWithError", "unencodable"}
    [] call = "errorMethod" -> {"nil", "error"}
    [] call = "structErrorMethod" -> {"structError"}

(***************************************************************************)
(* A packet the server hands to Client.Write, and what is on the wire      *)
(* afterwards: a command, a code (0 when it has none) and a body.          *)
(* MarshalPayload replaces a response it cannot encode by                  *)
(* CODE_SERIALIZATION_SERVER, and has no branch for INFO: whatever its     *)
(* payload, the packet leaves with an empty body.                          *)
(***************************************************************************)
Code == {0, CODE_THROWABLE} \cup InvokeCode

Wire == [cmd : Command, code : Code, body : {"response", "timestamp", "empty", "stat"}]

MarshalPayload(cmd, code, payload) ==
  CASE cmd = "RESP" ->
         [cmd |-> cmd, body |-> "response",
          code |-> IF payload = "unencodable" THEN CODE_SERIALIZATION_SERVER ELSE code]
    [] cmd \in {"PING", "PONG"} -> [cmd |-> cmd, code |-> 0, body |-> payload]
    [] cmd = "INFO" -> [cmd |-> cmd, code |-> 0, body |-> "empty"]
=============================================================================
