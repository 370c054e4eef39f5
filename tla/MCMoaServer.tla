---------------------------- MODULE MCMoaServer ----------------------------
EXTENDS MoaServer

\* One frame of every kind dis and Invoke tell apart.  Of the four calls that are
\* refused before the method runs, which differ in their code, two are enough.
SomeFrames ==
  [cmd : {"REQ"}, body : Callable \cup {"noService", "badArgument", "badJson"}]
    \cup {[cmd |-> c, body |-> "json"] : c \in {"PING", "PONG", "INFO"}}

\* Calls that reach a method, which may return, fail or panic.
ErrorFrames == [cmd : {"REQ"}, body : {"errorMethod"}]
=============================================================================
