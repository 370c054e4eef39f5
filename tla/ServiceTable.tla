---------------------------- MODULE ServiceTable ----------------------------
(***************************************************************************)
(* NewInvocationHandler (proxy.go): the table of services and methods that *)
(* Invoke looks calls up in.  A method's name is its letters and their     *)
(* case, [word |-> "get", case |-> "Get"], and strings.ToLower keeps the   *)
(* word; its type is the sequence of what it returns.                      *)
(***************************************************************************)
EXTENDS Sequences, SequencesExt

\* One or two results, the last an error.
Returns(outs) == Len(outs) \in {1, 2} /\ Last(outs) = "error"

NewInvocationHandlerPanics(services) ==
  \E i \in DOMAIN services :
    \/ ~services[i].implements
    \/ \E j \in DOMAIN services[i].methods : ~Returns(services[i].methods[j].outs)

\* Go's map after the loop: the last entry of a key stays.
LastWith(seq, Key(_), k) == seq[CHOOSE i \in DOMAIN seq :
  Key(seq[i]) = k /\ \A j \in DOMAIN seq : Key(seq[j]) = k => j <= i]

Keys(seq, Key(_)) == {Key(seq[i]) : i \in DOMAIN seq}

\* mutant: only names that are all lower case are entered
MethodTableAsWritten(methods) ==
  LET word(m) == m.name.word
      lower == SelectSeq(methods, LAMBDA m : m.name.case = "lower")
  IN  [w \in Keys(lower, word) |-> LastWith(lower, word, w)]

\* s.methods, by the name in lower case.
MethodTable(methods) ==
  LET word(m) == m.name.word
  IN  [w \in Keys(methods, word) |-> LastWith(methods, word, w)]

\* mutant: the map of the clients is made after the service was copied
InstancesCopiedEarly(services) ==
  LET uri(s) == s.uri
  IN  [u \in Keys(services, uri) |->
         LET s == LastWith(services, uri, u)
         IN  [gid |-> s.gid, methods |-> MethodTable(s.methods), invokesPerClient |-> FALSE]]

\* instances, by ServiceUri alone; InvokesPerClient is made per method.
Instances(services) ==
  LET uri(s) == s.uri
  IN  [u \in Keys(services, uri) |->
         LET s == LastWith(services, uri, u)
         IN  [gid |-> s.gid, methods |-> MethodTable(s.methods),
              invokesPerClient |-> s.methods # <<>>]]
=============================================================================
