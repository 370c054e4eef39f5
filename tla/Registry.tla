------------------------------ MODULE Registry ------------------------------
(***************************************************************************)
(* The names under which services are published and looked up              *)
(* (registry.go), and FileRegistry (registry_file.go).  A string is the    *)
(* sequence of its parts between '#' signs: "a#b" is <<"a", "b">>, the     *)
(* empty string is <<"">>, and a string without '#' has one part.          *)
(***************************************************************************)
EXTENDS Integers, Sequences

PROTOCOL == "v1"
ALL_GROUP == <<"*">>
Empty == <<"">>

BuildServiceUri(uri, groupId) ==
  IF groupId \notin {Empty, ALL_GROUP} THEN uri \o groupId ELSE uri

\* SplitN(name, "#", 2).
UnwrapServiceUri(name) ==
  IF Len(name) > 1 THEN <<<<Head(name)>>, Tail(name)>> ELSE <<name, ALL_GROUP>>

-----------------------------------------------------------------------------
(***************************************************************************)
(* FileRegistry.  A LocalService has a set of host:port pairs, for nothing *)
(* here depends on their order.                                            *)
(***************************************************************************)
MetaOf(s, hostPort) ==
  [uri |-> s.uri, gid |-> s.gid, hostPort |-> hostPort, isPre |-> s.isPre,
   proto |-> IF s.proto = "" THEN PROTOCOL ELSE s.proto]

Metas(s) == {MetaOf(s, hostPort) : hostPort \in s.hostPorts}

KeyOf(s) == BuildServiceUri(s.uri, s.gid)

\* mutant: a second entry of the same name replaces the first
AddedLastWins(table, s) ==
  [k \in DOMAIN table \cup (IF s.hostPorts = {} THEN {} ELSE {KeyOf(s)}) |->
     IF k = KeyOf(s) /\ s.hostPorts # {} THEN Metas(s) ELSE table[k]]

\* The table after one more entry; one without host:port pairs makes no key.
Added(table, s) ==
  [k \in DOMAIN table \cup (IF s.hostPorts = {} THEN {} ELSE {KeyOf(s)}) |->
     (IF k \in DOMAIN table THEN table[k] ELSE {}) \cup (IF k = KeyOf(s) THEN Metas(s) ELSE {})]

\* The table of a client; a server's FileRegistry stays empty.
NewFileRegistry(locals) ==
  LET table[i \in 0..Len(locals)] ==
        IF i = 0 THEN [k \in {} |-> {}] ELSE Added(table[i - 1], locals[i])
  IN  table[Len(locals)]

\* FileRegistry.GetService; {} is the error "No Hosts!".
GetFileService(table, uri, proto, groupId) ==
  LET key == BuildServiceUri(uri, groupId)
  IN  IF key \in DOMAIN table THEN {h \in table[key] : h.proto = proto} ELSE {}
=============================================================================
