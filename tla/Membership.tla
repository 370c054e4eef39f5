----------------------------- MODULE Membership -----------------------------
(***************************************************************************)
(* What servers promise the clients of one service in ZooKeeper: its node  *)
(* is made once and stays, and below it one address at a time joins or     *)
(* leaves.  ZkClient lets exactly these things happen, and Lifecycle does  *)
(* no others.                                                              *)
(***************************************************************************)
CONSTANT Hosts

VARIABLES
  exists,  \* the service's persistent node is there
  members  \* the addresses whose ephemeral nodes are below it

Init == exists \in BOOLEAN /\ members = {}

Make == ~exists /\ exists' = TRUE /\ UNCHANGED members

Join(h) == exists /\ h \notin members /\ members' = members \cup {h} /\ UNCHANGED exists

Leave(h) == h \in members /\ members' = members \ {h} /\ UNCHANGED exists

Next == Make \/ \E h \in Hosts : Join(h) \/ Leave(h)

Spec == Init /\ [][Next]_<<exists, members>>
=============================================================================
