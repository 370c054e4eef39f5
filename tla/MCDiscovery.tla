----------------------------- MODULE MCDiscovery -----------------------------
EXTENDS Discovery

OneService == 1..1
TwoAddresses == 1..2
TwoApps == 1..2

\* Addresses are interchangeable until the client reads them.
FirstAddress == Init /\ address[1] = 1 /\ ClientInit

\* Bound of the run: one of the two servers crashes or stops, the other stays.
Leaving(a) == pc[a] \in {"dead", "unregister", "close", "drain", "stop", "shutdown", "done"}
OneStays == Cardinality({a \in Apps : Leaving(a)}) <= 1

OneStaysSpec == FirstAddress /\ [][DiscoveryNext /\ OneStays']_<<vars, client>>
=============================================================================
