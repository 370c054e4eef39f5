----------------------------- MODULE MCLifecycle -----------------------------
EXTENDS Lifecycle

OneApp == 1..1
TwoApps == 1..2
OneService == 1..1
TwoServices == 1..2
TwoAddresses == 1..2

\* Addresses are interchangeable: the first process is on the first.
FirstAddress == Init /\ address[1] = 1

\* Bound of the run: clients connect to one server, not to both.  Processes are
\* interchangeable: it is the first.
ClientsOfFirst == \A a \in Apps \ {1} : conns[a] = 0

FirstAddressSpec == FirstAddress /\ [][Next /\ ClientsOfFirst']_vars /\ Fairness
=============================================================================
