-------------------------- MODULE MCInvokeCounters --------------------------
EXTENDS InvokeCounters

Two == 1..2
Three == 1..3

\* Who calls what, up to a renaming of the clients, the methods and the calls.
UpToRenaming ==
  /\ Init
  /\ \/ source = <<1, 1, 1>> /\ method \in {<<1, 1, 1>>, <<1, 1, 2>>}
     \/ source = <<1, 1, 2>> /\ method \in {<<1, 1, 1>>, <<1, 1, 2>>, <<1, 2, 1>>}

UpToRenamingSpec == UpToRenaming /\ [][Next]_vars /\ Fairness
=============================================================================
