------------------------------ MODULE MCServer ------------------------------
(* Instances of Server for TLC.                                            *)
EXTENDS Server, TLC

CONSTANTS c1, c2, c3, s1, s2, h1, h2, h3

\* One handle for the listening socket; fewer left than clients may connect.
TwoHandles == {h1, h2}
ThreeHandles == {h1, h2, h3}

TwoClients == {c1, c2}
ThreeClients == {c1, c2, c3}
OneSignal == {s1}
TwoSignals == {s1, s2}

Interchangeable ==
  Permutations(Clients) \cup Permutations(Signals) \cup Permutations(Handles)
=============================================================================
