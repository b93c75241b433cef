------------------------------ MODULE MCSystem ------------------------------
(* Instances of System for TLC.                                            *)
EXTENDS System

CONSTANTS c1, c2, s1, h1, h2, h3, w1, w2

OneSignal == {s1}
TwoClients == {c1, c2}
TwoWorkers == {w1, w2}
ThreeHandles == {h1, h2, h3}
=============================================================================
