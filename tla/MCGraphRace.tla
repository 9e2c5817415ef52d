----------------------------- MODULE MCGraphRace -----------------------------
\* A small instance of GraphRace for TLC.
EXTENDS GraphRace, TLC

Alike == Permutations(Insts)

\* The app or the user is updated, once.
UpdatedOnce == \E k \in Kinds : version'[k] = 1
OneUpdateSpec == Init /\ [][Next /\ UpdatedOnce]_vars
=============================================================================
