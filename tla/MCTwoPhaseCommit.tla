-------------------------- MODULE MCTwoPhaseCommit --------------------------
(***************************************************************************)
(* Small instances of TwoPhaseCommit.                                      *)
(***************************************************************************)
EXTENDS TwoPhaseCommit, TLC

CONSTANTS n1, n2, n3, t1

Nodes == {n1, n2, n3}
Txns  == {t1}
Home  == [t \in Txns |-> n1]

\* Queries of up to three groups of requests, over every set of nodes.
Queries == UNION {[1..k -> Nodes] : k \in 1..3}

LockBuild    == {"NO_WAIT"}
TictocBuild  == {"TICTOC"}
=============================================================================
