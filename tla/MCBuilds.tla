------------------------------ MODULE MCBuilds -----------------------------
(***************************************************************************)
(* Instances of Builds: three transactions on two rows.  A build gets the  *)
(* queries that reach all its steps; those that validate in many steps get *)
(* the shorter ones.                                                       *)
(***************************************************************************)
EXTENDS Builds

R(r) == [row |-> r, type |-> "RD"]
W(r) == [row |-> r, type |-> "WR"]

WriteBoth == << <<W(1), W(2)>>, <<R(1), W(2)>>, <<R(2)>> >>
Skew      == << <<R(1), W(2)>>, <<R(2), W(1)>>, <<W(1)>> >>
Crossed   == << <<W(1), W(2)>>, <<W(2), W(1)>>, <<R(1)>> >>
Chain     == << <<R(1), W(2)>>, <<W(1)>>, <<R(2)>> >>
Writers   == << <<R(1), W(2)>>, <<W(1)>>, <<W(2)>> >>
LastOne   == << <<W(2), W(1)>>, <<W(1)>>, <<W(1)>> >>
Exchange  == << <<R(1), W(2)>>, <<R(2), W(1)>> >>

Queries ==
  [alg \in {"SSI"} |-> {Chain, LastOne}] @@
  [alg \in {"TIMESTAMP", "MVCC"} |-> {Skew, Crossed}] @@
  [alg \in {"SILO"} |-> {WriteBoth, Crossed}] @@
  [alg \in {"WSI"} |-> {Crossed}] @@
  [alg \in {"WOOKONG", "MAAT", "OCC"} |-> {Writers}] @@
  [alg \in {"BOCC", "FOCC", "TICTOC", "DLI_MVCC", "DLI_MVCC_OCC",
            "DLI_DTA", "DLI_DTA2", "DLI_DTA3"} |-> {Chain}]

SkewQueries == [alg \in {"SSI"} |-> {Exchange}]
=============================================================================
