------------------------------ MODULE MCTwoPL ------------------------------
(***************************************************************************)
(* Small instances of TwoPL.                                               *)
(***************************************************************************)
EXTENDS TwoPL, TLC

CONSTANTS r1, r2

Rows    == {r1, r2}
TwoTxns == 1..2
Txns    == 1..3
Both    == {"NO_WAIT", "WAIT_DIE"}
WaitDie == {"WAIT_DIE"}

\* Every list of one or two requests for distinct rows.
AllPrograms == {<<a>> : a \in Request}
               \cup {p \in Request \X Request : p[1].row # p[2].row}

PairPrograms == {p \in Request \X Request : p[1].row # p[2].row}

WritePrograms == {p \in AllPrograms : \A i \in DOMAIN p : p[i].type = "LOCK_EX"}

RowSymmetry == Permutations(Rows)
=============================================================================
