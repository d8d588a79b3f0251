------------------------------ MODULE Builds -------------------------------
(***************************************************************************)
(* The builds together: CC_ALG is chosen at the start, as it is when the   *)
(* server is compiled, and the transactions run under it.                  *)
(***************************************************************************)
EXTENDS Execution

CONSTANT g_max_num_waits   \* waiters a row of the TICTOC build takes

SSI       == INSTANCE SSI
TIMESTAMP == INSTANCE RowTs
MVCC      == INSTANCE RowMvcc
OPT       == INSTANCE Optimistic
SILO      == INSTANCE Silo
WSI       == INSTANCE RowWsi
MAAT      == INSTANCE Maat
TICTOC    == INSTANCE Tictoc
WOOKONG   == INSTANCE Wkdb
DLI       == INSTANCE Dli

BuildsInit ==
  \/ SSI!SsiInit
  \/ TIMESTAMP!TsInit
  \/ MVCC!MvccInit
  \/ OPT!OccInit
  \/ OPT!BoccInit
  \/ OPT!FoccInit
  \/ SILO!SiloInit
  \/ WSI!WsiInit
  \/ MAAT!MaatInit
  \/ TICTOC!TictocInit
  \/ WOOKONG!WkdbInit
  \/ DLI!DliInit

BuildsNext ==
  \/ SSI!Next
  \/ TIMESTAMP!Next
  \/ MVCC!Next
  \/ OPT!Next
  \/ SILO!Next
  \/ WSI!Next
  \/ MAAT!Next
  \/ TICTOC!Next
  \/ WOOKONG!Next
  \/ DLI!Next
  \/ AllEnded

Spec == BuildsInit /\ [][BuildsNext]_vars
-----------------------------------------------------------------------------

\* t must come before u in a serial order because u overwrote what t wrote.
Overwrites(t, u) ==
  \E r \in Row : \E v, w \in installed[r] :
    v.txn = t /\ w.txn = u /\ v.ts < w.ts

\* t must come before u: u read or overwrote what t wrote, or overwrote what t
\* read.
Precedes(t, u) ==
  \/ \E x \in reads[u] : x.version.txn = t
  \/ Overwrites(t, u)
  \/ \E x \in reads[t] : \E w \in installed[x.row] :
       w.txn = u /\ x.version.ts < w.ts

Acyclic(S, before(_, _)) ==
  \A C \in SUBSET S : C # {} => \E u \in C : \A t \in C \ {u} : ~ before(t, u)

Done == {t \in Txn : txn[t].state = "done"}

\* The builds that overwrite rows without holding them: OCC, BOCC and FOCC
\* after the critical section, TICTOC with a copy of what it only read.
Unordered == {"OCC", "BOCC", "FOCC", "TICTOC"}

\* Timestamp ordering: the transactions that were answered have a serial
\* order.  In the other builds at least their writes have one, except where
\* rows are overwritten that are not held.
Serializable ==
  /\ CC_ALG \in {"TIMESTAMP", "MVCC"} => Acyclic(Done, Precedes)
  /\ CC_ALG \notin Unordered => Acyclic(Done, Overwrites)

\* The transactions of SSI that were answered have a serial order, as
\* ISOLATION_LEVEL SERIALIZABLE asks.
SsiSerializable == CC_ALG = "SSI" => Acyclic(Done, Precedes)

Writes(t) == {r \in Row : \E i \in 1..Len(prog[t]) :
                            prog[t][i] = [row |-> r, type |-> "WR"]}

\* A transaction that has been answered has written all its rows; one that has
\* not validated, or waits to be repeated, has written none, so that nobody
\* can have read from it.
AllOrNothing ==
  \A t \in Txn :
    LET rows == {r \in Row : \E v \in installed[r] : v.txn = t}
    IN  /\ txn[t].state = "done" => rows = Writes(t)
        /\ txn[t].state \notin {"committing", "done"} => rows = {}

\* A transaction that waits for a row will be woken (debuffer_req and
\* update_buffer of row_ts.cpp, row_mvcc.cpp and row_wkdb.cpp).
NoLostWakeup ==
  TIMESTAMP!NoLostWakeup /\ MVCC!NoLostWakeup /\ WOOKONG!NoLostWakeup

\* Recycling and the order of a row's versions leave every transaction that
\* runs the version it is to read (row_ssi.cpp, row_mvcc.cpp, row_wsi.cpp,
\* row_si.cpp).
SnapshotKept ==
  /\ SSI!SnapshotKept /\ SSI!HistoryOrdered
  /\ MVCC!SnapshotKept /\ WSI!SnapshotKept /\ DLI!VersionsOrdered

\* SSI: what was read had passed validation, and is of the reader's snapshot
\* (Row_ssi::access).
NoDirtyRead == SSI!NoDirtyRead

\* Latches, locks, soft locks, prewrites and entries of the active set belong
\* to transactions that will take them back, and to no others.
Released ==
  /\ SSI!PrewriteOwned /\ SSI!LocksHeld
  /\ SILO!LatchesReleased /\ TICTOC!LocksReleased /\ MAAT!SoftLocksOwned
  /\ WSI!PrewriteOwned /\ OPT!ActiveOwned /\ DLI!WriterKept
  /\ TIMESTAMP!WriteNeverWaits

\* What validation has established holds until it is used: OCC's transactions
\* that wait for finish are apart, and the ranges of MAAT and WOOKONG are not
\* empty.
ValidationHolds ==
  OPT!ValidatedApart /\ MAAT!RangeLeft /\ WOOKONG!RangeKept
=============================================================================
