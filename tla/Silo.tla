-------------------------------- MODULE Silo -------------------------------
(***************************************************************************)
(* The SILO build: concurrency_control/silo.cpp and row_silo.cpp, with     *)
(* config.h's ATOMIC_WORD false, pre_abort and no-wait validation.         *)
(*                                                                         *)
(* A row has a latch and the tid of its last writer.  Everything takes the *)
(* latch by try_lock, and a transaction that does not get it aborts.  A    *)
(* reader holds it while it copies the row, which is one step here: Busy   *)
(* is when another's step of that kind may be under way.                   *)
(***************************************************************************)
EXTENDS Execution

RowInit == [version |-> Loaded, tid |-> 0, latch |-> NoTxn]

SiloInit == Init("SILO", [cur_tid |-> 0, num_locks |-> 0, checked |-> 0],
                 RowInit, <<>>)

\* write_set in primary key order, and the reads in the order of the accesses.
write_set(t) == SetToSortSeq(wset(t), <)
read_set(t) ==
  SelectSeq(txn[t].accesses, LAMBDA a : a.type = "RD")

\* The tid that t's access to r has seen.
AccessTid(t, r) == (CHOOSE a \in ToSet(txn[t].accesses) : a.row = r).tid

Busy(t, r) ==
  \E u \in Txn \ {t} :
    \/ txn[u].state = "running" /\ ~ is_done(u) /\ Req(u).row = r
    \/ txn[u].state = "validating" /\ r \in rset(u)

try_lock_fails(t, r) == manager[r].latch # NoTxn \/ Busy(t, r)
try_lock_works(t, r) == manager[r].latch = NoTxn

-----------------------------------------------------------------------------
Start(t) ==
  /\ txn[t].state = "queued"
  /\ txn' = [txn EXCEPT ![t].state = "running"]
  /\ UNCHANGED <<clock, manager, cc, hist>>

\* Row_silo::access: a copy of the row and its tid.
AccessRow(t, r) ==
  \/ /\ try_lock_works(t, r)
     /\ txn' = [txn EXCEPT ![t] = GotRow(@, t, [tid |-> manager[r].tid])]
     /\ reads' = [reads EXCEPT ![t] = ReadsOf(t, r, manager[r].version)]
  \/ /\ try_lock_fails(t, r)
     /\ txn' = [txn EXCEPT ![t].state = "aborting"]
     /\ UNCHANGED reads

\* row_t::get_row.
ReadRow(t) ==
  /\ txn[t].state = "running" /\ ~ is_done(t)
  /\ AccessRow(t, Req(t).row)
  /\ UNCHANGED <<clock, manager, cc, installed>>

\* validate_silo up to its locks: pre_abort when a tid has changed.
Validate(t) ==
  LET same == \A a \in ToSet(txn[t].accesses) : manager[a.row].tid = a.tid
  IN
  /\ txn[t].state = "running" /\ is_done(t)
  /\ txn' = [txn EXCEPT ![t].state = IF same THEN "validating" ELSE "aborting",
                        ![t].num_locks = 0, ![t].checked = 0]
  /\ UNCHANGED <<clock, manager, cc, hist>>

\* The next lock of the write set.  A lock that finds another tid is counted
\* before the abort, for finish to release it.
LockWriteSet(t) ==
  LET n == txn[t].num_locks + 1
      r == write_set(t)[n]
  IN
  /\ txn[t].state = "validating" /\ n <= Len(write_set(t))
  /\ \/ /\ try_lock_works(t, r)
        /\ manager' = [manager EXCEPT ![r].latch = t]
        /\ txn' = [txn EXCEPT ![t].num_locks = n,
                     ![t].state = IF manager[r].tid = AccessTid(t, r) THEN @
                                  ELSE "aborting"]
     \/ /\ try_lock_fails(t, r)
        /\ txn' = [txn EXCEPT ![t].state = "aborting"]
        /\ UNCHANGED manager
  /\ UNCHANGED <<clock, cc, hist>>

AllLocked(t) ==
  txn[t].state = "validating" /\ txn[t].num_locks = Len(write_set(t))

\* Row_silo::validate of the next row of the read set.
ValidateRead(t) ==
  LET n == txn[t].checked + 1
      a == read_set(t)[n]
  IN
  /\ AllLocked(t) /\ n <= Len(read_set(t))
  /\ \/ /\ try_lock_works(t, a.row) /\ manager[a.row].tid = a.tid
        /\ txn' = [txn EXCEPT ![t].checked = n]
     \/ /\ try_lock_fails(t, a.row) \/ manager[a.row].tid # a.tid
        /\ txn' = [txn EXCEPT ![t].state = "aborting"]
  /\ UNCHANGED <<clock, manager, cc, hist>>

\* The rows of the write set, which are locked, are as they were; the commit
\* timestamp is one more than cur_tid, which init has set to 0.
Validated(t) ==
  LET tid == txn[t].cur_tid + 1
  IN
  /\ AllLocked(t) /\ txn[t].checked = Len(read_set(t))
  /\ txn' = [txn EXCEPT ![t].state = "committing", ![t].cur_tid = tid,
                        ![t].commit_timestamp = tid, ![t].checked = 0]
  /\ UNCHANGED <<clock, manager, cc, hist>>

-----------------------------------------------------------------------------
\* TxnManager::finish of a commit, row by row.
FinishWrite(t) ==
  LET n == txn[t].checked + 1
      r == write_set(t)[n]
      v == NewVersion(r, t)
  IN
  /\ txn[t].state = "committing" /\ n <= Len(write_set(t))
  /\ manager' = [manager EXCEPT ![r] =
       [version |-> v, tid |-> txn[t].commit_timestamp, latch |-> NoTxn]]
  /\ Install(r, v)
  /\ txn' = [txn EXCEPT ![t].checked = n, ![t].num_locks = 0]
  /\ UNCHANGED <<clock, cc, reads>>

\* Mutant of FinishAbort: one lock too few is released.
FinishAbortFewer(t) ==
  LET held == {write_set(t)[i] : i \in 1..(txn[t].num_locks - 1)}
  IN
  /\ txn[t].state = "aborting" /\ txn[t].num_locks > 0
  /\ manager' = [r \in Row |-> IF r \in held
                               THEN [manager[r] EXCEPT !.latch = NoTxn]
                               ELSE manager[r]]
  /\ txn' = [txn EXCEPT ![t].num_locks = 0]
  /\ UNCHANGED <<clock, cc, hist>>

\* TxnManager::finish of an abort: the num_locks first rows are released.
FinishAbort(t) ==
  LET held == {write_set(t)[i] : i \in 1..txn[t].num_locks}
  IN
  /\ txn[t].state = "aborting" /\ txn[t].num_locks > 0
  /\ manager' = [r \in Row |-> IF r \in held
                               THEN [manager[r] EXCEPT !.latch = NoTxn]
                               ELSE manager[r]]
  /\ txn' = [txn EXCEPT ![t].num_locks = 0]
  /\ UNCHANGED <<clock, cc, hist>>

\* The accesses go when finish is done (return_row does nothing).
Cleanup(t) ==
  /\ txn[t].accesses # <<>>
  /\ \/ txn[t].state = "committing" /\ txn[t].checked = Len(write_set(t))
     \/ txn[t].state = "aborting" /\ txn[t].num_locks = 0
  /\ txn' = [txn EXCEPT ![t].accesses = <<>>]
  /\ UNCHANGED <<clock, manager, cc, hist>>

Step(t) ==
  \/ Start(t)
  \/ ReadRow(t)
  \/ Validate(t)
  \/ LockWriteSet(t)
  \/ ValidateRead(t)
  \/ Validated(t)
  \/ FinishWrite(t)
  \/ FinishAbort(t)
  \/ Cleanup(t)
  \/ EndAttempt(t, <<>>) /\ UNCHANGED cc

Next == \E t \in Txn : CC_ALG = "SILO" /\ Step(t) /\ UNCHANGED build
-----------------------------------------------------------------------------

\* The rows whose latch t is to release.
Held(t) ==
  IF txn[t].state = "committing"
  THEN {write_set(t)[i] : i \in (txn[t].checked + 1)..Len(write_set(t))}
  ELSE {write_set(t)[i] : i \in 1..txn[t].num_locks}

\* The latches that are held are the ones that finish will release, whichever
\* way validate_silo was left: none stays locked for good, and none is
\* released that another holds.
LatchesReleased ==
  CC_ALG = "SILO" =>
    \A r \in Row : \A t \in Txn : manager[r].latch = t <=> r \in Held(t)
=============================================================================
