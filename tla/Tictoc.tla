------------------------------- MODULE Tictoc ------------------------------
(***************************************************************************)
(* The TICTOC build: concurrency_control/tictoc.cpp and row_tictoc.cpp,    *)
(* with config.h's OCC_WAW_LOCK true and OCC_LOCK_TYPE WAIT_DIE.           *)
(*                                                                         *)
(* A row has the interval of timestamps wts..rts of its version and the    *)
(* lock of a writer with a set of waiters.  Row_tictoc::access does not    *)
(* return what write has returned, so that a writer goes on whether it got *)
(* the lock, waits for it or was refused it.                               *)
(***************************************************************************)
EXTENDS Execution

CONSTANT g_max_num_waits

RowInit == [version |-> Loaded, wts |-> 0, rts |-> 0, lock_owner |-> NoTxn,
            waiting_set |-> {}]

\* locked: the rows whose access is marked locked.  cc: the values that
\* max_cts has had in some thread.
TictocInit == Init("TICTOC",
                   [priority |-> 0, min_commit_ts |-> 0, locked |-> {},
                    orig_wts |-> 0, orig_rts |-> 0, checked |-> 0],
                   RowInit, {1})

\* process_rtxn; TxnManager::init, before the first attempt, gives the
\* priority and the least commit timestamp, which later attempts keep.
Start(t) ==
  /\ txn[t].state = "queued"
  /\ \/ /\ txn[t].priority = 0
        /\ \E n \in cc :
             txn' = [txn EXCEPT ![t].state = "running", ![t].priority = clock,
                                ![t].min_commit_ts = n]
        /\ get_next_ts
     \/ /\ txn[t].priority # 0
        /\ txn' = [txn EXCEPT ![t].state = "running"]
        /\ UNCHANGED clock
  /\ UNCHANGED <<manager, cc, hist>>

\* Row_tictoc::read.
Read(t) ==
  LET m == manager[Req(t).row]
  IN
  /\ AtRequest(t, "RD")
  /\ txn' = [txn EXCEPT ![t] =
       [@ EXCEPT !.state = "storing", !.orig_wts = m.wts, !.orig_rts = m.rts,
                 !.min_commit_ts = Max({@, m.wts})]]
  /\ UNCHANGED <<clock, manager, cc, hist>>

\* Row_tictoc::write.  Without the lock, orig_rts is what the Access of the
\* pool was left with.
Write(t) ==
  LET r == Req(t).row
      m == manager[r]
      waits == /\ Cardinality(m.waiting_set) < g_max_num_waits
               /\ txn[t].priority < txn[m.lock_owner].priority
      Got(n) == [txn EXCEPT ![t] =
        [@ EXCEPT !.state = "storing", !.locked = @ \cup {r},
                  !.orig_wts = m.wts, !.orig_rts = n,
                  !.min_commit_ts = Max({@, n + 1})]]
  IN
  /\ AtRequest(t, "WR")
  /\ \/ /\ m.lock_owner = NoTxn
        /\ manager' = [manager EXCEPT ![r].lock_owner = t]
        /\ txn' = Got(m.rts)
     \/ /\ m.lock_owner # NoTxn
        /\ manager' = IF waits
                      THEN [manager EXCEPT ![r].waiting_set = @ \cup {t}]
                      ELSE manager
        /\ \E n \in {0} \cup {manager[x].rts : x \in Row} : txn' = Got(n)
  /\ UNCHANGED <<clock, cc, hist>>

\* The rest of row_t::get_row: the row is copied without the latch.
CopyRow(t) ==
  LET r == Req(t).row
      v == manager[r].version
  IN
  /\ txn[t].state = "storing"
  /\ txn' = [txn EXCEPT ![t] =
       GotRow(@, t, [data |-> v, orig_wts |-> @.orig_wts,
                     orig_rts |-> @.orig_rts])]
  /\ reads' = [reads EXCEPT ![t] = ReadsOf(t, r, v)]
  /\ UNCHANGED <<clock, manager, cc, installed>>

-----------------------------------------------------------------------------
read_set(t) == SelectSeq(txn[t].accesses, LAMBDA a : a.type = "RD")

\* try_renew, m being the manager of the row that access a has read: it fails
\* if the row has been written or is locked, and extends the interval of its
\* version to the commit timestamp n.
try_renew(m, a)  == m.wts = a.orig_wts /\ m.lock_owner = NoTxn
Renewed(m, n)    == [m EXCEPT !.rts = Max({@, n})]

\* validate_part: the next row of the read set.
ValidateRead(t) ==
  LET n == txn[t].checked + 1
      a == read_set(t)[n]
      m == manager[a.row]
      commit_ts == txn[t].min_commit_ts
  IN
  /\ txn[t].state = "running" /\ is_done(t) /\ n <= Len(read_set(t))
  /\ \/ /\ a.orig_rts >= commit_ts
        /\ txn' = [txn EXCEPT ![t].checked = n]
        /\ UNCHANGED manager
     \/ /\ a.orig_rts < commit_ts /\ try_renew(m, a)
        /\ txn' = [txn EXCEPT ![t].checked = n]
        /\ manager' = [manager EXCEPT ![a.row] = Renewed(@, commit_ts)]
     \/ /\ a.orig_rts < commit_ts /\ ~ try_renew(m, a)
        /\ txn' = [txn EXCEPT ![t].state = "withdrawn", ![t].checked = 0]
        /\ UNCHANGED manager
  /\ UNCHANGED <<clock, cc, hist>>

Validated(t) ==
  /\ txn[t].state = "running" /\ is_done(t)
  /\ txn[t].checked = Len(read_set(t))
  /\ txn' = [txn EXCEPT ![t].state = "committing", ![t].checked = 0,
                        ![t].commit_timestamp = txn[t].min_commit_ts]
  /\ UNCHANGED <<clock, manager, cc, hist>>

\* Row_tictoc::release: the waiter of the lowest priority is the new owner.
Released(t, m) ==
  IF m.lock_owner # t THEN [m EXCEPT !.waiting_set = @ \ {t}]
  ELSE IF m.waiting_set = {} THEN [m EXCEPT !.lock_owner = NoTxn]
  ELSE LET next == CHOOSE u \in m.waiting_set :
                     \A x \in m.waiting_set : txn[x].priority <= txn[u].priority
       IN  [m EXCEPT !.lock_owner = next, !.waiting_set = @ \ {next}]

\* unlock_write_set: before the rows are returned when validation has failed,
\* after that in a commit.
Unlock(t) ==
  LET i == CHOOSE j \in 1..Len(prog[t]) :
             /\ prog[t][j].row \in txn[t].locked
             /\ \A k \in 1..(j - 1) : prog[t][k].row \notin txn[t].locked
      r == prog[t][i].row
  IN
  /\ txn[t].locked # {}
  /\ \/ txn[t].state = "withdrawn"
     \/ txn[t].state = "committing" /\ txn[t].accesses = <<>>
  /\ manager' = [manager EXCEPT ![r] = Released(t, @)]
  /\ txn' = [txn EXCEPT ![t].locked = @ \ {r}]
  /\ UNCHANGED <<clock, cc, hist>>

Withdrawn(t) ==
  /\ txn[t].state = "withdrawn" /\ txn[t].locked = {}
  /\ txn' = [txn EXCEPT ![t].state = "aborting"]
  /\ UNCHANGED <<clock, manager, cc, hist>>

\* Row_tictoc::commit does not look at the type: a row that was read is
\* overwritten with the copy of it.  Row_tictoc::abort does nothing.
CommitRow(t, a) ==
  LET n == txn[t].commit_timestamp
      v == IF a.type = "WR" THEN NewVersion(a.row, t) ELSE a.data
  IN  /\ manager' = [manager EXCEPT ![a.row] =
           [@ EXCEPT !.version = v, !.wts = n, !.rts = n]]
      /\ Install(a.row, v)

\* cleanup_row and return_row.
ReturnRow(t) ==
  \E a \in ToSet(txn[t].accesses) :
    /\ Returns(t, a)
    /\ \/ /\ txn[t].state = "committing"
          /\ CommitRow(t, a)
       \/ /\ txn[t].state = "aborting"
          /\ UNCHANGED <<manager, installed>>
    /\ cc' = cc \cup {txn[t].min_commit_ts}
    /\ txn' = [txn EXCEPT ![t] = Returned(@)]
    /\ UNCHANGED <<clock, reads>>

End(t) ==
  /\ txn[t].locked = {}
  /\ EndAttempt(t, <<>>)
  /\ UNCHANGED cc

Step(t) ==
  \/ Start(t)
  \/ Read(t)
  \/ Write(t)
  \/ CopyRow(t)
  \/ ValidateRead(t)
  \/ Validated(t)
  \/ Unlock(t)
  \/ Withdrawn(t)
  \/ ReturnRow(t)
  \/ End(t)

Next == \E t \in Txn : CC_ALG = "TICTOC" /\ Step(t) /\ UNCHANGED build
-----------------------------------------------------------------------------

\* The owner of a row's lock and the transactions that wait for it are ones
\* that will release it: although writers go on without the lock, none leaves
\* a row locked for good.
LocksReleased ==
  CC_ALG = "TICTOC" =>
    \A r \in Row :
      LET m == manager[r]
      IN  /\ \A t \in m.waiting_set \cup ({m.lock_owner} \ {NoTxn}) :
               r \in txn[t].locked
          /\ m.waiting_set # {} => m.lock_owner # NoTxn
=============================================================================
