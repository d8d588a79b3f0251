------------------------------- MODULE TwoPL -------------------------------
(***************************************************************************)
(* Two-phase locking: transactions that run their requests against the row *)
(* locks of RowLock, in the NO_WAIT and WAIT_DIE builds.                   *)
(*                                                                         *)
(* A worker thread runs a transaction only after clearing txn_ready, so at *)
(* most one handler of a transaction runs at a time; handlers of different *)
(* transactions interleave at every call on a row.  The rows may live on   *)
(* several nodes: the timestamp travels with RQRY, and the nodes a         *)
(* transaction touched clean up concurrently, so that the rows of one      *)
(* transaction are returned in any order.                                  *)
(***************************************************************************)
EXTENDS RowLock

CONSTANT Programs    \* the request lists a query may have

Request == [row : Row, type : Mode]

\* The keys of a query are distinct (access_keys of the query generator).
ASSUME ProgramsAssumption ==
  /\ Programs \subseteq Seq(Request)
  /\ \A p \in Programs : \A i, j \in 1..Len(p) : p[i].row = p[j].row => i = j
ASSUME TwoPLAssumption == CC_ALGS \subseteq {"NO_WAIT", "WAIT_DIE"}

VARIABLES
  prog,            \* prog[t]: the requests of t's query
  next_record_id,  \* next_record_id[t]: the request t is at
  state,           \* state[t]: what t is doing
  txn_ready,       \* txn_ready[t]: no worker is running a handler of t
  accesses,        \* accesses[t]: the rows t got, with the image before t
  data,            \* data[r]: who wrote the value of r
  committed        \* committed[r]: the last transaction that committed r
                   \*   (history variable)

txnVars == <<prog, next_record_id, state, txn_ready, accesses>>
vars    == <<lockVars, txnVars, data, committed>>

NoTxn    == -1
Writer   == Txn \cup {NoTxn}
Access   == [row : Row, type : Mode, orig_data : Writer]
TxnState == {"queued", "running", "waiting", "committing", "aborting", "done"}

TypeOK ==
  /\ LockTypeOK
  /\ prog \in [Txn -> Programs]
  /\ next_record_id \in [Txn -> Nat \ {0}]
  /\ state \in [Txn -> TxnState]
  /\ txn_ready \in [Txn -> BOOLEAN]
  /\ accesses \in [Txn -> SUBSET Access]
  /\ data \in [Row -> Writer]
  /\ committed \in [Row -> Writer]

Init ==
  /\ LockInit
  /\ prog \in [Txn -> Programs]
  /\ next_record_id = [t \in Txn |-> 1]
  /\ state = [t \in Txn |-> "queued"]
  /\ txn_ready = [t \in Txn |-> TRUE]
  /\ accesses = [t \in Txn |-> {}]
  /\ data = [r \in Row |-> NoTxn]
  /\ committed = [r \in Row |-> NoTxn]

-----------------------------------------------------------------------------
Req(t)     == prog[t][next_record_id[t]]
is_done(t) == next_record_id[t] > Len(prog[t])

\* What get_row does once the row is t's: record the access with the image
\* to roll back to, let the transaction write it, move to the next request.
RecordAccess(t) ==
  /\ accesses' = [accesses EXCEPT ![t] =
                    @ \cup {[row |-> Req(t).row, type |-> Req(t).type,
                             orig_data |-> data[Req(t).row]]}]
  /\ data' = [data EXCEPT ![Req(t).row] =
                IF Req(t).type = "LOCK_EX" THEN t ELSE @]
  /\ next_record_id' = [next_record_id EXCEPT ![t] = @ + 1]

\* process_rtxn: a worker takes CL_QRY, or RTXN after an abort.
Start(t) ==
  /\ state[t] = "queued" /\ txn_ready[t]
  /\ state' = [state EXCEPT ![t] = "running"]
  /\ txn_ready' = [txn_ready EXCEPT ![t] = FALSE]
  /\ UNCHANGED <<lockVars, prog, next_record_id, accesses, data, committed>>

GetRowOK(t) ==
  /\ state[t] = "running" /\ ~ is_done(t)
  /\ LockGranted(t, Req(t).row, Req(t).type)
  /\ RecordAccess(t)
  /\ UNCHANGED <<prog, state, txn_ready, committed>>

GetRowWait(t) ==
  /\ state[t] = "running" /\ ~ is_done(t)
  /\ LockWait(t, Req(t).row, Req(t).type)
  /\ state' = [state EXCEPT ![t] = "waiting"]
  /\ UNCHANGED <<prog, next_record_id, txn_ready, accesses, data, committed>>

GetRowAbort(t) ==
  /\ state[t] = "running" /\ ~ is_done(t)
  /\ LockAbort(t, Req(t).row, Req(t).type)
  /\ state' = [state EXCEPT ![t] = "aborting"]
  /\ UNCHANGED <<lockVars, prog, next_record_id, txn_ready, accesses, data,
                 committed>>

\* The worker whose handler ended in WAIT sets txn_ready.  The restart may
\* have been queued before that.
Yield(t) ==
  /\ state[t] = "waiting" /\ ~ txn_ready[t]
  /\ txn_ready' = [txn_ready EXCEPT ![t] = TRUE]
  /\ UNCHANGED <<lockVars, prog, next_record_id, state, accesses, data,
                 committed>>

\* RTXN_CONT or RQRY_CONT: run_txn_post_wait.  A worker that finds txn_ready
\* clear puts the message back in the queue.
Resume(t) ==
  /\ restarts[t] > 0 /\ txn_ready[t]
  /\ restarts' = [restarts EXCEPT ![t] = @ - 1]
  /\ txn_ready' = [txn_ready EXCEPT ![t] = FALSE]
  /\ state' = [state EXCEPT ![t] = "running"]
  /\ RecordAccess(t)
  /\ UNCHANGED <<CC_ALG, rowLockVars, lock_ready, lock_ready_cnt, prog,
                 committed>>

\* start_commit: validate has nothing to check in these builds.
Commit(t) ==
  /\ state[t] = "running" /\ is_done(t)
  /\ state' = [state EXCEPT ![t] = "committing"]
  /\ UNCHANGED <<lockVars, prog, next_record_id, txn_ready, accesses, data,
                 committed>>

\* Mutant of ReturnRow: no rollback.
ReturnRowNoRollback(t) ==
  /\ state[t] \in {"committing", "aborting"}
  /\ \E a \in accesses[t] :
       /\ LockRelease(t, a.row)
       /\ accesses' = [accesses EXCEPT ![t] = @ \ {a}]
       /\ committed' = [committed EXCEPT ![a.row] =
                          IF state[t] = "committing" /\ a.type = "LOCK_EX"
                          THEN t ELSE @]
  /\ UNCHANGED <<prog, next_record_id, state, txn_ready, data>>

\* cleanup_row and return_row: a write of an aborted transaction is undone
\* before the lock is released.
ReturnRow(t) ==
  /\ state[t] \in {"committing", "aborting"}
  /\ \E a \in accesses[t] :
       /\ LockRelease(t, a.row)
       /\ accesses' = [accesses EXCEPT ![t] = @ \ {a}]
       /\ data' = [data EXCEPT ![a.row] =
                     IF state[t] = "aborting" /\ a.type = "LOCK_EX"
                     THEN a.orig_data ELSE @]
       /\ committed' = [committed EXCEPT ![a.row] =
                          IF state[t] = "committing" /\ a.type = "LOCK_EX"
                          THEN t ELSE @]
  /\ UNCHANGED <<prog, next_record_id, state, txn_ready>>

\* WorkerThread::commit: answer the client, give the manager back.
Finish(t) ==
  /\ state[t] = "committing" /\ accesses[t] = {}
  /\ state' = [state EXCEPT ![t] = "done"]
  /\ txn_ready' = [txn_ready EXCEPT ![t] = TRUE]
  /\ UNCHANGED <<lockVars, prog, next_record_id, accesses, data, committed>>

\* WorkerThread::abort: reset the manager; the abort queue sends RTXN later.
Abort(t) ==
  /\ state[t] = "aborting" /\ accesses[t] = {}
  /\ state' = [state EXCEPT ![t] = "queued"]
  /\ txn_ready' = [txn_ready EXCEPT ![t] = TRUE]
  /\ next_record_id' = [next_record_id EXCEPT ![t] = 1]
  /\ lock_ready' = [lock_ready EXCEPT ![t] = FALSE]
  /\ lock_ready_cnt' = [lock_ready_cnt EXCEPT ![t] = 0]
  /\ UNCHANGED <<CC_ALG, rowLockVars, restarts, prog, accesses, data,
                 committed>>

\* Every transaction has been answered.
AllDone == (\A t \in Txn : state[t] = "done") /\ UNCHANGED vars

Step(t) ==
  \/ Start(t) \/ GetRowOK(t) \/ GetRowWait(t) \/ GetRowAbort(t) \/ Yield(t)
  \/ Resume(t) \/ Commit(t) \/ ReturnRow(t) \/ Finish(t) \/ Abort(t)

Next == (\E t \in Txn : Step(t)) \/ AllDone

Spec == Init /\ [][Next]_vars

\* Workers keep dequeuing, so a transaction that can step keeps stepping.
FairSpec == Spec /\ \A t \in Txn : WF_vars(Step(t))

-----------------------------------------------------------------------------
Waits(t, r)  == \E i \in 1..Len(waiters[r]) : waiters[r][i].txn = t

\* t holds r in mode m: as a recorded access, or because it was promoted and
\* has not been resumed yet.
Holds(t, r, m) ==
  \/ \E a \in accesses[t] : a.row = r /\ a.type = m
  \/ /\ state[t] = "waiting" /\ restarts[t] > 0
     /\ Req(t).row = r /\ Req(t).type = m

Holders(r) == {t \in Txn : \E m \in Mode : Holds(t, r, m)}

\* Two transactions hold a row only if both read it.  (lock_get's test of
\* lock_type, which a release or a promotion may have left wrong.)
Exclusion ==
  \A r \in Row : \A t, u \in Txn : \A m, n \in Mode :
    t # u /\ Holds(t, r, m) /\ Holds(u, r, n) =>
      m = "LOCK_SH" /\ n = "LOCK_SH"

\* owner_cnt counts the holders: it neither drifts nor hits the assertion
\* owner_cnt > 0 of lock_release.
OwnerCount == \A r \in Row : owner_cnt[r] = Cardinality(Holders(r))

\* A waiting transaction is in exactly one list, once, or has exactly one
\* restart in the queue for a row it now owns; no other transaction is.
NoLostWakeup ==
  \A t \in Txn :
    LET queued == {q \in Row \X (1..Cardinality(Txn)) :
                     /\ q[2] <= Len(waiters[q[1]])
                     /\ waiters[q[1]][q[2]].txn = t}
    IN  Cardinality(queued) + restarts[t] =
          (IF state[t] = "waiting" THEN 1 ELSE 0)

\* Nobody waits for a row that could be granted: the loop of lock_release
\* leaves a head that conflicts with the lock.
HeadBlocked ==
  \A r \in Row : waiters[r] # <<>> =>
    conflict_lock(lock_type[r], Head(waiters[r]).type)

\* The list of waiters is in timestamp order and every waiter is older than
\* every owner (the assertion of lock_release, and what CanWait is for).
WaitDieOrder ==
  \A r \in Row :
    /\ \A i, j \in 1..Len(waiters[r]) :
         i < j => waiters[r][j].txn < waiters[r][i].txn
    /\ \A i \in 1..Len(waiters[r]) : \A o \in owners[r] :
         waiters[r][i].txn < o.txn

\* t waits for u: for an owner, or for a waiter that will be served before.
WaitsFor(t, u) ==
  \E r \in Row : \E i \in 1..Len(waiters[r]) :
    /\ waiters[r][i].txn = t
    /\ \/ \E o \in owners[r] : o.txn = u
       \/ \E j \in 1..(i - 1) : waiters[r][j].txn = u

\* No set of transactions in which each one is waited for by another of the
\* set: in particular no cycle of waits, over all the rows of all the nodes.
NoDeadlock ==
  \A S \in (SUBSET Txn) \ {{}} :
    \E t \in S : \A u \in S : ~ WaitsFor(u, t)

\* A row nobody holds for writing has its last committed value: aborted
\* writes are undone before anybody else can see them.
Strictness ==
  \A r \in Row :
    (\A t \in Txn : ~ Holds(t, r, "LOCK_EX")) => data[r] = committed[r]

\* Every transaction is answered.
EveryTxnCommits == <>(\A t \in Txn : state[t] = "done")
=============================================================================
