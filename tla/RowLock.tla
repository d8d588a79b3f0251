------------------------------ MODULE RowLock ------------------------------
(***************************************************************************)
(* The lock of a row (concurrency_control/row_lock.cpp) for the three      *)
(* builds that use it: NO_WAIT, WAIT_DIE and CALVIN.                       *)
(*                                                                         *)
(* lock_get and lock_release run under the latch of the row, so each is    *)
(* one step here.  A transaction stands for its timestamp: get_timestamp() *)
(* is what lock_get compares, and it names the transaction in the lists.   *)
(* This module has the state of the locks and the effect of the two calls; *)
(* the modules that extend it say when transactions make them.             *)
(***************************************************************************)
EXTENDS Integers, Sequences, FiniteSets

CONSTANTS Txn,       \* the transactions, each one its timestamp
          Row,       \* the rows
          CC_ALGS    \* the builds to consider: values of the macro CC_ALG

ASSUME TxnAssumption == Txn \subseteq Nat /\ IsFiniteSet(Txn)
ASSUME AlgAssumption == CC_ALGS \subseteq {"NO_WAIT", "WAIT_DIE", "CALVIN"}

VARIABLES
  CC_ALG,          \* the build: chosen once and for all
  lock_type,       \* lock_type[r]: the type in which r is held, or LOCK_NONE
  owner_cnt,       \* owner_cnt[r]: how many transactions own r
  owners,          \* owners[r]: the entries of the owners (none for NO_WAIT)
  waiters,         \* waiters[r]: the list of entries from waiters_head on
  lock_ready,      \* lock_ready[t], lock_ready_cnt[t]: fields of TxnManager
  lock_ready_cnt,
  restarts         \* restarts[t]: messages restart_txn queued for t

rowLockVars == <<lock_type, owner_cnt, owners, waiters>>
readyVars   == <<lock_ready, lock_ready_cnt, restarts>>
lockVars    == <<CC_ALG, rowLockVars, readyVars>>

LockType  == {"LOCK_EX", "LOCK_SH", "LOCK_NONE"}
Mode      == {"LOCK_EX", "LOCK_SH"}
LockEntry == [txn : Txn, type : Mode]

LockTypeOK ==
  /\ CC_ALG \in CC_ALGS
  /\ lock_type \in [Row -> LockType]
  /\ owner_cnt \in [Row -> Nat]
  /\ owners \in [Row -> SUBSET LockEntry]
  /\ waiters \in [Row -> Seq(LockEntry)]
  /\ lock_ready \in [Txn -> BOOLEAN]
  /\ lock_ready_cnt \in [Txn -> Nat]
  /\ restarts \in [Txn -> Nat]

LockInit ==
  /\ CC_ALG \in CC_ALGS
  /\ lock_type = [r \in Row |-> "LOCK_NONE"]
  /\ owner_cnt = [r \in Row |-> 0]
  /\ owners = [r \in Row |-> {}]
  /\ waiters = [r \in Row |-> <<>>]
  /\ lock_ready = [t \in Txn |-> FALSE]
  /\ lock_ready_cnt = [t \in Txn |-> 0]
  /\ restarts = [t \in Txn |-> 0]

-----------------------------------------------------------------------------
conflict_lock(l1, l2) ==
  /\ l1 # "LOCK_NONE" /\ l2 # "LOCK_NONE"
  /\ l1 = "LOCK_EX" \/ l2 = "LOCK_EX"

\* Mutant of Conflict: no look at the waiters.
ConflictOwnersOnly(t, r, type) == conflict_lock(lock_type[r], type)

\* Whether the request cannot be granted at once: besides a conflict with the
\* owners, WAIT_DIE keeps a request behind a younger head of the waiters, and
\* CALVIN behind any waiter.
Conflict(t, r, type) ==
  \/ conflict_lock(lock_type[r], type)
  \/ /\ CC_ALG = "WAIT_DIE"
     /\ waiters[r] # <<>> /\ t < Head(waiters[r]).txn
  \/ CC_ALG = "CALVIN" /\ waiters[r] # <<>>

\* Mutant of CanWait: nobody dies.
CanWaitAlways(t, r) == TRUE

\* The loop over the owners: t may wait unless it is younger than one of them.
CanWait(t, r) == ~ \E o \in owners[r] : t > o.txn

\* The insertion point p of WAIT_DIE: before the first waiter that t is not
\* older than, or at the tail.
InsertionPoint(t, r, p) ==
  /\ \A i \in 1..(p - 1) : t < waiters[r][i].txn
  /\ p <= Len(waiters[r]) => ~ (t < waiters[r][p].txn)

InsertAt(s, p, e) ==
  [i \in 1..(Len(s) + 1) |->
     IF i < p THEN s[i] ELSE IF i = p THEN e ELSE s[i - 1]]

\* Mutant of LockGranted: a reader that joins readers is not counted.
LockGrantedUncounted(t, r, type) ==
  /\ ~ Conflict(t, r, type)
  /\ owners' = [owners EXCEPT ![r] =
                  IF CC_ALG = "NO_WAIT" THEN @
                  ELSE @ \cup {[txn |-> t, type |-> type]}]
  /\ owner_cnt' = [owner_cnt EXCEPT ![r] = 1]
  /\ lock_type' = [lock_type EXCEPT ![r] = type]
  /\ UNCHANGED <<CC_ALG, waiters, readyVars>>

\* lock_get returning RCOK.
LockGranted(t, r, type) ==
  /\ ~ Conflict(t, r, type)
  /\ owners' = [owners EXCEPT ![r] =
                  IF CC_ALG = "NO_WAIT" THEN @
                  ELSE @ \cup {[txn |-> t, type |-> type]}]
  /\ owner_cnt' = [owner_cnt EXCEPT ![r] = @ + 1]
  /\ lock_type' = [lock_type EXCEPT ![r] = type]
  /\ UNCHANGED <<CC_ALG, waiters, readyVars>>

\* Mutant of LockWait: lock_ready keeps the value of an earlier wait.
LockWaitStaleReady(t, r, type) ==
  /\ Conflict(t, r, type)
  /\ CC_ALG # "NO_WAIT"
  /\ CC_ALG = "WAIT_DIE" => CanWait(t, r)
  /\ \E p \in 1..(Len(waiters[r]) + 1) :
       /\ InsertionPoint(t, r, p)
       /\ waiters' = [waiters EXCEPT ![r] =
                        InsertAt(@, p, [txn |-> t, type |-> type])]
  /\ lock_ready_cnt' = [lock_ready_cnt EXCEPT ![t] = @ + 1]
  /\ UNCHANGED <<CC_ALG, lock_type, owner_cnt, owners, lock_ready, restarts>>

\* Mutant of LockWait: the wait is not counted.
LockWaitUncounted(t, r, type) ==
  /\ Conflict(t, r, type)
  /\ CC_ALG # "NO_WAIT"
  /\ CC_ALG = "WAIT_DIE" => CanWait(t, r)
  /\ \E p \in 1..(Len(waiters[r]) + 1) :
       /\ InsertionPoint(t, r, p)
       /\ waiters' = [waiters EXCEPT ![r] =
                        InsertAt(@, p, [txn |-> t, type |-> type])]
  /\ lock_ready' = [lock_ready EXCEPT ![t] = FALSE]
  /\ UNCHANGED <<CC_ALG, lock_type, owner_cnt, owners, lock_ready_cnt,
                 restarts>>

\* lock_get returning WAIT.
LockWait(t, r, type) ==
  /\ Conflict(t, r, type)
  /\ CC_ALG # "NO_WAIT"
  /\ CC_ALG = "WAIT_DIE" => CanWait(t, r)
  /\ \E p \in 1..(Len(waiters[r]) + 1) :
       /\ CC_ALG = "WAIT_DIE" => InsertionPoint(t, r, p)
       /\ CC_ALG = "CALVIN" => p = Len(waiters[r]) + 1
       /\ waiters' = [waiters EXCEPT ![r] =
                        InsertAt(@, p, [txn |-> t, type |-> type])]
  /\ lock_ready' = [lock_ready EXCEPT ![t] = FALSE]
  /\ lock_ready_cnt' = [lock_ready_cnt EXCEPT ![t] = @ + 1]
  /\ UNCHANGED <<CC_ALG, lock_type, owner_cnt, owners, restarts>>

\* lock_get returning Abort: the row is left as it is.
LockAbort(t, r, type) ==
  /\ Conflict(t, r, type)
  /\ \/ CC_ALG = "NO_WAIT"
     \/ CC_ALG = "WAIT_DIE" /\ ~ CanWait(t, r)

-----------------------------------------------------------------------------
\* Mutant of Promotes: the loop compares with the lock before the first one.
PromotesStaleType(lt, ws, k) ==
  /\ \A i \in 1..k : ~ conflict_lock(lt, ws[i].type)
  /\ k < Len(ws) => conflict_lock(lt, ws[k + 1].type)

\* Mutant of Promotes: one waiter at most is served.
PromotesOne(lt, ws, k) ==
  k = IF ws # <<>> /\ ~ conflict_lock(lt, Head(ws).type) THEN 1 ELSE 0

\* The waiters that the loop at the end of lock_release promotes are the first
\* k: each one does not conflict with the lock as the one before it left it,
\* and the next one does.
Promotes(lt, ws, k) ==
  LET before(i) == IF i = 1 THEN lt ELSE ws[i - 1].type
  IN  /\ \A i \in 1..k : ~ conflict_lock(before(i), ws[i].type)
      /\ k < Len(ws) => conflict_lock(before(k + 1), ws[k + 1].type)

\* lock_release by t, which owns r.  A promoted transaction whose last awaited
\* lock this was is restarted.
LockRelease(t, r) ==
  LET ws  == waiters[r]
      cnt == owner_cnt[r] - 1
      lt  == IF cnt = 0 THEN "LOCK_NONE" ELSE lock_type[r]
  IN \E k \in 0..Len(ws) :
       LET promoted == {ws[i] : i \in 1..k}
           last     == {u \in Txn : /\ \E e \in promoted : e.txn = u
                                    /\ lock_ready_cnt[u] = 1
                                    /\ ~ lock_ready[u]}
       IN /\ Promotes(lt, ws, k)
          /\ owner_cnt' = [owner_cnt EXCEPT ![r] = cnt + k]
          /\ owners' = [owners EXCEPT ![r] =
                          {o \in @ : o.txn # t} \cup promoted]
          /\ waiters' = [waiters EXCEPT ![r] = SubSeq(@, k + 1, Len(@))]
          /\ lock_type' = [lock_type EXCEPT ![r] =
                             IF k = 0 THEN lt ELSE ws[k].type]
          /\ lock_ready_cnt' =
               [u \in Txn |-> IF \E e \in promoted : e.txn = u
                              THEN lock_ready_cnt[u] - 1
                              ELSE lock_ready_cnt[u]]
          /\ lock_ready' = [u \in Txn |-> lock_ready[u] \/ u \in last]
          /\ restarts' = [u \in Txn |-> IF u \in last THEN restarts[u] + 1
                                        ELSE restarts[u]]
          /\ UNCHANGED CC_ALG
=============================================================================
