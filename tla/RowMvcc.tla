------------------------------ MODULE RowMvcc ------------------------------
(***************************************************************************)
(* The MVCC build: concurrency_control/row_mvcc.cpp, multi-version         *)
(* timestamp ordering, with the history that a row keeps and the minimum   *)
(* timestamp of the txn_table that bounds it.                              *)
(*                                                                         *)
(* The histories are ordered by timestamps, which are distinct, so that    *)
(* sets stand for the lists.                                               *)
(***************************************************************************)
EXTENDS Execution

RowInit == [readreq |-> {}, prereq |-> {}, readhis |-> {}, writehis |-> {},
            base |-> Loaded]

MvccInit == Init("MVCC", <<>>, RowInit,
                 [pool_min_ts |-> UINT64_MAX, min_ts |-> 0])

ts(t) == txn[t].timestamp

\* Mutant of UpdateMinTs: the attempt is not registered.
UpdateMinTsNever(t) ==
  /\ txn[t].state = "stamped"
  /\ txn' = [txn EXCEPT ![t].state = "running"]
  /\ UNCHANGED <<clock, manager, cc, hist>>

\* update_min_ts: the timestamp drawn a moment ago is registered.
UpdateMinTs(t) ==
  /\ txn[t].state = "stamped"
  /\ txn' = [txn EXCEPT ![t].state = "running"]
  /\ cc' = [cc EXCEPT !.pool_min_ts = Min({@, ts(t)})]
  /\ UNCHANGED <<clock, manager, hist>>

-----------------------------------------------------------------------------
Newest(V) == CHOOSE v \in V : \A w \in V : w.ts <= v.ts

\* The version of the row with manager m as of time n.
VersionAt(m, n) ==
  LET visible == {v \in m.writehis : v.ts <= n}
  IN  IF visible = {} THEN m.base ELSE Newest(visible)

\* Mutant of conflict_P: a version above the read excuses the prewrite too.
conflict_P_any(m, n) ==
  (\E x \in m.readhis : x > n) /\ ~ \E v \in m.writehis : v.ts > n

\* conflict(R_REQ): a prewrite lies below n, and no version between them.
conflict_R(m, n) ==
  LET older == {ts(u) : u \in m.prereq} \cap 1..(n - 1)
  IN  older # {} /\ ~ \E v \in m.writehis : v.ts > Max(older) /\ v.ts < n

\* conflict(P_REQ): a read lies above n, and no version between them.
conflict_P(m, n) ==
  LET later == {x \in m.readhis : x > n}
  IN  later # {} /\ ~ \E v \in m.writehis : v.ts > n /\ v.ts < Min(later)

\* clear_history: the entries that are not older than n, and the first that is.
KeptReads(S, n) ==
  LET old == {x \in S : x < n}
  IN  IF old = {} THEN S ELSE (S \ old) \cup {Max(old)}

KeptWrites(V, n) ==
  LET old == {v \in V : v.ts < n}
  IN  IF old = {} THEN V ELSE (V \ old) \cup {Newest(old)}

\* The end of access with RCOK: a row with a long history is recycled, m being
\* its manager by now.  get_min_ts looks at the txn_table if its last look is
\* long ago.
Recycle(r, m) ==
  IF \/ Cardinality(m.writehis) > g_his_recycle_len
     \/ Cardinality(m.readhis) > g_his_recycle_len
  THEN \E look \in BOOLEAN :
         LET t_th == IF look THEN Max({cc.min_ts, cc.pool_min_ts})
                     ELSE cc.min_ts
             kept == KeptWrites(m.writehis, t_th)
         IN  /\ cc' = [cc EXCEPT !.min_ts = t_th]
             /\ manager' = [manager EXCEPT ![r] =
                  [m EXCEPT !.readhis = KeptReads(@, t_th), !.writehis = kept,
                            !.base = IF kept = m.writehis THEN @
                                     ELSE Newest(m.writehis \ kept)]]
  ELSE manager' = [manager EXCEPT ![r] = m] /\ UNCHANGED cc

-----------------------------------------------------------------------------
\* access(P_REQ).
Prewrite(t) ==
  LET r  == Req(t).row
      m  == manager[r]
      ok == ~ conflict_P(m, ts(t)) /\ Cardinality(m.prereq) < g_max_pre_req
  IN
  /\ AtRequest(t, "WR")
  /\ \/ /\ ok
        /\ txn' = [txn EXCEPT ![t].state = "prewritten"]
        /\ Recycle(r, [m EXCEPT !.prereq = @ \cup {t}])
     \/ /\ ~ ok
        /\ txn' = [txn EXCEPT ![t].state = "aborting"]
        /\ UNCHANGED <<manager, cc>>
  /\ UNCHANGED <<clock, hist>>

\* access(R_REQ): a read above the prewrite of another waits for it, or aborts
\* if the queue is full.
ReadRow(t) ==
  LET r == Req(t).row
      m == manager[r]
      room == Cardinality(m.readreq) < g_max_pre_req
  IN
  /\ ~ is_done(t)
  /\ txn[t].state = IF Req(t).type = "WR" THEN "prewritten" ELSE "running"
  /\ \/ /\ conflict_R(m, ts(t))
        /\ txn' = [txn EXCEPT ![t].state = IF room THEN "waiting"
                                           ELSE "aborting"]
        /\ manager' = IF room THEN [manager EXCEPT ![r].readreq = @ \cup {t}]
                      ELSE manager
        /\ UNCHANGED <<cc, reads>>
     \/ /\ ~ conflict_R(m, ts(t))
        /\ txn' = [txn EXCEPT ![t] = GotRow(@, t, <<>>)]
        /\ reads' = [reads EXCEPT ![t] = ReadsOf(t, r, VersionAt(m, ts(t)))]
        /\ Recycle(r, [m EXCEPT !.readhis = @ \cup {ts(t)}])
  /\ UNCHANGED <<clock, installed>>

\* debuffer_req(R_REQ): the reads that are below every prewrite.
ReadyReads(m) ==
  {u \in m.readreq : \A p \in m.prereq : ts(u) <= ts(p)}

\* The prewrite of t goes and update_buffer lets reads go; m is the manager of
\* r with what W_REQ added to it.
Debuffer(t, r, m) ==
  LET n     == [m EXCEPT !.prereq = @ \ {t}]
      ready == ReadyReads(n)
  IN
  /\ WakeUp(t, r, ready, [u \in ready |-> VersionAt(n, ts(u))])
  /\ Recycle(r, [n EXCEPT !.readreq = @ \ ready,
                          !.readhis = @ \cup {ts(u) : u \in ready}])

\* cleanup_row and return_row: W_REQ or XP_REQ for a row that was written.
ReturnRow(t) ==
  \E a \in ToSet(txn[t].accesses) :
    LET r == a.row
        v == [ts |-> ts(t), txn |-> t]
    IN
    /\ Returns(t, a)
    /\ \/ /\ a.type = "WR" /\ txn[t].state = "committing"
          /\ Debuffer(t, r, [manager[r] EXCEPT !.writehis = @ \cup {v}])
          /\ Install(r, v)
       \/ /\ a.type = "WR" /\ txn[t].state = "aborting"
          /\ Debuffer(t, r, manager[r])
          /\ UNCHANGED installed
       \/ /\ a.type = "RD"
          /\ txn' = [txn EXCEPT ![t] = Returned(@)]
          /\ UNCHANGED <<manager, cc, hist>>
    /\ UNCHANGED clock

\* release_transaction_manager: the minimum over the managers that stay.
PoolMin(t) ==
  Min({UINT64_MAX} \cup
      {ts(u) : u \in {v \in Txn \ {t} : txn[v].state # "done"}})

\* The end of an attempt; a commit releases the manager.
End(t) ==
  /\ EndAttempt(t, <<>>)
  /\ cc' = IF txn[t].state = "committing"
           THEN [cc EXCEPT !.pool_min_ts = PoolMin(t)] ELSE cc

Step(t) ==
  \/ NewTimestamp(t, "stamped")
  \/ UpdateMinTs(t)
  \/ Prewrite(t)
  \/ ReadRow(t)
  \/ Resume(t)
  \/ StartCommit(t)
  \/ ReturnRow(t)
  \/ End(t)

Next == \E t \in Txn : CC_ALG = "MVCC" /\ Step(t) /\ UNCHANGED build
-----------------------------------------------------------------------------

\* A transaction that waits is in the queue of the row it asked for, above a
\* prewrite that will end.
NoLostWakeup ==
  CC_ALG = "MVCC" =>
    \A t \in Txn : txn[t].state = "waiting" =>
      LET m == manager[Req(t).row]
      IN  t \in m.readreq /\ \E u \in m.prereq : ts(u) < ts(t)

\* Whatever is recycled, a transaction that runs reads of any row the newest
\* version that is not newer than its timestamp.
SnapshotKept ==
  CC_ALG = "MVCC" =>
    \A t \in Txn : txn[t].state \in {"stamped", "running", "prewritten"} =>
      \A r \in Row :
        VersionAt(manager[r], ts(t)) =
          Newest({v \in installed[r] : v.ts <= ts(t)})
=============================================================================
